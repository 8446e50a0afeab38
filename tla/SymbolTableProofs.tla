-------------------------- MODULE SymbolTableProofs --------------------------
(***************************************************************************)
(* For any threads and any strings: the type invariant of SymbolTable, and *)
(* that lookup() interns when the keys of the map are compared by content. *)
(***************************************************************************)
EXTENDS SymbolTable, TLAPS

USE SymbolTableAssumption

(* What Append does to a sequence, and what its elements are.              *)
LEMMA AppendFacts ==
  ASSUME NEW S, NEW s \in Seq(S), NEW e \in S
  PROVE  /\ Append(s, e) \in Seq(S)
         /\ Len(Append(s, e)) = Len(s) + 1
         /\ DOMAIN Append(s, e) = DOMAIN s \cup {Len(s) + 1}
         /\ \A i \in DOMAIN s : Append(s, e)[i] = s[i]
         /\ Append(s, e)[Len(s) + 1] = e
         /\ DOMAIN s = 1..Len(s)
         /\ Len(s) \in Nat
  OBVIOUS

LEMMA ElementFacts ==
  ASSUME NEW S, NEW s \in Seq(S), NEW i \in DOMAIN s
  PROVE  i \in 1..Len(s) /\ i \in Nat /\ s[i] \in S
  OBVIOUS

-----------------------------------------------------------------------------
(* A key is a string or an address, whatever is asked for.                 *)
LEMMA KeyType ==
  ASSUME NEW c \in CString
  PROVE  /\ KeyOf(c) \in Strings \cup Nat
         /\ ByContent => KeyOf(c) = c.str
  BY DEF KeyOf, CString

(* The entries point at symbols: with TypeOK this is inductive.            *)
EntriesOK == \A i \in DOMAIN symbolTable : symbolTable[i].sym \in DOMAIN symbols

(* A thread that is about to insert or to return holds a symbol.           *)
IterOK == \A t \in Threads :
  /\ pc[t] \in {"create", "insert"} => iter[t] = 0
  /\ pc[t] = "insert" => newSymbol[t] \in DOMAIN symbols
  /\ pc[t] \in {"unlock", "return"} => iter[t] # 0 \/ newSymbol[t] \in DOMAIN symbols

TypeInv == TypeOK /\ EntriesOK /\ IterOK

(* The strings a caller can pass are C strings.                            *)
LEMMA CStringsType == TypeOK => \A c \in CStrings : c \in CString
  <1> SUFFICES ASSUME TypeOK, NEW c \in CStrings PROVE c \in CString
    OBVIOUS
  <1>1. ASSUME NEW p \in DOMAIN symbols
        PROVE  p \in Nat /\ symbols[p].str \in Strings
    <2> DEFINE Symbol == [str : Strings, id : Nat]
    <2>1. symbols \in Seq(Symbol)
      BY DEF TypeOK
    <2>2. p \in Nat /\ symbols[p] \in Symbol
      <3> HIDE DEF Symbol
      <3> QED
        BY <1>1, <2>1, ElementFacts
    <2> QED
      BY <2>2
  <1>2. CASE \E s \in Strings : c = [str |-> s, buf |-> CallerBuffer]
    BY <1>2 DEF CString, CallerBuffer
  <1>3. CASE \E p \in DOMAIN symbols :
               c = [str |-> symbols[p].str, buf |-> OwnBuffer(p)]
    BY <1>1, <1>3 DEF CString, OwnBuffer
  <1> QED
    BY <1>2, <1>3 DEF CStrings

LEMMA TypeInit == Init => TypeInv
  <1> SUFFICES ASSUME Init PROVE TypeInv
    OBVIOUS
  <1>1. /\ [str |-> EmptyString, buf |-> CallerBuffer] \in CString
        /\ [str |-> EmptyString, buf |-> LiteralBuffer] \in CString
    BY DEF CString, CallerBuffer, LiteralBuffer
  <1>2. KeyOf([str |-> EmptyString, buf |-> LiteralBuffer]) \in Strings \cup Nat
    BY <1>1, KeyType
  <1>3. TypeOK
    BY <1>1, <1>2 DEF Init, TypeOK, PC
  <1>4. EntriesOK /\ IterOK
    BY DEF Init, EntriesOK, IterOK
  <1> QED
    BY <1>3, <1>4 DEF TypeInv

LEMMA TypeStep == TypeInv /\ [Next]_vars => TypeInv'
  <1> SUFFICES ASSUME TypeInv, [Next]_vars PROVE TypeInv'
    OBVIOUS
  <1> USE DEF TypeInv, TypeOK, EntriesOK, IterOK, PC, Goto
  <1>1. ASSUME NEW t \in Threads, Call(t) PROVE TypeInv'
    <2>1. arg' \in [Threads -> CString]
      BY <1>1, CStringsType DEF Call
    <2> QED
      BY <1>1, <2>1 DEF Call
  <1>2. ASSUME NEW t \in Threads, Lock(t) PROVE TypeInv'
    BY <1>2 DEF Lock
  <1>3. ASSUME NEW t \in Threads, Find(t) PROVE TypeInv'
    <2>1. /\ pc' \in [Threads -> PC]
          /\ UNCHANGED <<symbols, symbolTable, mutex, arg, newSymbol, answers>>
      BY <1>3 DEF Find
    <2>2. /\ iter' \in [Threads -> 0..Len(symbolTable)]
          /\ pc'[t] = "create" => iter'[t] = 0
          /\ pc'[t] = "unlock" => iter'[t] # 0
      <3>1. CASE pc'[t] = "create" /\ iter' = [iter EXCEPT ![t] = 0]
        BY <3>1
      <3>2. CASE pc'[t] = "unlock" /\ \E i \in Found(KeyOf(arg[t])) : iter' = [iter EXCEPT ![t] = i]
        <4>1. PICK i \in DOMAIN symbolTable : iter' = [iter EXCEPT ![t] = i]
          BY <3>2 DEF Found
        <4>2. i \in 1..Len(symbolTable)
          OBVIOUS
        <4> QED
          BY <3>2, <4>1, <4>2
      <3> QED
        BY <1>3, <3>1, <3>2 DEF Find
    <2>3. \A u \in Threads \ {t} : pc'[u] = pc[u] /\ iter'[u] = iter[u]
      BY <1>3 DEF Find
    <2>4. pc'[t] \in {"create", "unlock"}
      BY <1>3 DEF Find
    <2> QED
      BY <2>1, <2>2, <2>3, <2>4
  <1>4. ASSUME NEW t \in Threads, Create(t) PROVE TypeInv'
    <2> DEFINE new == [str |-> arg[t].str, id |-> Len(symbolTable)]
    <2>1. new \in [str : Strings, id : Nat]
      BY DEF CString
    <2>2. /\ symbols' \in Seq([str : Strings, id : Nat])
          /\ Len(symbols') = Len(symbols) + 1
          /\ DOMAIN symbols' = DOMAIN symbols \cup {Len(symbols) + 1}
          /\ DOMAIN symbols = 1..Len(symbols)
          /\ Len(symbols) \in Nat
      BY <1>4, <2>1, AppendFacts DEF Create
    <2> QED
      BY <1>4, <2>2 DEF Create
  <1>5. ASSUME NEW t \in Threads, Insert(t) PROVE TypeInv'
    <2> DEFINE c == GetCString(newSymbol[t], arg[t].str)
               new == [key |-> KeyOf(c), sym |-> newSymbol[t]]
    <2>1. c \in CString
      <3>1. newSymbol[t] \in Nat /\ arg[t].str \in Strings
        BY DEF CString
      <3> QED
        BY <3>1 DEF GetCString, CString, OwnBuffer
    <2>2. new \in [key : Strings \cup Nat, sym : Nat] /\ newSymbol[t] \in DOMAIN symbols
      BY <1>5, <2>1, KeyType DEF Insert
    <2>3. \/ symbolTable' = Append(symbolTable, new)
          \/ symbolTable' = symbolTable
      BY <1>5 DEF Insert
    <2>4. /\ symbolTable' \in Seq([key : Strings \cup Nat, sym : Nat])
          /\ \A i \in DOMAIN symbolTable' : symbolTable'[i].sym \in DOMAIN symbols
          /\ Len(symbolTable') >= Len(symbolTable)
      <3>1. CASE symbolTable' = Append(symbolTable, new)
        <4> HIDE DEF new
        <4>1. new.sym \in DOMAIN symbols
          BY <2>2 DEF new
        <4> DEFINE Entry == [key : Strings \cup Nat, sym : Nat]
        <4>2. /\ symbolTable' \in Seq(Entry)
              /\ DOMAIN symbolTable' = DOMAIN symbolTable \cup {Len(symbolTable) + 1}
              /\ \A i \in DOMAIN symbolTable : symbolTable'[i] = symbolTable[i]
              /\ symbolTable'[Len(symbolTable) + 1] = new
              /\ Len(symbolTable') = Len(symbolTable) + 1 /\ Len(symbolTable) \in Nat
          <5>1. symbolTable \in Seq(Entry) /\ new \in Entry
            BY <2>2
          <5> HIDE DEF Entry
          <5> QED
            BY <3>1, <5>1, AppendFacts
        <4> QED
          BY <4>1, <4>2
      <3> QED
        BY <2>3, <3>1
    <2> QED
      BY <1>5, <2>4 DEF Insert
  <1>6. ASSUME NEW t \in Threads, Unlock(t) PROVE TypeInv'
    BY <1>6 DEF Unlock
  <1>7. ASSUME NEW t \in Threads, Return(t) PROVE TypeInv'
    <2>1. Result(t) \in DOMAIN symbols
      BY <1>7 DEF Return, Result
    <2> QED
      BY <1>7, <2>1 DEF Return, CString
  <1>8. CASE UNCHANGED vars
    BY <1>8 DEF vars
  <1> QED
    BY <1>1, <1>2, <1>3, <1>4, <1>5, <1>6, <1>7, <1>8 DEF Next, Step

(* Whatever the map compares, no thread reads an entry through end(), and  *)
(* no answer points at anything but a symbol.                              *)
THEOREM TypeCorrect == Spec => []TypeOK
  <1>1. TypeInv => TypeOK
    BY DEF TypeInv
  <1> QED
    BY TypeInit, TypeStep, <1>1, PTL DEF Spec

-----------------------------------------------------------------------------
(* The threads between Lock and Unlock.                                    *)
Holding(t) == pc[t] \in {"find", "create", "insert", "unlock"}

MutexInv == \A t \in Threads : Holding(t) <=> mutex = t

(* The table lists the symbols in the order of their ids; at most the last *)
(* one is not in it yet; no two symbols have the same content.             *)
TableInv ==
  /\ Len(symbolTable) <= Len(symbols)
  /\ \A i \in DOMAIN symbolTable :
       symbolTable[i].key = symbols[i].str /\ symbolTable[i].sym = i
  /\ \A p \in DOMAIN symbols : symbols[p].id = p - 1
  /\ \A p, q \in DOMAIN symbols : symbols[p].str = symbols[q].str => p = q
  /\ (\A t \in Threads : pc[t] # "insert") => Len(symbols) = Len(symbolTable)

ThreadInv == \A t \in Threads :
  /\ pc[t] = "create" =>
       \A p \in DOMAIN symbols : symbols[p].str # arg[t].str
  /\ pc[t] = "insert" =>
       /\ newSymbol[t] = Len(symbols)
       /\ Len(symbols) = Len(symbolTable) + 1
       /\ symbols[newSymbol[t]].str = arg[t].str
  /\ pc[t] \in {"unlock", "return"} =>
       /\ Result(t) \in DOMAIN symbolTable
       /\ symbols[Result(t)].str = arg[t].str

AnswersInv == \A a \in answers :
  a.sym \in DOMAIN symbolTable /\ symbols[a.sym].str = a.str

IInv == TypeInv /\ MutexInv /\ TableInv /\ ThreadInv /\ AnswersInv

LEMMA IInit == ByContent /\ Init => IInv
  <1> SUFFICES ASSUME ByContent, Init PROVE IInv
    OBVIOUS
  <1>1. KeyOf([str |-> EmptyString, buf |-> LiteralBuffer]) = EmptyString
    BY DEF KeyOf
  <1>2. MutexInv /\ ThreadInv /\ AnswersInv
    BY DEF Init, MutexInv, Holding, ThreadInv, AnswersInv
  <1>3. TableInv
    BY <1>1 DEF Init, TableInv
  <1> QED
    BY <1>2, <1>3, TypeInit DEF IInv

LEMMA MutexStep == TypeOK /\ MutexInv /\ [Next]_vars => MutexInv'
  <1> SUFFICES ASSUME TypeOK, MutexInv, [Next]_vars PROVE MutexInv'
    OBVIOUS
  <1> USE DEF MutexInv, Holding, TypeOK, PC, Goto
  <1>1. ASSUME NEW t \in Threads, Call(t) PROVE MutexInv'
    BY <1>1 DEF Call
  <1>2. ASSUME NEW t \in Threads, Lock(t) PROVE MutexInv'
    BY <1>2 DEF Lock
  <1>3. ASSUME NEW t \in Threads, Find(t) PROVE MutexInv'
    BY <1>3 DEF Find
  <1>4. ASSUME NEW t \in Threads, Create(t) PROVE MutexInv'
    BY <1>4 DEF Create
  <1>5. ASSUME NEW t \in Threads, Insert(t) PROVE MutexInv'
    BY <1>5 DEF Insert
  <1>6. ASSUME NEW t \in Threads, Unlock(t) PROVE MutexInv'
    BY <1>6 DEF Unlock
  <1>7. ASSUME NEW t \in Threads, Return(t) PROVE MutexInv'
    BY <1>7 DEF Return
  <1>8. CASE UNCHANGED vars
    BY <1>8 DEF vars
  <1> QED
    BY <1>1, <1>2, <1>3, <1>4, <1>5, <1>6, <1>7, <1>8 DEF Next, Step

(* The thread that holds the mutex is the only one between find and unlock.*)
LEMMA OneHolder ==
  ASSUME MutexInv, NEW t \in Threads, Holding(t), NEW u \in Threads, u # t
  PROVE  ~ Holding(u)
  BY DEF MutexInv

(* What a thread will return stays the same while pairs are added.         *)
LEMMA ResultKept ==
  ASSUME TypeOK, NEW u \in Threads, iter'[u] = iter[u], newSymbol'[u] = newSymbol[u],
         \A i \in DOMAIN symbolTable : symbolTable'[i] = symbolTable[i]
  PROVE  Result(u)' = Result(u)
  <1>1. iter[u] = 0 \/ iter[u] \in DOMAIN symbolTable
    BY DEF TypeOK
  <1> QED
    BY <1>1 DEF Result

LEMMA IStep == ByContent /\ IInv /\ [Next]_vars => IInv'
  <1> SUFFICES ASSUME ByContent, IInv, [Next]_vars PROVE IInv'
    OBVIOUS
  <1>0. TypeInv' /\ MutexInv'
    BY TypeStep, MutexStep DEF IInv, TypeInv
  <1>1. TypeOK /\ MutexInv /\ TableInv /\ ThreadInv /\ AnswersInv
    BY DEF IInv, TypeInv
  <1> SUFFICES TableInv' /\ ThreadInv' /\ AnswersInv'
    BY <1>0 DEF IInv
  <1>2. ASSUME NEW t \in Threads, Call(t) PROVE TableInv' /\ ThreadInv' /\ AnswersInv'
    <2> USE <1>1, <1>2 DEF Call, Goto, TypeOK
    <2>1. TableInv'
      BY DEF TableInv
    <2>2. ThreadInv'
      BY DEF ThreadInv, Result
    <2>3. AnswersInv'
      BY DEF AnswersInv
    <2> QED
      BY <2>1, <2>2, <2>3
  <1>3. ASSUME NEW t \in Threads, Lock(t) PROVE TableInv' /\ ThreadInv' /\ AnswersInv'
    <2> USE <1>1, <1>3 DEF Lock, Goto, TypeOK
    <2>1. TableInv'
      BY DEF TableInv
    <2>2. ThreadInv'
      BY DEF ThreadInv, Result
    <2>3. AnswersInv'
      BY DEF AnswersInv
    <2> QED
      BY <2>1, <2>2, <2>3
  <1>4. ASSUME NEW t \in Threads, Find(t) PROVE TableInv' /\ ThreadInv' /\ AnswersInv'
    <2>1. /\ UNCHANGED <<symbols, symbolTable, mutex, arg, newSymbol, answers>>
          /\ pc' \in [Threads -> PC]
          /\ \A u \in Threads \ {t} :
               pc'[u] = pc[u] /\ iter'[u] = iter[u] /\ Result(u)' = Result(u)
      BY <1>0, <1>1, <1>4 DEF Find, Goto, TypeOK, TypeInv, Result
    <2>2. Holding(t) /\ \A u \in Threads \ {t} : pc[u] # "insert"
      BY <1>1, <1>4, OneHolder DEF Find, Goto, Holding
    <2>3. Len(symbols) = Len(symbolTable) /\ DOMAIN symbols = DOMAIN symbolTable
      BY <1>1, <1>4, <2>2 DEF Find, Goto, TableInv, TypeOK
    <2>4. TableInv'
      BY <1>1, <2>1, <2>3 DEF TableInv
    <2>5. CASE pc'[t] = "create" /\ Found(KeyOf(arg[t])) = {}
      <3>1. \A p \in DOMAIN symbols : symbols[p].str # arg[t].str
        BY <1>1, <2>3, <2>5 DEF Found, KeyOf, TableInv
      <3> QED
        BY <1>1, <2>1, <2>4, <2>5, <3>1 DEF ThreadInv, AnswersInv
    <2>6. CASE pc'[t] = "unlock" /\ \E i \in Found(KeyOf(arg[t])) : iter' = [iter EXCEPT ![t] = i]
      <3>1. PICK i \in DOMAIN symbolTable :
              symbolTable[i].key = arg[t].str /\ iter' = [iter EXCEPT ![t] = i]
        BY <2>6 DEF Found, KeyOf
      <3>2. i # 0 /\ iter'[t] = i /\ symbolTable[i].sym = i /\ symbols[i].str = arg[t].str
        BY <1>1, <3>1 DEF TableInv, TypeOK
      <3>3. Result(t)' = i
        BY <2>1, <3>2 DEF Result
      <3> QED
        BY <1>1, <2>1, <2>4, <2>6, <3>1, <3>2, <3>3 DEF ThreadInv, AnswersInv
    <2> QED
      BY <1>1, <1>4, <2>5, <2>6 DEF Find, Goto, TypeOK
  <1>5. ASSUME NEW t \in Threads, Create(t) PROVE TableInv' /\ ThreadInv' /\ AnswersInv'
    <2> DEFINE Symbol == [str : Strings, id : Nat]
               new == [str |-> arg[t].str, id |-> Len(symbolTable)]
    <2>1. Holding(t) /\ \A u \in Threads \ {t} : ~ Holding(u)
      BY <1>1, <1>5, OneHolder DEF Create, Goto, Holding
    <2>2. Len(symbols) = Len(symbolTable)
      BY <1>1, <1>5, <2>1 DEF Create, Goto, Holding, TableInv
    <2>3. symbols \in Seq(Symbol) /\ new \in Symbol /\ Len(symbolTable) \in Nat
      BY <1>1 DEF TypeOK, CString
    <2>4. /\ symbols' = Append(symbols, new)
          /\ Len(symbols') = Len(symbols) + 1
          /\ DOMAIN symbols' = DOMAIN symbols \cup {Len(symbols) + 1}
          /\ \A p \in DOMAIN symbols : symbols'[p] = symbols[p]
          /\ symbols'[Len(symbols) + 1] = new
          /\ DOMAIN symbols = 1..Len(symbols)
      <3>1. symbols' = Append(symbols, new)
        BY <1>5 DEF Create
      <3> HIDE DEF Symbol, new
      <3> QED
        BY <2>3, <3>1, AppendFacts
    <2>5. /\ pc'[t] = "insert" /\ newSymbol'[t] = Len(symbols) + 1
          /\ \A u \in Threads \ {t} : pc'[u] = pc[u] /\ newSymbol'[u] = newSymbol[u]
          /\ UNCHANGED <<symbolTable, mutex, arg, iter, answers>>
      BY <1>1, <1>5 DEF Create, Goto, TypeOK
    <2>6. \A p \in DOMAIN symbols : symbols[p].str # new.str
      BY <1>1, <1>5 DEF ThreadInv, Create, Goto
    <2>7. DOMAIN symbolTable = DOMAIN symbols
      BY <1>1, <2>2 DEF TypeOK
    <2>8. TableInv'
      <3>1. \A p \in DOMAIN symbols' : symbols'[p].id = p - 1
        BY <1>1, <2>2, <2>3, <2>4 DEF TableInv
      <3>2. \A p, q \in DOMAIN symbols' : symbols'[p].str = symbols'[q].str => p = q
        BY <1>1, <2>4, <2>6 DEF TableInv
      <3>3. \A i \in DOMAIN symbolTable' :
              symbolTable'[i].key = symbols'[i].str /\ symbolTable'[i].sym = i
        BY <1>1, <2>4, <2>5, <2>7 DEF TableInv
      <3>4. Len(symbolTable') <= Len(symbols') /\ ~ \A u \in Threads : pc'[u] # "insert"
        BY <2>2, <2>3, <2>4, <2>5
      <3> QED
        BY <3>1, <3>2, <3>3, <3>4 DEF TableInv
    <2>9. ThreadInv'
      <3>1. ASSUME NEW u \in Threads, u # t, pc[u] \in {"unlock", "return"}
            PROVE  Result(u)' \in DOMAIN symbolTable' /\ symbols'[Result(u)'].str = arg'[u].str
        <4>1. Result(u) \in DOMAIN symbolTable /\ symbols[Result(u)].str = arg[u].str
          BY <1>1, <3>1 DEF ThreadInv
        <4>2. Result(u)' = Result(u)
          BY <1>1, <2>5, <3>1, ResultKept
        <4> QED
          BY <2>4, <2>5, <2>7, <4>1, <4>2
      <3> QED
        BY <2>1, <2>2, <2>4, <2>5, <3>1 DEF ThreadInv, Holding
    <2>10. AnswersInv'
      BY <1>1, <2>4, <2>5, <2>7 DEF AnswersInv
    <2> QED
      BY <2>8, <2>9, <2>10
  <1>6. ASSUME NEW t \in Threads, Insert(t) PROVE TableInv' /\ ThreadInv' /\ AnswersInv'
    <2> DEFINE Entry == [key : Strings \cup Nat, sym : Nat]
               new == [key |-> arg[t].str, sym |-> newSymbol[t]]
    <2>1. Holding(t) /\ \A u \in Threads \ {t} : ~ Holding(u)
      BY <1>1, <1>6, OneHolder DEF Insert, Goto, Holding
    <2>2. /\ newSymbol[t] = Len(symbols) /\ Len(symbols) = Len(symbolTable) + 1
          /\ symbols[newSymbol[t]].str = arg[t].str
      BY <1>1, <1>6 DEF Insert, Goto, ThreadInv
    <2>3. /\ symbolTable \in Seq(Entry) /\ new \in Entry
          /\ DOMAIN symbols = 1..Len(symbols) /\ Len(symbolTable) \in Nat
          /\ DOMAIN symbolTable = 1..Len(symbolTable)
      BY <1>1 DEF TypeOK, CString
    <2>4. KeyOf(GetCString(newSymbol[t], arg[t].str)) = arg[t].str
      BY DEF KeyOf, GetCString
    <2>5. Found(arg[t].str) = {}
      <3>1. ASSUME NEW i \in DOMAIN symbolTable PROVE symbolTable[i].key # arg[t].str
        <4>1. i \in DOMAIN symbols /\ newSymbol[t] \in DOMAIN symbols /\ i # newSymbol[t]
          BY <2>2, <2>3
        <4> QED
          BY <1>1, <2>2, <4>1 DEF TableInv
      <3> QED
        BY <3>1 DEF Found
    <2>6. symbolTable' = Append(symbolTable, new)
      BY <1>6, <2>4, <2>5 DEF Insert
    <2>7. /\ Len(symbolTable') = Len(symbolTable) + 1
          /\ DOMAIN symbolTable' = DOMAIN symbolTable \cup {Len(symbolTable) + 1}
          /\ \A i \in DOMAIN symbolTable : symbolTable'[i] = symbolTable[i]
          /\ symbolTable'[Len(symbolTable) + 1] = new
      <3> HIDE DEF Entry, new
      <3> QED
        BY <2>3, <2>6, AppendFacts
    <2>8. /\ pc'[t] = "unlock"
          /\ \A u \in Threads \ {t} : pc'[u] = pc[u]
          /\ UNCHANGED <<symbols, mutex, arg, iter, newSymbol, answers>>
      BY <1>1, <1>6 DEF Insert, Goto, TypeOK
    <2>9. TableInv'
      <3>1. \A i \in DOMAIN symbolTable' :
              symbolTable'[i].key = symbols'[i].str /\ symbolTable'[i].sym = i
        BY <1>1, <2>2, <2>7, <2>8 DEF TableInv
      <3>2. Len(symbols') = Len(symbolTable') /\ Len(symbolTable') \in Nat
        BY <2>2, <2>3, <2>7, <2>8
      <3>3. /\ \A p \in DOMAIN symbols' : symbols'[p].id = p - 1
            /\ \A p, q \in DOMAIN symbols' : symbols'[p].str = symbols'[q].str => p = q
        BY <1>1, <2>8 DEF TableInv
      <3> QED
        BY <3>1, <3>2, <3>3 DEF TableInv
    <2>10. \A u \in Threads : Result(u)' = Result(u)
      BY <1>1, <2>7, <2>8, ResultKept
    <2>11. Result(t) = newSymbol[t]
      BY <1>6 DEF IInv, TypeInv, IterOK, Insert, Goto, Result
    <2>12. ThreadInv'
      <3>1. Result(t)' \in DOMAIN symbolTable' /\ symbols'[Result(t)'].str = arg'[t].str
        BY <2>2, <2>3, <2>7, <2>8, <2>10, <2>11
      <3>2. ASSUME NEW u \in Threads, u # t, pc[u] \in {"unlock", "return"}
            PROVE  Result(u)' \in DOMAIN symbolTable' /\ symbols'[Result(u)'].str = arg'[u].str
        BY <1>1, <2>7, <2>8, <2>10, <3>2 DEF ThreadInv
      <3> QED
        BY <2>1, <2>8, <3>1, <3>2 DEF ThreadInv, Holding
    <2>13. AnswersInv'
      BY <1>1, <2>7, <2>8 DEF AnswersInv
    <2> QED
      BY <2>9, <2>12, <2>13
  <1>7. ASSUME NEW t \in Threads, Unlock(t) PROVE TableInv' /\ ThreadInv' /\ AnswersInv'
    <2> USE <1>1, <1>7 DEF Unlock, Goto, TypeOK
    <2>1. TableInv'
      BY DEF TableInv
    <2>2. ThreadInv'
      BY DEF ThreadInv, Result
    <2>3. AnswersInv'
      BY DEF AnswersInv
    <2> QED
      BY <2>1, <2>2, <2>3
  <1>8. ASSUME NEW t \in Threads, Return(t) PROVE TableInv' /\ ThreadInv' /\ AnswersInv'
    <2>1. TableInv'
      BY <1>1, <1>8 DEF Return, Goto, TypeOK, TableInv
    <2>2. ThreadInv'
      BY <1>1, <1>8 DEF Return, Goto, TypeOK, ThreadInv, Result
    <2>3. AnswersInv'
      <3>1. Result(t) \in DOMAIN symbolTable /\ symbols[Result(t)].str = arg[t].str
        BY <1>1, <1>8 DEF Return, Goto, ThreadInv
      <3>2. answers' = answers \cup {[str |-> arg[t].str, sym |-> Result(t)]}
            /\ UNCHANGED <<symbols, symbolTable>>
        BY <1>8 DEF Return
      <3> QED
        BY <1>1, <3>1, <3>2 DEF AnswersInv
    <2> QED
      BY <2>1, <2>2, <2>3
  <1>9. CASE UNCHANGED vars
    BY <1>1, <1>9 DEF vars, TableInv, ThreadInv, AnswersInv, Result
  <1> QED
    BY <1>2, <1>3, <1>4, <1>5, <1>6, <1>7, <1>8, <1>9 DEF Next, Step

LEMMA Invariance == ByContent => (Spec => []IInv)
  <1> SUFFICES ASSUME ByContent PROVE Spec => []IInv
    OBVIOUS
  <1>1. Init => IInv
    BY IInit
  <1>2. IInv /\ [Next]_vars => IInv'
    BY IStep
  <1> QED
    BY <1>1, <1>2, PTL DEF Spec

-----------------------------------------------------------------------------
(* For any threads and strings, when the keys are compared by content: two *)
(* answers are the same symbol exactly when the strings were the same.     *)
THEOREM InterningHolds == ByContent => (Spec => []Interning)
  <1>1. IInv => Interning
    <2> SUFFICES ASSUME IInv, NEW a \in answers, NEW b \in answers
                 PROVE  a.str = b.str <=> a.sym = b.sym
      BY DEF Interning
    <2>1. a.sym \in DOMAIN symbols /\ b.sym \in DOMAIN symbols
      BY DEF IInv, TypeInv, TypeOK
    <2> QED
      BY <2>1 DEF IInv, TableInv, AnswersInv
  <1> QED
    BY <1>1, Invariance, PTL

(* ... and the ids of the symbols tell contents apart as the pointers do.  *)
THEOREM UniqueIdsHold == ByContent => (Spec => []UniqueIds)
  <1>1. IInv => UniqueIds
    <2> SUFFICES ASSUME IInv PROVE UniqueIds
      OBVIOUS
    <2>1. \A a \in answers : a.sym \in DOMAIN symbols /\ symbols[a.sym].str = a.str
      BY DEF IInv, TypeInv, TypeOK, AnswersInv
    <2>2. \A p \in DOMAIN symbols : p \in Nat /\ symbols[p].id = p - 1
      BY DEF IInv, TypeInv, TypeOK, TableInv
    <2>3. ASSUME NEW a \in answers, NEW b \in answers, symbols[a.sym].id = symbols[b.sym].id
          PROVE  a.str = b.str
      <3>1. a.sym = b.sym
        BY <2>1, <2>2, <2>3
      <3> QED
        BY <2>1, <3>1
    <2> QED
      BY <2>1, <2>3 DEF UniqueIds
  <1> QED
    BY <1>1, Invariance, PTL

(* ... and no symbol that was given away is missing from the table.        *)
THEOREM AnswersInTableHolds == ByContent => (Spec => []AnswersInTable)
  <1>1. IInv => AnswersInTable
    BY DEF IInv, TableInv, AnswersInv, AnswersInTable
  <1> QED
    BY <1>1, Invariance, PTL

-----------------------------------------------------------------------------
(* The abstract state, as the refinement mapping computes it.              *)
Interned == [i \in DOMAIN symbolTable |-> symbols[symbolTable[i].sym].str]
Answered == {<<a.str, symbols[a.sym].id>> : a \in answers}

(* Only Create, Insert and Return change what the abstract state is made of*)
LEMMA OtherSteps ==
  ASSUME NEW t \in Threads, Call(t) \/ Lock(t) \/ Find(t) \/ Unlock(t)
  PROVE  UNCHANGED <<Interned, Answered>>
  BY DEF Call, Lock, Find, Unlock, Interned, Answered

(* A symbol that is not in the table yet is invisible.                     *)
LEMMA CreateStutters ==
  ASSUME ByContent, IInv, NEW t \in Threads, Create(t)
  PROVE  UNCHANGED <<Interned, Answered>>
  <1> DEFINE Symbol == [str : Strings, id : Nat]
             new == [str |-> arg[t].str, id |-> Len(symbolTable)]
  <1>1. symbols' = Append(symbols, new) /\ UNCHANGED <<symbolTable, answers>>
    BY DEF Create
  <1>2. symbols \in Seq(Symbol) /\ new \in Symbol
    BY DEF IInv, TypeInv, TypeOK, CString
  <1>3. \A p \in DOMAIN symbols : symbols'[p] = symbols[p]
    <2> HIDE DEF Symbol, new
    <2> QED
      BY <1>1, <1>2, AppendFacts
  <1>4. UNCHANGED Interned
    <2>1. \A i \in DOMAIN symbolTable : symbolTable[i].sym \in DOMAIN symbols
      BY DEF IInv, TypeInv, EntriesOK
    <2> QED
      BY <1>1, <1>3, <2>1 DEF Interned
  <1>5. UNCHANGED Answered
    <2>1. \A a \in answers : a.sym \in DOMAIN symbols
      BY DEF IInv, TypeInv, TypeOK
    <2> QED
      BY <1>1, <1>3, <2>1 DEF Answered
  <1> QED
    BY <1>4, <1>5

(* The insertion is the moment at which the content is interned.           *)
LEMMA InsertInterns ==
  ASSUME ByContent, IInv, NEW t \in Threads, Insert(t)
  PROVE  /\ arg[t].str \in Strings
         /\ \A i \in DOMAIN Interned : Interned[i] # arg[t].str
         /\ Interned' = Append(Interned, arg[t].str)
         /\ UNCHANGED Answered
  <1> DEFINE Entry == [key : Strings \cup Nat, sym : Nat]
             new == [key |-> arg[t].str, sym |-> newSymbol[t]]
  <1>1. /\ newSymbol[t] = Len(symbols) /\ Len(symbols) = Len(symbolTable) + 1
        /\ symbols[newSymbol[t]].str = arg[t].str
    BY DEF IInv, Insert, Goto, ThreadInv
  <1>2. /\ symbolTable \in Seq(Entry) /\ new \in Entry /\ arg[t].str \in Strings
        /\ DOMAIN symbols = 1..Len(symbols) /\ Len(symbolTable) \in Nat
        /\ DOMAIN symbolTable = 1..Len(symbolTable)
    BY DEF IInv, TypeInv, TypeOK, CString
  <1>3. \A i \in DOMAIN symbolTable :
          symbolTable[i].sym = i /\ symbolTable[i].key = symbols[i].str
          /\ symbols[i].str # arg[t].str
    <2> SUFFICES ASSUME NEW i \in DOMAIN symbolTable
                 PROVE  symbolTable[i].sym = i /\ symbolTable[i].key = symbols[i].str
                        /\ symbols[i].str # arg[t].str
      OBVIOUS
    <2>1. i \in DOMAIN symbols /\ newSymbol[t] \in DOMAIN symbols /\ i # newSymbol[t]
      BY <1>1, <1>2
    <2> QED
      BY <1>1, <2>1 DEF IInv, TableInv
  <1>4. symbolTable' = Append(symbolTable, new)
    <2>1. KeyOf(GetCString(newSymbol[t], arg[t].str)) = arg[t].str
      BY DEF KeyOf, GetCString
    <2>2. Found(arg[t].str) = {}
      BY <1>3 DEF Found
    <2> QED
      BY <2>1, <2>2 DEF Insert
  <1>5. /\ DOMAIN symbolTable' = 1..(Len(symbolTable) + 1)
        /\ \A i \in DOMAIN symbolTable : symbolTable'[i] = symbolTable[i]
        /\ symbolTable'[Len(symbolTable) + 1] = new
    <2>1. /\ Len(symbolTable') = Len(symbolTable) + 1
          /\ DOMAIN symbolTable' = DOMAIN symbolTable \cup {Len(symbolTable) + 1}
          /\ \A i \in DOMAIN symbolTable : symbolTable'[i] = symbolTable[i]
          /\ symbolTable'[Len(symbolTable) + 1] = new
      <3> HIDE DEF Entry, new
      <3> QED
        BY <1>2, <1>4, AppendFacts
    <2> QED
      BY <1>2, <2>1
  <1>6. symbols' = symbols /\ answers' = answers
    BY DEF Insert
  <1>7. /\ Interned \in Seq(Strings) /\ Len(Interned) = Len(symbolTable)
        /\ \A i \in 1..Len(symbolTable) : Interned[i] = symbols[i].str
    <2>1. DOMAIN Interned = 1..Len(symbolTable)
      BY <1>2 DEF Interned
    <2>2. \A i \in 1..Len(symbolTable) : Interned[i] = symbols[i].str
      BY <1>2, <1>3 DEF Interned
    <2>3. \A i \in 1..Len(symbolTable) : symbols[i].str \in Strings
      <3> DEFINE Symbol == [str : Strings, id : Nat]
      <3>1. symbols \in Seq(Symbol)
        BY DEF IInv, TypeInv, TypeOK
      <3>2. ASSUME NEW i \in 1..Len(symbolTable) PROVE symbols[i].str \in Strings
        <4>1. i \in 1..Len(symbols)
          BY <1>1, <1>2
        <4>2. symbols[i] \in Symbol
          <5> HIDE DEF Symbol
          <5> QED
            BY <3>1, <4>1
        <4> QED
          BY <4>2
      <3> QED
        BY <3>2
    <2>4. Interned \in [1..Len(symbolTable) -> Strings]
      BY <1>2, <2>2, <2>3 DEF Interned
    <2> QED
      BY <1>2, <2>2, <2>4
  <1>8. Interned' = Append(Interned, arg[t].str)
    <2>1. Interned' = [i \in 1..(Len(symbolTable) + 1) |-> symbols[symbolTable'[i].sym].str]
      BY <1>5, <1>6 DEF Interned
    <2>2. ASSUME NEW i \in 1..Len(symbolTable)
          PROVE  symbols[symbolTable'[i].sym].str = Interned[i]
      <3>1. symbolTable'[i] = symbolTable[i] /\ symbolTable[i].sym = i
        BY <1>2, <1>3, <1>5
      <3> QED
        BY <1>7, <3>1
    <2>3. symbols[symbolTable'[Len(symbolTable) + 1].sym].str = arg[t].str
      BY <1>1, <1>5
    <2>4. Append(Interned, arg[t].str) =
            [i \in 1..(Len(Interned) + 1) |->
               IF i \in 1..Len(Interned) THEN Interned[i] ELSE arg[t].str]
      BY <1>2, <1>7
    <2> QED
      BY <1>2, <1>7, <2>1, <2>2, <2>3, <2>4
  <1>9. UNCHANGED Answered
    BY <1>6 DEF Answered
  <1>10. ASSUME NEW i \in DOMAIN Interned PROVE Interned[i] # arg[t].str
    <2>1. i \in DOMAIN symbolTable /\ i \in 1..Len(symbolTable)
      BY <1>2 DEF Interned
    <2> QED
      BY <1>3, <1>7, <2>1
  <1>11. arg[t].str \in Strings
    BY <1>2
  <1> QED
    BY <1>8, <1>9, <1>10, <1>11

(* A return answers with the id that the content has in the table.         *)
LEMMA ReturnAnswers ==
  ASSUME ByContent, IInv, NEW t \in Threads, Return(t)
  PROVE  /\ arg[t].str \in Strings
         /\ \E i \in DOMAIN Interned :
              /\ Interned[i] = arg[t].str
              /\ Answered' = Answered \cup {<<arg[t].str, i - 1>>}
         /\ UNCHANGED Interned
  <1>1. Result(t) \in DOMAIN symbolTable /\ symbols[Result(t)].str = arg[t].str
    BY DEF IInv, Return, Goto, ThreadInv
  <1>2. symbolTable[Result(t)].sym = Result(t) /\ symbols[Result(t)].id = Result(t) - 1
    <2>1. Result(t) \in DOMAIN symbols
      BY <1>1 DEF IInv, TypeInv, TypeOK, EntriesOK, TableInv
    <2> QED
      BY <1>1, <2>1 DEF IInv, TableInv
  <1>3. answers' = answers \cup {[str |-> arg[t].str, sym |-> Result(t)]}
    BY DEF Return
  <1>4. symbols' = symbols /\ symbolTable' = symbolTable
    BY DEF Return
  <1>5. Answered' = Answered \cup {<<arg[t].str, Result(t) - 1>>}
    <2> DEFINE P(a) == <<a.str, symbols[a.sym].id>>
               new == [str |-> arg[t].str, sym |-> Result(t)]
    <2>1. Answered = {P(a) : a \in answers}
      BY DEF Answered
    <2>2. Answered' = {P(a) : a \in answers \cup {new}}
      BY <1>3, <1>4 DEF Answered
    <2>3. P(new) = <<arg[t].str, Result(t) - 1>>
      BY <1>2
    <2> HIDE DEF P, new
    <2> QED
      BY <2>1, <2>2, <2>3
  <1>6. Result(t) \in DOMAIN Interned /\ Interned[Result(t)] = arg[t].str
    BY <1>1, <1>2 DEF Interned
  <1>7. arg[t].str \in Strings
    BY DEF IInv, TypeInv, TypeOK, CString
  <1> QED
    BY <1>4, <1>5, <1>6, <1>7 DEF Interned

(* For any threads and strings, when the keys are compared by content: the *)
(* steps of lookup() are those of a service that interns and answers in    *)
(* one step each, or change nothing that a caller could tell.              *)
THEOREM ImplementsInterningHolds == ByContent => (Spec => ImplementsInterning)
  <1> SUFFICES ASSUME ByContent PROVE Spec => ImplementsInterning
    OBVIOUS
  <1>1. Init => Service!Init
    <2> SUFFICES ASSUME Init PROVE Service!Init
      OBVIOUS
    <2>1. Interned = <<EmptyString>> /\ Answered = {}
      BY DEF Init, Interned, Answered
    <2> QED
      BY <2>1 DEF Service!Init, Interned, Answered
  <1>2. IInv /\ [Next]_vars => [Service!Next]_<<Interned, Answered>>
    <2> SUFFICES ASSUME IInv, [Next]_vars
                 PROVE  Service!Next \/ UNCHANGED <<Interned, Answered>>
      OBVIOUS
    <2>1. ASSUME NEW t \in Threads, Insert(t) PROVE Service!Next
      <3>1. \E s \in Strings : Service!Intern(s)
        BY <2>1, InsertInterns DEF Service!Intern, Interned, Answered
      <3> QED
        BY <3>1 DEF Service!Next
    <2>2. ASSUME NEW t \in Threads, Return(t) PROVE Service!Next
      <3>1. \E s \in Strings : Service!Answer(s)
        BY <2>2, ReturnAnswers DEF Service!Answer, Interned, Answered
      <3> QED
        BY <3>1 DEF Service!Next
    <2>3. ASSUME NEW t \in Threads, Create(t) PROVE UNCHANGED <<Interned, Answered>>
      BY <2>3, CreateStutters
    <2>4. ASSUME NEW t \in Threads, Call(t) \/ Lock(t) \/ Find(t) \/ Unlock(t)
          PROVE  UNCHANGED <<Interned, Answered>>
      BY <2>4, OtherSteps
    <2>5. CASE UNCHANGED vars
      BY <2>5 DEF vars, Interned, Answered
    <2> QED
      BY <2>1, <2>2, <2>3, <2>4, <2>5 DEF Next, Step
  <1>3. ByContent => (Spec => []IInv)
    BY Invariance
  <1> QED
    BY <1>1, <1>2, <1>3, PTL
      DEF Spec, ImplementsInterning, Service!Spec, Interned, Answered

=============================================================================

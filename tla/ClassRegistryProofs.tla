------------------------- MODULE ClassRegistryProofs -------------------------
(***************************************************************************)
(* For any threads, classes and extensions: the start of the library makes *)
(* each singleton once and before it is used, a registration is never      *)
(* undone, and a search finds exactly what was registered, each under the  *)
(* rules of the callers it needs.                                          *)
(***************************************************************************)
EXTENDS ClassRegistry, SequenceTheorems, TLAPS

USE RegistryAssumption

InitFirst == "InitFirst" \in Rules
OneAtATime == "OneAtATime" \in Rules

AllBuilt == \A s \in Singletons : built[s] = 1

(* A thread has a request exactly while it registers.                      *)
JobInv ==
  \A t \in Threads :
    /\ IF Registering(t) THEN job[t].request \in Request ELSE job[t] = NoJob
    /\ pc[t] \in {"enter", "list"} => job[t].left # <<>>
    /\ job[t].lost => pc[t] = "list"

(* One thread starts the library, one singleton after the other, and nobody*)
(* else registers a class meanwhile.                                       *)
StartInv ==
  /\ \A t, u \in Threads : Starting(t) /\ Starting(u) => t = u
  /\ \A t, u \in Threads : Starting(t) /\ Registering(u) => t = u
  /\ \A t \in Threads : Starting(t) \/ Registering(t) => (initialised <=> pc[t] # "set")
  /\ ~ initialised => \A s \in Singletons : built[s] = 0
  /\ \A t \in Threads :
       /\ pc[t] = "symbols" => \A s \in Singletons : built[s] = 0
       /\ pc[t] = "environment" =>
            built["symbols"] = 1 /\ built["environment"] = 0 /\ built["caches"] = 0
       /\ pc[t] = "caches" =>
            built["symbols"] = 1 /\ built["environment"] = 1 /\ built["caches"] = 0
       /\ pc[t] \in {"load", "extensions", "lookup", "tags", "enter", "list"} => AllBuilt
  /\ initialised => AllBuilt \/ \E t \in Threads : pc[t] \in Singletons

(* Nothing is registered before the environment is built, and a list that  *)
(* a registration has found is still there when it appends to it.          *)
KeptInv ==
  /\ built["environment"] = 0 =>
       /\ \A n \in Names : classes[n] = Absent
       /\ \A g \in Tags : tagged[g] = Absent
  /\ \A t \in Threads :
       pc[t] = "list" /\ ~ job[t].lost => tagged[Head(job[t].left)] # Absent

(* Of the tags of a registration those it has still to enter are the last, *)
(* and it has entered the others.                                          *)
Remain(left, tags) ==
  /\ Len(left) <= Len(tags)
  /\ \A i \in 1..Len(left) : left[i] = tags[Len(tags) - Len(left) + i]
Entered(left, tags) == {tags[i] : i \in 1..Len(tags) - Len(left)}

UnderWay(t) == pc[t] \in {"tags", "enter", "list"}
Has(n, g) == classes[n] # Absent /\ g \in Elements(classes[n])
Gets(t, n, g) ==
  job[t].request.name = n /\ g \in Entered(job[t].left, job[t].request.tags)
Carries(n, g) == Has(n, g) \/ \E t \in Threads : UnderWay(t) /\ Gets(t, n, g)

(* Listed under a tag are the classes that carry it, those of a            *)
(* registration under way as far as it has come.                           *)
OneRegisters == \A t, u \in Threads : Registering(t) /\ Registering(u) => t = u
InOrder(t) ==
  /\ classes[job[t].request.name] = Absent
  /\ Remain(job[t].left, job[t].request.tags)
  /\ ~ job[t].lost
  /\ pc[t] = "enter" => tagged[Head(job[t].left)] = Absent
  /\ pc[t] = "list" => tagged[Head(job[t].left)] # Absent
ListOf(g) == IF tagged[g] = Absent THEN {} ELSE Elements(tagged[g])
Lists == \A g \in Tags : ListOf(g) = {n \in Names : Carries(n, g)}

Agree == OneRegisters /\ (\A t \in Threads : UnderWay(t) => InOrder(t)) /\ Lists

AgreeInv == OneAtATime => Agree

IInv == TypeOK /\ JobInv /\ StartInv /\ KeptInv /\ AgreeInv

-----------------------------------------------------------------------------
(* What is asked of a registration.                                        *)
LEMMA RequestFacts ==
  ASSUME NEW r \in Request
  PROVE  r.name \in Names /\ r.tags \in Seq(Tags)
BY DEF Request

(* What a registration's record holds, and what may be written to it.      *)
LEMMA JobFacts ==
  /\ NoJob \in Jobs
  /\ NoJob.request = Absent /\ NoJob.left = <<>> /\ NoJob.lost = FALSE /\ NoJob.back = "idle"
  /\ \A r \in Request, back \in {"idle", "load", "extensions"} :
       /\ Job(r, back) \in Jobs
       /\ Job(r, back).request = r /\ Job(r, back).left = <<>>
       /\ Job(r, back).lost = FALSE /\ Job(r, back).back = back
  <1>1. <<>> \in Seq(Tags)
    OBVIOUS
  <1> QED
    BY <1>1 DEF Job, NoJob, Jobs

LEMMA JobFields ==
  ASSUME NEW j \in Jobs
  PROVE  /\ j.request \in Request \cup {Absent} /\ j.left \in Seq(Tags)
         /\ j.lost \in BOOLEAN /\ j.back \in {"idle", "load", "extensions"}
         /\ \A left \in Seq(Tags) : [j EXCEPT !.left = left] \in Jobs
         /\ \A left \in Seq(Tags), lost \in BOOLEAN : [j EXCEPT !.left = left, !.lost = lost] \in Jobs
         /\ \A lost \in BOOLEAN : [j EXCEPT !.lost = lost] \in Jobs
BY DEF Jobs

(* The list a search reads and a registration extends.                     *)
LEMMA SequenceFacts ==
  ASSUME NEW S, NEW s \in Seq(S)
  PROVE  /\ <<>> \in Seq(S)
         /\ s # <<>> => Head(s) \in S /\ Tail(s) \in Seq(S) /\ Len(s) > 0
         /\ \A x \in S : Append(s, x) \in Seq(S) /\ <<x>> \in Seq(S)
OBVIOUS

LEMMA TypeStep == IInv /\ [Next]_vars => TypeOK'
  <1> SUFFICES ASSUME IInv, [Next]_vars PROVE TypeOK'
    OBVIOUS
  <1>0. TypeOK /\ JobInv /\ StartInv /\ KeptInv
    BY DEF IInv
  <1> USE DEF TypeOK, Singletons, Places
  <1>1. ASSUME NEW t \in Threads, CallInit(t) PROVE TypeOK'
    BY <1>0, <1>1 DEF CallInit, Enter
  <1>2. ASSUME NEW t \in Threads, CallRegister(t) PROVE TypeOK'
    <2>1. PICK r \in External : job' = [job EXCEPT ![t] = Job(r, "idle")]
      BY <1>2 DEF CallRegister
    <2>2. Job(r, "idle") \in Jobs
      BY JobFacts
    <2> QED
      BY <1>0, <1>2, <2>1, <2>2 DEF CallRegister, Goto
  <1>3. ASSUME NEW t \in Threads, NewSymbolTable(t) PROVE TypeOK'
    BY <1>0, <1>3 DEF StartInv, NewSymbolTable, Build, Goto
  <1>4. ASSUME NEW t \in Threads, NewEnvironment(t) PROVE TypeOK'
    BY <1>0, <1>4 DEF StartInv, NewEnvironment, Build, Goto
  <1>5. ASSUME NEW t \in Threads, InitCaches(t) PROVE TypeOK'
    BY <1>0, <1>5 DEF StartInv, InitCaches, Build, Goto
  <1>6. ASSUME NEW t \in Threads, FindExtensions(t) PROVE TypeOK'
    <2>1. PICK found \in BoundedSeq(External, MaxFound) : todo' = [todo EXCEPT ![t] = found]
      BY <1>6 DEF FindExtensions
    <2>2. found \in Seq(Request)
      BY DEF BoundedSeq
    <2> QED
      BY <1>0, <1>6, <2>1, <2>2 DEF FindExtensions, Goto
  <1>7. ASSUME NEW t \in Threads, LoadNext(t) PROVE TypeOK'
    <2>1. pc[t] \in {"load", "extensions"} /\ todo[t] # <<>> /\ todo[t] \in Seq(Request)
      BY <1>0, <1>7 DEF LoadNext
    <2>2. Tail(todo[t]) \in Seq(Request) /\ Job(Head(todo[t]), pc[t]) \in Jobs
      BY <2>1, SequenceFacts, JobFacts
    <2> QED
      BY <1>0, <1>7, <2>2 DEF LoadNext, Enter, Goto
  <1>8. ASSUME NEW t \in Threads, InitReturns(t) PROVE TypeOK'
    BY <1>0, <1>8 DEF InitReturns, Goto
  <1>9. ASSUME NEW t \in Threads, Lookup(t) PROVE TypeOK'
    <2>1. job[t] \in Jobs /\ job[t].request \in Request
      BY <1>0, <1>9 DEF Lookup, JobInv, Registering
    <2>2. job[t].back \in Places /\ [job[t] EXCEPT !.left = job[t].request.tags] \in Jobs
      BY <2>1, JobFields, RequestFacts
    <2>3. pc' \in [Threads -> Places]
      <3>1. pc' = [pc EXCEPT ![t] = job[t].back] \/ pc' = [pc EXCEPT ![t] = "tags"]
        BY <1>9 DEF Lookup, Goto, Return
      <3> QED
        BY <1>0, <2>2, <3>1
    <2>4. job' \in [Threads -> Jobs]
      <3>1. CASE classes[job[t].request.name] # Absent
        <4>1. job' = [job EXCEPT ![t] = NoJob]
          BY <1>9, <3>1 DEF Lookup, Return
        <4> QED
          BY <1>0, <4>1, JobFacts
      <3>2. CASE classes[job[t].request.name] = Absent
        BY <1>0, <1>9, <2>2, <3>2 DEF Lookup
      <3> QED
        BY <3>1, <3>2
    <2> QED
      BY <1>0, <1>9, <2>3, <2>4 DEF Lookup
  <1>10. ASSUME NEW t \in Threads, LookupTag(t) PROVE TypeOK'
    BY <1>0, <1>10 DEF LookupTag, Goto
  <1>11. ASSUME NEW t \in Threads, EnterTag(t) PROVE TypeOK'
    <2> DEFINE tag == Head(job[t].left)
    <2>1. job[t] \in Jobs /\ job[t].left # <<>>
      BY <1>0, <1>11 DEF EnterTag, Goto, JobInv
    <2>2. tag \in Tags
      BY <2>1, JobFields, SequenceFacts
    <2>3. [job[t] EXCEPT !.lost = tagged[tag] # Absent] \in Jobs
      BY <2>1, JobFields
    <2>4. /\ job' = [job EXCEPT ![t] = [@ EXCEPT !.lost = tagged[tag] # Absent]]
          /\ tagged' = IF tagged[tag] = Absent THEN [tagged EXCEPT ![tag] = <<>>] ELSE tagged
      BY <1>11 DEF EnterTag
    <2> HIDE DEF tag
    <2>5. tagged' \in [Tags -> Seq(Names) \cup {Absent}]
      <3>1. <<>> \in Seq(Names)
        OBVIOUS
      <3> QED
        BY <1>0, <2>2, <2>4, <3>1
    <2>6. job' \in [Threads -> Jobs]
      BY <1>0, <2>3, <2>4
    <2>7. pc' = [pc EXCEPT ![t] = "list"] /\ UNCHANGED <<initialised, built, classes, todo>>
      BY <1>11 DEF EnterTag, Goto
    <2> QED
      BY <1>0, <2>5, <2>6, <2>7
  <1>12. ASSUME NEW t \in Threads, AppendName(t) PROVE TypeOK'
    <2> DEFINE tag == Head(job[t].left)
               name == job[t].request.name
    <2>1. job[t] \in Jobs /\ job[t].request \in Request /\ job[t].left # <<>>
      BY <1>0, <1>12 DEF AppendName, Goto, JobInv, Registering
    <2>2. tag \in Tags /\ Tail(job[t].left) \in Seq(Tags) /\ name \in Names
      BY <2>1, JobFields, RequestFacts, SequenceFacts
    <2>3. [job[t] EXCEPT !.left = Tail(@), !.lost = FALSE] \in Jobs
      BY <2>1, <2>2, JobFields
    <2>4. ~ job[t].lost => tagged[tag] # Absent
      BY <1>0, <1>12 DEF AppendName, Goto, KeptInv
    <2>5. tagged' = IF job[t].lost THEN tagged ELSE [tagged EXCEPT ![tag] = Append(@, name)]
      BY <1>12 DEF AppendName
    <2>6. tagged' \in [Tags -> Seq(Names) \cup {Absent}]
      <3> HIDE DEF tag, name
      <3>1. ~ job[t].lost => Append(tagged[tag], name) \in Seq(Names)
        BY <1>0, <2>2, <2>4, SequenceFacts
      <3> QED
        BY <1>0, <2>2, <2>5, <3>1
    <2> QED
      BY <1>0, <1>12, <2>3, <2>6 DEF AppendName, Goto
  <1>13. ASSUME NEW t \in Threads, AppendClass(t) PROVE TypeOK'
    <2>1. job[t] \in Jobs /\ job[t].request \in Request
      BY <1>0, <1>13 DEF AppendClass, JobInv, Registering
    <2>2. job[t].back \in Places /\ job[t].request.name \in Names /\ job[t].request.tags \in Seq(Tags)
      BY <2>1, JobFields, RequestFacts
    <2> QED
      BY <1>0, <1>13, <2>2, JobFacts DEF AppendClass, Return
  <1>14. CASE UNCHANGED vars
    BY <1>0, <1>14 DEF vars
  <1>15. ASSUME NEW t \in Threads, SetFlag(t) PROVE TypeOK'
    BY <1>0, <1>15 DEF SetFlag, Goto
  <1> QED
    BY <1>1, <1>2, <1>3, <1>4, <1>5, <1>6, <1>7, <1>8, <1>9, <1>10, <1>11, <1>12, <1>13, <1>14, <1>15 DEF Next, Begin, Step

LEMMA JobStep == IInv /\ [Next]_vars => JobInv'
  <1> SUFFICES ASSUME IInv, [Next]_vars PROVE JobInv'
    OBVIOUS
  <1>0. TypeOK /\ JobInv /\ StartInv
    BY DEF IInv
  <1> USE DEF TypeOK, JobInv, Registering, Singletons, Places
  <1>1. ASSUME NEW t \in Threads, CallInit(t) PROVE JobInv'
    BY <1>0, <1>1 DEF CallInit, Enter
  <1>2. ASSUME NEW t \in Threads, CallRegister(t) PROVE JobInv'
    <2>1. PICK r \in External : job' = [job EXCEPT ![t] = Job(r, "idle")]
      BY <1>2 DEF CallRegister
    <2>2. Job(r, "idle").request \in Request /\ ~ Job(r, "idle").lost
      BY JobFacts
    <2> QED
      BY <1>0, <1>2, <2>1, <2>2 DEF CallRegister, Goto
  <1>3. ASSUME NEW t \in Threads, NewSymbolTable(t) PROVE JobInv'
    BY <1>0, <1>3 DEF NewSymbolTable, Build, Goto
  <1>4. ASSUME NEW t \in Threads, NewEnvironment(t) PROVE JobInv'
    BY <1>0, <1>4 DEF NewEnvironment, Build, Goto
  <1>5. ASSUME NEW t \in Threads, InitCaches(t) PROVE JobInv'
    BY <1>0, <1>5 DEF InitCaches, Build, Goto
  <1>6. ASSUME NEW t \in Threads, FindExtensions(t) PROVE JobInv'
    BY <1>0, <1>6 DEF FindExtensions, Goto
  <1>7. ASSUME NEW t \in Threads, LoadNext(t) PROVE JobInv'
    <2>1. pc[t] \in {"load", "extensions"} /\ todo[t] # <<>> /\ todo[t] \in Seq(Request)
      BY <1>0, <1>7 DEF LoadNext
    <2>2. Job(Head(todo[t]), pc[t]).request \in Request /\ ~ Job(Head(todo[t]), pc[t]).lost
      BY <2>1, SequenceFacts, JobFacts
    <2>3. pc' = [pc EXCEPT ![t] = "lookup"]
      BY <1>0, <1>7, <2>1 DEF LoadNext, Enter, Goto, StartInv, Starting
    <2> QED
      BY <1>0, <1>7, <2>2, <2>3 DEF LoadNext
  <1>8. ASSUME NEW t \in Threads, InitReturns(t) PROVE JobInv'
    BY <1>0, <1>8 DEF InitReturns, Goto
  <1>9. ASSUME NEW t \in Threads, Lookup(t) PROVE JobInv'
    <2>1. job[t] \in Jobs /\ job[t].request \in Request /\ job[t].back \in {"idle", "load", "extensions"}
      BY <1>0, <1>9, JobFields DEF Lookup
    <2>2. CASE classes[job[t].request.name] # Absent
      <3>1. /\ pc' = [pc EXCEPT ![t] = job[t].back] /\ job' = [job EXCEPT ![t] = NoJob]
            /\ ~ NoJob.lost
        BY <1>9, <2>2, JobFacts DEF Lookup, Return
      <3> QED
        BY <1>0, <2>1, <3>1
    <2>3. CASE classes[job[t].request.name] = Absent
      <3>1. job' = [job EXCEPT ![t] = [@ EXCEPT !.left = job[t].request.tags]]
        BY <1>9, <2>3 DEF Lookup
      <3>2. job'[t].request = job[t].request /\ job'[t].lost = job[t].lost
        BY <1>0, <2>1, <3>1 DEF Jobs
      <3> QED
        BY <1>0, <1>9, <2>1, <2>3, <3>1, <3>2 DEF Lookup, Goto
    <2> QED
      BY <2>2, <2>3
  <1>10. ASSUME NEW t \in Threads, LookupTag(t) PROVE JobInv'
    BY <1>0, <1>10 DEF LookupTag, Goto
  <1>11. ASSUME NEW t \in Threads, EnterTag(t) PROVE JobInv'
    <2>1. job[t] \in Jobs /\ job[t].request \in Request
      BY <1>0, <1>11 DEF EnterTag, Goto
    <2>2. job'[t].request = job[t].request /\ job'[t].left = job[t].left
      BY <1>0, <1>11, <2>1 DEF EnterTag, Jobs
    <2> QED
      BY <1>0, <1>11, <2>1, <2>2 DEF EnterTag, Goto
  <1>12. ASSUME NEW t \in Threads, AppendName(t) PROVE JobInv'
    <2>1. job[t] \in Jobs /\ job[t].request \in Request
      BY <1>0, <1>12 DEF AppendName, Goto
    <2>2. job'[t].request = job[t].request
      BY <1>0, <1>12, <2>1 DEF AppendName, Jobs
    <2> QED
      BY <1>0, <1>12, <2>1, <2>2 DEF AppendName, Goto
  <1>13. ASSUME NEW t \in Threads, AppendClass(t) PROVE JobInv'
    <2>1. job[t].back \in {"idle", "load", "extensions"} /\ ~ NoJob.lost
      BY <1>0, JobFields, JobFacts
    <2> QED
      BY <1>0, <1>13, <2>1 DEF AppendClass, Return
  <1>14. CASE UNCHANGED vars
    BY <1>0, <1>14 DEF vars
  <1>15. ASSUME NEW t \in Threads, SetFlag(t) PROVE JobInv'
    BY <1>0, <1>15 DEF SetFlag, Goto
  <1> QED
    BY <1>1, <1>2, <1>3, <1>4, <1>5, <1>6, <1>7, <1>8, <1>9, <1>10, <1>11, <1>12, <1>13, <1>14, <1>15 DEF Next, Begin, Step

(* A registration ends, and its thread goes back to where it came from.    *)
LEMMA RegistrationEnds ==
  ASSUME TypeOK, StartInv, NEW t \in Threads, Registering(t), UNCHANGED <<initialised, built>>,
         job[t].back \in {"idle", "load", "extensions"}, NoJob.back = "idle",
         pc' = [pc EXCEPT ![t] = job[t].back], job' = [job EXCEPT ![t] = NoJob]
  PROVE  StartInv'
  <1> USE DEF TypeOK, StartInv, Starting, Registering, AllBuilt, Singletons
  <1>1. /\ initialised /\ AllBuilt
        /\ pc'[t] = job[t].back /\ job'[t].back = "idle"
        /\ \A u \in Threads \ {t} : pc'[u] = pc[u] /\ job'[u] = job[u]
    OBVIOUS
  <1>2. ~ Registering(t)' /\ (Starting(t)' => Starting(t))
    BY <1>1
  <1>3. \A u \in Threads \ {t} : (Starting(u)' <=> Starting(u)) /\ (Registering(u)' <=> Registering(u))
    BY <1>1
  <1>4. AllBuilt' /\ initialised'
    BY <1>1
  <1>5. \A u \in Threads : pc'[u] \notin {"symbols", "environment", "caches"}
    BY <1>1
  <1>6. \A u \in Threads : Starting(u)' \/ Registering(u)' => pc'[u] # "set"
    BY <1>1
  <1>7. \A u, v \in Threads : Starting(u)' /\ (Starting(v)' \/ Registering(v)') => u = v
    <2> HIDE DEF Starting, Registering
    <2>1. \A u, v \in Threads : Starting(u) /\ (Starting(v) \/ Registering(v)) => u = v
      BY DEF StartInv
    <2> QED
      BY <1>2, <1>3, <2>1
  <1> QED
    <2> HIDE DEF Starting, Registering
    <2> QED
      BY <1>4, <1>5, <1>6, <1>7

LEMMA StartStep == InitFirst /\ IInv /\ [Next]_vars => StartInv'
  <1> SUFFICES ASSUME InitFirst, IInv, [Next]_vars PROVE StartInv'
    OBVIOUS
  <1>0. TypeOK /\ JobInv /\ StartInv
    BY DEF IInv
  <1> USE DEF TypeOK, JobInv, StartInv, Starting, Registering, AllBuilt, Singletons, InitFirst, Places
  <1>1. ASSUME NEW t \in Threads, CallInit(t) PROVE StartInv'
    BY <1>0, <1>1 DEF CallInit, Enter, MayInit
  <1>2. ASSUME NEW t \in Threads, CallRegister(t) PROVE StartInv'
    <2>1. PICK r \in External : job' = [job EXCEPT ![t] = Job(r, "idle")]
      BY <1>2 DEF CallRegister
    <2>2. Job(r, "idle").back = "idle"
      BY JobFacts
    <2>3. initialised /\ pc[t] = "idle" /\ \A u \in Threads : ~ Starting(u)
      BY <1>2 DEF CallRegister, MayRegister, Goto, InitFirst
    <2> QED
      BY <1>0, <1>2, <2>1, <2>2, <2>3 DEF CallRegister, Goto
  <1>3. ASSUME NEW t \in Threads, NewSymbolTable(t) PROVE StartInv'
    BY <1>0, <1>3 DEF NewSymbolTable, Build, Goto
  <1>4. ASSUME NEW t \in Threads, NewEnvironment(t) PROVE StartInv'
    BY <1>0, <1>4 DEF NewEnvironment, Build, Goto
  <1>5. ASSUME NEW t \in Threads, InitCaches(t) PROVE StartInv'
    BY <1>0, <1>5 DEF InitCaches, Build, Goto
  <1>6. ASSUME NEW t \in Threads, FindExtensions(t) PROVE StartInv'
    BY <1>0, <1>6 DEF FindExtensions, Goto
  <1>7. ASSUME NEW t \in Threads, LoadNext(t) PROVE StartInv'
    <2>1. pc[t] \in {"load", "extensions"} /\ todo[t] # <<>> /\ todo[t] \in Seq(Request)
      BY <1>0, <1>7 DEF LoadNext
    <2>2. Job(Head(todo[t]), pc[t]).back = pc[t]
      BY <2>1, SequenceFacts, JobFacts
    <2>3. initialised
      BY <1>0, <2>1
    <2>4. initialised' /\ pc' = [pc EXCEPT ![t] = "lookup"]
      BY <1>0, <1>7, <2>3 DEF LoadNext, Enter, Goto
    <2> QED
      BY <1>0, <1>7, <2>1, <2>2, <2>3, <2>4 DEF LoadNext
  <1>8. ASSUME NEW t \in Threads, InitReturns(t) PROVE StartInv'
    BY <1>0, <1>8 DEF InitReturns, Goto
  <1>9. ASSUME NEW t \in Threads, Lookup(t) PROVE StartInv'
    <2>1. job[t] \in Jobs /\ job[t].back \in {"idle", "load", "extensions"}
      BY <1>0, JobFields
    <2>2. CASE classes[job[t].request.name] # Absent
      <3>1. /\ pc' = [pc EXCEPT ![t] = job[t].back] /\ job' = [job EXCEPT ![t] = NoJob]
            /\ NoJob.back = "idle" /\ pc[t] = "lookup" /\ UNCHANGED <<initialised, built>>
        BY <1>9, <2>2, JobFacts DEF Lookup, Return
      <3> QED
        BY <1>0, <2>1, <3>1, RegistrationEnds
    <2>3. CASE classes[job[t].request.name] = Absent
      <3>1. job'[t].back = job[t].back
        BY <1>0, <1>9, <2>1, <2>3 DEF Lookup, Jobs
      <3>2. /\ pc' = [pc EXCEPT ![t] = "tags"] /\ \A u \in Threads \ {t} : job'[u] = job[u]
            /\ pc[t] = "lookup" /\ UNCHANGED <<initialised, built>>
        BY <1>0, <1>9, <2>3 DEF Lookup, Goto
      <3> QED
        BY <1>0, <3>1, <3>2
    <2> QED
      BY <2>2, <2>3
  <1>10. ASSUME NEW t \in Threads, LookupTag(t) PROVE StartInv'
    BY <1>0, <1>10 DEF LookupTag, Goto
  <1>11. ASSUME NEW t \in Threads, EnterTag(t) PROVE StartInv'
    <2>1. job[t] \in Jobs
      BY <1>0
    <2>2. job'[t].back = job[t].back
      BY <1>0, <1>11, <2>1 DEF EnterTag, Jobs
    <2> QED
      BY <1>0, <1>11, <2>2 DEF EnterTag, Goto
  <1>12. ASSUME NEW t \in Threads, AppendName(t) PROVE StartInv'
    <2>1. job[t] \in Jobs
      BY <1>0
    <2>2. job'[t].back = job[t].back
      BY <1>0, <1>12, <2>1 DEF AppendName, Jobs
    <2> QED
      BY <1>0, <1>12, <2>2 DEF AppendName, Goto
  <1>13. ASSUME NEW t \in Threads, AppendClass(t) PROVE StartInv'
    <2>1. job[t].back \in {"idle", "load", "extensions"} /\ NoJob.back = "idle"
      <3>1. job[t] \in Jobs
        BY <1>0
      <3> QED
        BY ONLY <3>1, JobFields, JobFacts
    <2>2. /\ pc' = [pc EXCEPT ![t] = job[t].back] /\ job' = [job EXCEPT ![t] = NoJob]
          /\ pc[t] = "tags" /\ UNCHANGED <<initialised, built>>
      BY <1>13 DEF AppendClass, Return
    <2> QED
      BY <1>0, <2>1, <2>2, RegistrationEnds
  <1>14. CASE UNCHANGED vars
    BY <1>0, <1>14 DEF vars
  <1>15. ASSUME NEW t \in Threads, SetFlag(t) PROVE StartInv'
    BY <1>0, <1>15 DEF SetFlag, Goto
  <1> QED
    BY <1>1, <1>2, <1>3, <1>4, <1>5, <1>6, <1>7, <1>8, <1>9, <1>10, <1>11, <1>12, <1>13, <1>14, <1>15 DEF Next, Begin, Step

-----------------------------------------------------------------------------
(* The classes listed under a tag, after one more is appended.             *)
LEMMA AppendElements ==
  ASSUME NEW s \in Seq(Names), NEW x \in Names
  PROVE  Elements(Append(s, x)) = Elements(s) \cup {x} /\ Elements(<<x>>) = {x}
  <1>1. DOMAIN Append(s, x) = 1..Len(s) + 1 /\ DOMAIN s = 1..Len(s) /\ Len(s) \in Nat
    OBVIOUS
  <1>2. /\ \A i \in 1..Len(s) : Append(s, x)[i] = s[i]
        /\ Append(s, x)[Len(s) + 1] = x
    OBVIOUS
  <1>3. Elements(Append(s, x)) = Elements(s) \cup {x}
    BY <1>1, <1>2 DEF Elements
  <1>4. Elements(<<x>>) = {x}
    BY DEF Elements
  <1> QED
    BY <1>3, <1>4

(* What AppendName makes of the lists: the one of its tag has the name now,*)
(* unless another list took its place, and no other is touched.            *)
NextTag(t) == Head(job[t].left)
NameOf(t) == job[t].request.name

LEMMA AppendNameFacts ==
  ASSUME TypeOK, JobInv, KeptInv, NEW t \in Threads, AppendName(t)
  PROVE  /\ NextTag(t) \in Tags /\ NameOf(t) \in Names
         /\ \A g \in Tags \ {NextTag(t)} : tagged'[g] = tagged[g]
         /\ ~ job[t].lost =>
              /\ tagged[NextTag(t)] \in Seq(Names)
              /\ tagged'[NextTag(t)] = Append(tagged[NextTag(t)], NameOf(t))
         /\ job[t].lost => tagged'[NextTag(t)] = tagged[NextTag(t)]
  <1>1. pc[t] = "list" /\ job[t] \in Jobs /\ job[t].request \in Request /\ job[t].left # <<>>
    BY DEF TypeOK, AppendName, Goto, JobInv, Registering
  <1>2. NextTag(t) \in Tags /\ NameOf(t) \in Names
    BY <1>1, JobFields, RequestFacts, SequenceFacts DEF NextTag, NameOf
  <1>3. ~ job[t].lost => tagged[NextTag(t)] \in Seq(Names)
    BY <1>1, <1>2 DEF KeptInv, TypeOK, NextTag
  <1>4. tagged' = IF job[t].lost THEN tagged ELSE [tagged EXCEPT ![NextTag(t)] = Append(@, NameOf(t))]
    BY DEF AppendName, NextTag, NameOf
  <1> QED
    BY <1>2, <1>3, <1>4 DEF TypeOK

(* A list is never taken away nor shortened.                               *)
LEMMA ListsGrow ==
  ASSUME TypeOK, JobInv, KeptInv, NEW t \in Threads, AppendName(t), NEW g \in Tags, tagged[g] # Absent
  PROVE  tagged'[g] # Absent /\ Elements(tagged[g]) \subseteq Elements(tagged'[g])
  <1>1. CASE g # NextTag(t) \/ job[t].lost
    BY <1>1, AppendNameFacts
  <1>2. CASE g = NextTag(t) /\ ~ job[t].lost
    <2>1. /\ tagged[g] \in Seq(Names) /\ NameOf(t) \in Names
          /\ tagged'[g] = Append(tagged[g], NameOf(t))
      BY <1>2, AppendNameFacts
    <2>2. tagged'[g] \in Seq(Names)
      BY <2>1
    <2>3. Elements(tagged'[g]) = Elements(tagged[g]) \cup {NameOf(t)}
      BY <2>1, AppendElements
    <2> QED
      BY <2>2, <2>3
  <1> QED
    BY <1>1, <1>2

LEMMA KeptStep == InitFirst /\ IInv /\ [Next]_vars => KeptInv'
  <1> SUFFICES ASSUME InitFirst, IInv, [Next]_vars PROVE KeptInv'
    OBVIOUS
  <1>0. TypeOK /\ JobInv /\ StartInv /\ KeptInv
    BY DEF IInv
  <1> USE DEF TypeOK, StartInv, KeptInv, Starting, Registering, AllBuilt, Singletons, Places
  <1>1. ASSUME NEW t \in Threads, CallInit(t) PROVE KeptInv'
    BY <1>0, <1>1 DEF CallInit, Enter
  <1>2. ASSUME NEW t \in Threads, CallRegister(t) PROVE KeptInv'
    BY <1>0, <1>2 DEF CallRegister, Goto
  <1>3. ASSUME NEW t \in Threads, NewSymbolTable(t) PROVE KeptInv'
    BY <1>0, <1>3 DEF NewSymbolTable, Build, Goto
  <1>4. ASSUME NEW t \in Threads, NewEnvironment(t) PROVE KeptInv'
    <2>1. built' = [built EXCEPT !["environment"] = 1]
      <3>1. pc[t] = "environment" /\ built' = [built EXCEPT !["environment"] = @ + 1]
        BY <1>4 DEF NewEnvironment, Build, Goto
      <3>2. built["environment"] = 0
        BY <1>0, <3>1
      <3> QED
        BY <3>1, <3>2
    <2>2. \A u \in Threads : pc'[u] # "list"
      BY <1>0, <1>4 DEF NewEnvironment, Build, Goto
    <2> QED
      BY <1>0, <1>4, <2>1, <2>2
  <1>5. ASSUME NEW t \in Threads, InitCaches(t) PROVE KeptInv'
    BY <1>0, <1>5 DEF InitCaches, Build, Goto
  <1>6. ASSUME NEW t \in Threads, FindExtensions(t) PROVE KeptInv'
    BY <1>0, <1>6 DEF FindExtensions, Goto
  <1>7. ASSUME NEW t \in Threads, LoadNext(t) PROVE KeptInv'
    BY <1>0, <1>7 DEF LoadNext, Enter, Goto
  <1>8. ASSUME NEW t \in Threads, InitReturns(t) PROVE KeptInv'
    BY <1>0, <1>8 DEF InitReturns, Goto
  <1>9. ASSUME NEW t \in Threads, Lookup(t) PROVE KeptInv'
    <2>1. CASE classes[job[t].request.name] # Absent
      <3>1. job[t].back # "list"
        BY <1>0, JobFields
      <3> QED
        BY <1>0, <1>9, <2>1, <3>1 DEF Lookup, Return
    <2>2. CASE classes[job[t].request.name] = Absent
      <3>1. /\ UNCHANGED <<built, classes, tagged>> /\ pc' = [pc EXCEPT ![t] = "tags"]
            /\ job' = [job EXCEPT ![t].left = job[t].request.tags]
        BY <1>9, <2>2 DEF Lookup, Goto
      <3>2. \A u \in Threads : pc'[u] = "list" => pc[u] = "list" /\ job'[u] = job[u]
        BY <1>0, <3>1
      <3> QED
        BY <1>0, <3>1, <3>2
    <2> QED
      BY <2>1, <2>2
  <1>10. ASSUME NEW t \in Threads, LookupTag(t) PROVE KeptInv'
    <2>1. job[t] \in Jobs /\ tagged[Head(job[t].left)] = Absent => pc'[t] # "list"
      BY <1>0, <1>10 DEF LookupTag, Goto
    <2> QED
      BY <1>0, <1>10, <2>1 DEF LookupTag, Goto
  <1>11. ASSUME NEW t \in Threads, EnterTag(t) PROVE KeptInv'
    <2>1. built["environment"] = 1 /\ job[t] \in Jobs /\ job[t].left # <<>> /\ UNCHANGED <<built, classes>>
      BY <1>0, <1>11 DEF EnterTag, Goto, JobInv
    <2>2. NextTag(t) \in Tags /\ <<>> # Absent
      BY <2>1, JobFields, SequenceFacts DEF NextTag
    <2>3. /\ tagged'[NextTag(t)] # Absent
          /\ \A g \in Tags : tagged[g] # Absent => tagged'[g] # Absent
      BY <1>0, <1>11, <2>2 DEF EnterTag, NextTag
    <2>4. job'[t].left = job[t].left
      BY <1>0, <1>11, <2>1 DEF EnterTag, Jobs
    <2>5. ASSUME NEW u \in Threads, pc'[u] = "list", ~ job'[u].lost
          PROVE  tagged'[Head(job'[u].left)] # Absent
      <3>1. CASE u = t
        BY <2>3, <2>4, <3>1 DEF NextTag
      <3>2. CASE u # t
        <4>1. pc[u] = "list" /\ job'[u] = job[u]
          BY <1>0, <1>11, <2>5, <3>2 DEF EnterTag, Goto
        <4>2. job[u].left # <<>> /\ job[u] \in Jobs /\ tagged[Head(job[u].left)] # Absent
          BY <1>0, <2>5, <4>1 DEF JobInv
        <4>3. Head(job[u].left) \in Tags
          BY <4>2, JobFields, SequenceFacts
        <4> QED
          BY <2>3, <4>1, <4>2, <4>3
      <3> QED
        BY <3>1, <3>2
    <2> QED
      BY <2>1, <2>5
  <1>12. ASSUME NEW t \in Threads, AppendName(t) PROVE KeptInv'
    <2>1. built["environment"] = 1 /\ UNCHANGED <<built, classes>>
      BY <1>0, <1>12 DEF AppendName, Goto
    <2>2. \A g \in Tags : tagged[g] # Absent => tagged'[g] # Absent
      BY <1>0, <1>12, ListsGrow
    <2>3. ASSUME NEW u \in Threads, pc'[u] = "list", ~ job'[u].lost
          PROVE  tagged'[Head(job'[u].left)] # Absent
      <3>1. pc[u] = "list" /\ job'[u] = job[u]
        BY <1>0, <1>12, <2>3 DEF AppendName, Goto
      <3>2. job[u].left # <<>> /\ job[u] \in Jobs /\ tagged[Head(job[u].left)] # Absent
        BY <1>0, <2>3, <3>1 DEF JobInv
      <3>3. Head(job[u].left) \in Tags
        BY <3>2, JobFields, SequenceFacts
      <3> QED
        BY <2>2, <3>1, <3>2, <3>3
    <2> QED
      BY <2>1, <2>3
  <1>13. ASSUME NEW t \in Threads, AppendClass(t) PROVE KeptInv'
    <2>1. built["environment"] = 1 /\ job[t].back # "list" /\ UNCHANGED <<built, tagged>>
      BY <1>0, <1>13, JobFields DEF AppendClass
    <2> QED
      BY <1>0, <1>13, <2>1 DEF AppendClass, Return
  <1>14. CASE UNCHANGED vars
    BY <1>0, <1>14 DEF vars
  <1>15. ASSUME NEW t \in Threads, SetFlag(t) PROVE KeptInv'
    BY <1>0, <1>15 DEF SetFlag, Goto
  <1> QED
    BY <1>1, <1>2, <1>3, <1>4, <1>5, <1>6, <1>7, <1>8, <1>9, <1>10, <1>11, <1>12, <1>13, <1>14, <1>15 DEF Next, Begin, Step

-----------------------------------------------------------------------------
(* A registration has entered no tag when it begins, one more when it      *)
(* enters the next, and all of them when none is left.                     *)
LEMMA EnteredFirst ==
  ASSUME NEW tags \in Seq(Tags)
  PROVE  Remain(tags, tags) /\ Entered(tags, tags) = {} /\ Entered(<<>>, tags) = Elements(tags)
BY DEF Remain, Entered, Elements

LEMMA EnteredNext ==
  ASSUME NEW tags \in Seq(Tags), NEW left \in Seq(Tags), left # <<>>, Remain(left, tags)
  PROVE  /\ Remain(Tail(left), tags)
         /\ Entered(Tail(left), tags) = Entered(left, tags) \cup {Head(left)}
  <1> DEFINE n == Len(tags) - Len(left)
  <1>1. Len(tags) \in Nat /\ Len(left) \in Nat /\ Len(left) > 0 /\ Len(left) <= Len(tags)
    BY DEF Remain
  <1>2. Len(Tail(left)) = Len(left) - 1
    BY <1>1
  <1>3. Len(tags) - Len(Tail(left)) = n + 1 /\ n \in Nat
    BY <1>1, <1>2
  <1>4. Head(left) = tags[n + 1]
    BY <1>1 DEF Remain
  <1>5. Remain(Tail(left), tags)
    <2>1. ASSUME NEW i \in 1..Len(Tail(left))
          PROVE  Tail(left)[i] = tags[Len(tags) - Len(Tail(left)) + i]
      <3>1. Tail(left)[i] = left[i + 1] /\ i + 1 \in 1..Len(left)
        BY <1>1, <1>2
      <3>2. left[i + 1] = tags[n + (i + 1)]
        BY <3>1 DEF Remain
      <3>3. n + (i + 1) = Len(tags) - Len(Tail(left)) + i
        BY <1>3
      <3> QED
        BY <3>1, <3>2, <3>3
    <2> QED
      BY <1>1, <1>2, <2>1 DEF Remain
  <1>6. Entered(Tail(left), tags) = {tags[i] : i \in 1..n + 1} /\ Entered(left, tags) = {tags[i] : i \in 1..n}
    BY <1>3 DEF Entered
  <1>7. 1..n + 1 = 1..n \cup {n + 1}
    BY <1>3
  <1> QED
    BY <1>4, <1>5, <1>6, <1>7

-----------------------------------------------------------------------------
(* A step that leaves the tables and the registration under way alone.     *)
LEMMA AgreeKept ==
  ASSUME Agree, OneRegisters', UNCHANGED <<classes, tagged>>,
         \A u \in Threads : UnderWay(u)' <=> UnderWay(u),
         \A u \in Threads : UnderWay(u) => pc'[u] = pc[u] /\ job'[u] = job[u]
  PROVE  Agree'
  <1>1. \A u \in Threads : UnderWay(u)' => InOrder(u)'
    BY DEF Agree, InOrder
  <1>2. ASSUME NEW n, NEW g PROVE Carries(n, g)' <=> Carries(n, g)
    BY DEF Carries, Has, Gets
  <1>3. Lists'
    BY <1>2 DEF Agree, Lists, ListOf
  <1> QED
    BY <1>1, <1>3 DEF Agree

(* A registration goes on alone: what a class carries are the tags it was  *)
(* registered with, or the ones this registration has entered.             *)
LEMMA AgreeAfter ==
  ASSUME NEW t \in Threads, \A u \in Threads : Registering(u)' => u = t,
         UnderWay(t)' => InOrder(t)',
         \A g \in Tags : ListOf(g)' =
            {n \in Names : Has(n, g)' \/ (UnderWay(t)' /\ Gets(t, n, g)')}
  PROVE  Agree'
  <1>1. OneRegisters' /\ \A u \in Threads : UnderWay(u)' => u = t
    BY DEF OneRegisters, Registering, UnderWay
  <1>2. ASSUME NEW n, NEW g
        PROVE  Carries(n, g)' <=> Has(n, g)' \/ (UnderWay(t)' /\ Gets(t, n, g)')
    BY <1>1 DEF Carries, UnderWay, Has, Gets
  <1>3. Lists'
    BY <1>2 DEF Lists
  <1> QED
    BY <1>1, <1>3 DEF Agree

LEMMA AgreeBefore ==
  ASSUME Agree, NEW t \in Threads, Registering(t)
  PROVE  /\ \A u \in Threads : Registering(u) => u = t
         /\ UnderWay(t) => InOrder(t)
         /\ \A g \in Tags : ListOf(g) = {n \in Names : Has(n, g) \/ (UnderWay(t) /\ Gets(t, n, g))}
  <1>1. \A u \in Threads : UnderWay(u) => u = t
    BY DEF Agree, OneRegisters, Registering, UnderWay
  <1>2. ASSUME NEW n, NEW g
        PROVE  Carries(n, g) <=> Has(n, g) \/ (UnderWay(t) /\ Gets(t, n, g))
    BY <1>1 DEF Carries, UnderWay, Has, Gets
  <1> QED
    BY <1>2 DEF Agree, Lists, OneRegisters

(* The list of the tag that is entered is the old one with the name.      *)
LEMMA ListGetsName ==
  ASSUME TypeOK, JobInv, KeptInv, NEW t \in Threads, AppendName(t), InOrder(t),
         NEW g, g = NextTag(t)
  PROVE  ListOf(g)' = ListOf(g) \cup {NameOf(t)}
  <1>1. g \in Tags /\ NameOf(t) \in Names /\ pc[t] = "list" /\ ~ job[t].lost
    BY AppendNameFacts DEF AppendName, Goto, TypeOK, InOrder
  <1>2. tagged[g] # Absent /\ tagged[g] \in Seq(Names) /\ tagged'[g] = Append(tagged[g], NameOf(t))
    BY <1>1, AppendNameFacts DEF InOrder, NextTag
  <1>3. Append(tagged[g], NameOf(t)) \in Seq(Names)
    BY <1>1, <1>2
  <1>4. tagged'[g] # Absent
    BY <1>2, <1>3
  <1>5. Elements(tagged'[g]) = Elements(tagged[g]) \cup {NameOf(t)}
    BY <1>1, <1>2, AppendElements
  <1> QED
    BY <1>2, <1>4, <1>5 DEF ListOf

LEMMA AgreeStep == InitFirst /\ OneAtATime /\ IInv /\ [Next]_vars => Agree'
  <1> SUFFICES ASSUME InitFirst, OneAtATime, IInv, [Next]_vars PROVE Agree'
    OBVIOUS
  <1>0. TypeOK /\ JobInv /\ StartInv /\ KeptInv /\ Agree
    BY DEF IInv, AgreeInv
  <1> USE DEF TypeOK, Registering, Singletons, Places
  <1>1. ASSUME NEW t \in Threads, CallInit(t) PROVE Agree'
    <2>1. /\ UNCHANGED <<classes, tagged>> /\ pc[t] = "idle"
          /\ ~ Registering(t) \/ pc[t] = "lookup"
          /\ pc'[t] \notin {"lookup", "tags", "enter", "list"}
          /\ \A u \in Threads \ {t} : pc'[u] = pc[u] /\ job'[u] = job[u]
      BY <1>0, <1>1 DEF CallInit, Enter
    <2>2. OneRegisters'
      BY <1>0, <2>1 DEF Agree, OneRegisters
    <2> QED
      BY <1>0, <2>1, <2>2, AgreeKept DEF UnderWay
  <1>2. ASSUME NEW t \in Threads, CallRegister(t) PROVE Agree'
    <2>1. /\ UNCHANGED <<classes, tagged>> /\ pc[t] = "idle" /\ pc'[t] = "lookup"
          /\ \A u \in Threads \ {t} : ~ Registering(u) /\ pc'[u] = pc[u] /\ job'[u] = job[u]
      BY <1>0, <1>2 DEF CallRegister, Goto, MayRegister, OneAtATime
    <2>2. OneRegisters'
      BY <1>0, <2>1 DEF OneRegisters
    <2> QED
      BY <1>0, <2>1, <2>2, AgreeKept DEF UnderWay
  <1>3. ASSUME NEW t \in Threads, NewSymbolTable(t) PROVE Agree'
    <2>1. /\ UNCHANGED <<classes, tagged>> /\ pc[t] = "symbols"
          /\ ~ Registering(t) \/ pc[t] = "lookup"
          /\ pc'[t] \notin {"lookup", "tags", "enter", "list"}
          /\ \A u \in Threads \ {t} : pc'[u] = pc[u] /\ job'[u] = job[u]
      BY <1>0, <1>3 DEF NewSymbolTable, Build, Goto
    <2>2. OneRegisters'
      BY <1>0, <2>1 DEF Agree, OneRegisters
    <2> QED
      BY <1>0, <2>1, <2>2, AgreeKept DEF UnderWay
  <1>4. ASSUME NEW t \in Threads, NewEnvironment(t) PROVE Agree'
    <2>1. pc[t] = "environment" /\ pc'[t] = "caches" /\ \A u \in Threads \ {t} : pc'[u] = pc[u]
      BY <1>0, <1>4 DEF NewEnvironment, Build, Goto
    <2>2. \A u \in Threads : ~ Registering(u)
      BY <1>0, <2>1 DEF StartInv, Starting
    <2>3. \A u \in Threads : pc'[u] \notin {"lookup", "tags", "enter", "list"}
      BY <2>1, <2>2
    <2>4. (\A n \in Names : classes'[n] = Absent) /\ (\A g \in Tags : tagged'[g] = Absent)
      BY <1>4 DEF NewEnvironment
    <2>5. OneRegisters' /\ \A u \in Threads : UnderWay(u)' => InOrder(u)'
      BY <2>3 DEF OneRegisters, UnderWay
    <2>6. Lists'
      BY <2>3, <2>4 DEF Lists, ListOf, Carries, Has, UnderWay
    <2> QED
      BY <2>5, <2>6 DEF Agree
  <1>5. ASSUME NEW t \in Threads, InitCaches(t) PROVE Agree'
    <2>1. /\ UNCHANGED <<classes, tagged>> /\ pc[t] = "caches"
          /\ ~ Registering(t) \/ pc[t] = "lookup"
          /\ pc'[t] \notin {"lookup", "tags", "enter", "list"}
          /\ \A u \in Threads \ {t} : pc'[u] = pc[u] /\ job'[u] = job[u]
      BY <1>0, <1>5 DEF InitCaches, Build, Goto
    <2>2. OneRegisters'
      BY <1>0, <2>1 DEF Agree, OneRegisters
    <2> QED
      BY <1>0, <2>1, <2>2, AgreeKept DEF UnderWay
  <1>6. ASSUME NEW t \in Threads, FindExtensions(t) PROVE Agree'
    <2>1. /\ UNCHANGED <<classes, tagged>> /\ pc[t] = "load"
          /\ ~ Registering(t) \/ pc[t] = "lookup"
          /\ pc'[t] \notin {"lookup", "tags", "enter", "list"}
          /\ \A u \in Threads \ {t} : pc'[u] = pc[u] /\ job'[u] = job[u]
      BY <1>0, <1>6 DEF FindExtensions, Goto
    <2>2. OneRegisters'
      BY <1>0, <2>1 DEF Agree, OneRegisters
    <2> QED
      BY <1>0, <2>1, <2>2, AgreeKept DEF UnderWay
  <1>7. ASSUME NEW t \in Threads, LoadNext(t) PROVE Agree'
    <2>1. pc[t] \in {"load", "extensions"} /\ initialised
      BY <1>0, <1>7 DEF LoadNext, StartInv, Starting
    <2>2. /\ UNCHANGED <<classes, tagged>> /\ pc'[t] = "lookup"
          /\ \A u \in Threads \ {t} : pc'[u] = pc[u] /\ job'[u] = job[u]
      BY <1>0, <1>7, <2>1 DEF LoadNext, Goto, Enter
    <2>3. \A u \in Threads \ {t} : ~ Registering(u)
      BY <1>0, <2>1 DEF StartInv, Starting
    <2>4. OneRegisters'
      BY <2>2, <2>3 DEF OneRegisters
    <2> QED
      BY <1>0, <2>1, <2>2, <2>4, AgreeKept DEF UnderWay
  <1>8. ASSUME NEW t \in Threads, InitReturns(t) PROVE Agree'
    <2>1. /\ UNCHANGED <<classes, tagged>> /\ pc[t] = "extensions"
          /\ ~ Registering(t) \/ pc[t] = "lookup"
          /\ pc'[t] \notin {"lookup", "tags", "enter", "list"}
          /\ \A u \in Threads \ {t} : pc'[u] = pc[u] /\ job'[u] = job[u]
      BY <1>0, <1>8 DEF InitReturns, Goto
    <2>2. OneRegisters'
      BY <1>0, <2>1 DEF Agree, OneRegisters
    <2> QED
      BY <1>0, <2>1, <2>2, AgreeKept DEF UnderWay
  <1>9. ASSUME NEW t \in Threads, Lookup(t) PROVE Agree'
    <2> DEFINE r == job[t].request
    <2>1. pc[t] = "lookup" /\ job[t] \in Jobs /\ r \in Request /\ UNCHANGED <<classes, tagged>>
      BY <1>0, <1>9 DEF Lookup, JobInv
    <2>2. r.tags \in Seq(Tags) /\ r.name \in Names /\ job[t].back \in {"idle", "load", "extensions"}
      BY <2>1, RequestFacts, JobFields
    <2>3. CASE classes[r.name] # Absent
      <3>1. /\ pc'[t] \notin {"lookup", "tags", "enter", "list"}
            /\ \A u \in Threads \ {t} : pc'[u] = pc[u] /\ job'[u] = job[u]
        BY <1>0, <1>9, <2>2, <2>3 DEF Lookup, Return
      <3>2. OneRegisters'
        BY <1>0, <3>1 DEF Agree, OneRegisters
      <3> QED
        BY <1>0, <2>1, <3>1, <3>2, AgreeKept DEF UnderWay
    <2>4. CASE classes[r.name] = Absent
      <3>1. /\ pc'[t] = "tags" /\ \A u \in Threads \ {t} : pc'[u] = pc[u]
            /\ job'[t].request = r /\ job'[t].left = r.tags
        BY <1>0, <1>9, <2>1, <2>4 DEF Lookup, Goto, Jobs
      <3>2. \A u \in Threads : Registering(u)' => u = t
        BY <1>0, <2>1, <3>1, AgreeBefore
      <3>3. InOrder(t)'
        <4>1. ~ job'[t].lost
          <5>1. job' = [job EXCEPT ![t] = [@ EXCEPT !.left = r.tags]]
            BY <1>9, <2>4 DEF Lookup
          <5>2. job'[t].lost = job[t].lost
            BY <1>0, <2>1, <5>1 DEF Jobs
          <5> QED
            BY <1>0, <2>1, <5>2 DEF JobInv
        <4> QED
          BY <2>1, <2>2, <2>4, <3>1, <4>1, EnteredFirst DEF InOrder
      <3>4. \A n, g : ~ Gets(t, n, g)'
        BY <2>2, <3>1, EnteredFirst DEF Gets
      <3>5. \A g \in Tags : ListOf(g) = {n \in Names : Has(n, g)}
        <4>1. Registering(t) /\ ~ UnderWay(t)
          BY <2>1 DEF UnderWay
        <4>2. \A g \in Tags : ListOf(g) = {n \in Names : Has(n, g) \/ (UnderWay(t) /\ Gets(t, n, g))}
          BY <1>0, <4>1, AgreeBefore
        <4> QED
          BY <4>1, <4>2
      <3>6. \A g \in Tags :
              ListOf(g)' = {n \in Names : Has(n, g)' \/ (UnderWay(t)' /\ Gets(t, n, g)')}
        BY <2>1, <3>4, <3>5 DEF ListOf, Has
      <3> QED
        BY <3>2, <3>3, <3>6, AgreeAfter
    <2> QED
      BY <2>3, <2>4
  <1>10. ASSUME NEW t \in Threads, LookupTag(t) PROVE Agree'
    <2>1. /\ pc[t] = "tags" /\ UNCHANGED <<classes, tagged, job>>
          /\ pc'[t] = IF tagged[Head(job[t].left)] = Absent THEN "enter" ELSE "list"
          /\ \A u \in Threads \ {t} : pc'[u] = pc[u]
      BY <1>0, <1>10 DEF LookupTag, Goto
    <2>2. /\ \A u \in Threads : Registering(u) => u = t
          /\ InOrder(t)
          /\ \A g \in Tags : ListOf(g) = {n \in Names : Has(n, g) \/ Gets(t, n, g)}
      BY <1>0, <2>1, AgreeBefore DEF UnderWay
    <2>3. \A u \in Threads : Registering(u)' => u = t
      BY <2>1, <2>2
    <2>4. InOrder(t)'
      BY <2>1, <2>2 DEF InOrder
    <2>5. \A g \in Tags :
            ListOf(g)' = {n \in Names : Has(n, g)' \/ (UnderWay(t)' /\ Gets(t, n, g)')}
      BY <2>1, <2>2 DEF ListOf, Has, Gets, UnderWay
    <2> QED
      BY <2>3, <2>4, <2>5, AgreeAfter
  <1>11. ASSUME NEW t \in Threads, EnterTag(t) PROVE Agree'
    <2>1. /\ pc[t] = "enter" /\ job[t] \in Jobs /\ job[t].left # <<>> /\ UNCHANGED classes
          /\ pc'[t] = "list" /\ \A u \in Threads \ {t} : pc'[u] = pc[u]
      BY <1>0, <1>11 DEF EnterTag, Goto, JobInv
    <2>2. /\ \A u \in Threads : Registering(u) => u = t
          /\ InOrder(t)
          /\ \A g \in Tags : ListOf(g) = {n \in Names : Has(n, g) \/ Gets(t, n, g)}
      BY <1>0, <2>1, AgreeBefore DEF UnderWay
    <2>3. NextTag(t) \in Tags /\ tagged[NextTag(t)] = Absent
      BY <2>1, <2>2, JobFields, SequenceFacts DEF InOrder, NextTag
    <2>4. tagged' = [tagged EXCEPT ![NextTag(t)] = <<>>]
      BY <1>11, <2>3 DEF EnterTag, NextTag
    <2>5. job'[t].request = job[t].request /\ job'[t].left = job[t].left /\ ~ job'[t].lost
      BY <1>0, <1>11, <2>1, <2>3 DEF EnterTag, Jobs, NextTag
    <2>6. \A u \in Threads : Registering(u)' => u = t
      BY <2>1, <2>2
    <2>7. InOrder(t)'
      <3>1. tagged'[NextTag(t)] = <<>> /\ <<>> # Absent
        <4>1. <<>> \in Seq(Names)
          OBVIOUS
        <4> QED
          BY <1>0, <2>3, <2>4, <4>1
      <3> QED
        BY <2>1, <2>2, <2>5, <3>1 DEF InOrder, NextTag
    <2>8. \A g \in Tags : ListOf(g)' = ListOf(g)
      <3>1. Elements(<<>>) = {}
        BY DEF Elements
      <3>2. CASE tagged'[NextTag(t)] = <<>>
        BY <1>0, <2>3, <2>4, <3>1, <3>2 DEF ListOf
      <3> QED
        BY <1>0, <2>3, <2>4, <3>2
    <2>9. \A g \in Tags :
            ListOf(g)' = {n \in Names : Has(n, g)' \/ (UnderWay(t)' /\ Gets(t, n, g)')}
      BY <2>1, <2>2, <2>5, <2>8 DEF Has, Gets, UnderWay
    <2> QED
      BY <2>6, <2>7, <2>9, AgreeAfter
  <1>12. ASSUME NEW t \in Threads, AppendName(t) PROVE Agree'
    <2>1. /\ pc[t] = "list" /\ job[t] \in Jobs /\ job[t].request \in Request
          /\ job[t].left # <<>> /\ UNCHANGED classes
          /\ pc'[t] = "tags" /\ \A u \in Threads \ {t} : pc'[u] = pc[u]
      BY <1>0, <1>12 DEF AppendName, Goto, JobInv
    <2>2. /\ job'[t].request = job[t].request /\ job'[t].left = Tail(job[t].left)
          /\ ~ job'[t].lost
      BY <1>0, <1>12, <2>1 DEF AppendName, Jobs
    <2>3. /\ \A u \in Threads : Registering(u) => u = t
          /\ InOrder(t)
          /\ \A g \in Tags : ListOf(g) = {n \in Names : Has(n, g) \/ Gets(t, n, g)}
      BY <1>0, <2>1, AgreeBefore DEF UnderWay
    <2>4. job[t].left \in Seq(Tags) /\ job[t].request.tags \in Seq(Tags)
      BY <2>1, JobFields, RequestFacts
    <2>5. /\ Remain(Tail(job[t].left), job[t].request.tags)
          /\ Entered(Tail(job[t].left), job[t].request.tags)
               = Entered(job[t].left, job[t].request.tags) \cup {NextTag(t)}
      BY <2>1, <2>3, <2>4, EnteredNext DEF InOrder, NextTag
    <2>6. \A u \in Threads : Registering(u)' => u = t
      BY <2>1, <2>3
    <2>7. InOrder(t)'
      BY <2>1, <2>2, <2>3, <2>5 DEF InOrder
    <2>8. \A n, g : Gets(t, n, g)' <=> (Gets(t, n, g) \/ (n = NameOf(t) /\ g = NextTag(t)))
      BY <2>2, <2>5 DEF Gets, NameOf
    <2>9. ASSUME NEW g \in Tags
          PROVE  ListOf(g)' = {n \in Names : Has(n, g)' \/ (UnderWay(t)' /\ Gets(t, n, g)')}
      <3>1. CASE g # NextTag(t)
        <4>1. tagged'[g] = tagged[g]
          BY <1>0, <1>12, <3>1, AppendNameFacts
        <4> QED
          BY <2>1, <2>3, <2>8, <3>1, <4>1 DEF ListOf, Has, UnderWay
      <3>2. CASE g = NextTag(t)
        <4>1. NameOf(t) \in Names
          BY <1>0, <1>12, AppendNameFacts
        <4>2. ListOf(g)' = ListOf(g) \cup {NameOf(t)}
          BY <1>0, <1>12, <2>1, <2>3, <3>2, ListGetsName
        <4> QED
          BY <2>1, <2>3, <2>8, <3>2, <4>1, <4>2 DEF Has, UnderWay
      <3> QED
        BY <3>1, <3>2
    <2> QED
      BY <2>6, <2>7, <2>9, AgreeAfter
  <1>13. ASSUME NEW t \in Threads, AppendClass(t) PROVE Agree'
    <2> DEFINE r == job[t].request
    <2>1. /\ pc[t] = "tags" /\ job[t] \in Jobs /\ r \in Request /\ job[t].left = <<>>
          /\ UNCHANGED tagged
          /\ classes' = IF classes[r.name] = Absent THEN [classes EXCEPT ![r.name] = r.tags] ELSE classes
      BY <1>0, <1>13 DEF AppendClass, JobInv
    <2>2. r.tags \in Seq(Tags) /\ r.name \in Names /\ job[t].back \in {"idle", "load", "extensions"}
      BY <2>1, RequestFacts, JobFields
    <2>3. /\ pc'[t] \notin {"lookup", "tags", "enter", "list"}
          /\ \A u \in Threads \ {t} : pc'[u] = pc[u]
      BY <1>0, <1>13, <2>2 DEF AppendClass, Return
    <2>4. /\ \A u \in Threads : Registering(u) => u = t
          /\ InOrder(t)
          /\ \A g \in Tags : ListOf(g) = {n \in Names : Has(n, g) \/ Gets(t, n, g)}
      BY <1>0, <2>1, AgreeBefore DEF UnderWay
    <2>5. classes' = [classes EXCEPT ![r.name] = r.tags] /\ classes[r.name] = Absent
      BY <2>1, <2>4 DEF InOrder
    <2>6. \A u \in Threads : ~ Registering(u)'
      BY <2>3, <2>4
    <2>7. ASSUME NEW n \in Names, NEW g \in Tags
          PROVE  Has(n, g)' <=> Has(n, g) \/ Gets(t, n, g)
      <3>1. CASE n = r.name
        <4>1. classes'[n] = r.tags /\ r.tags # Absent
          BY <1>0, <2>2, <2>5, <3>1
        <4>2. Gets(t, n, g) <=> g \in Elements(r.tags)
          BY <2>1, <2>2, <3>1, EnteredFirst DEF Gets
        <4> QED
          BY <2>5, <3>1, <4>1, <4>2 DEF Has
      <3>2. CASE n # r.name
        BY <1>0, <2>5, <3>2 DEF Has, Gets
      <3> QED
        BY <3>1, <3>2
    <2>8. \A g \in Tags :
            ListOf(g)' = {n \in Names : Has(n, g)' \/ (UnderWay(t)' /\ Gets(t, n, g)')}
      BY <2>1, <2>3, <2>4, <2>7 DEF ListOf, UnderWay
    <2> QED
      BY <2>3, <2>6, <2>8, AgreeAfter DEF UnderWay
  <1>14. CASE UNCHANGED vars
    <2>1. UNCHANGED <<classes, tagged, pc, job>> /\ OneRegisters'
      BY <1>0, <1>14 DEF vars, Agree, OneRegisters
    <2> QED
      BY <1>0, <2>1, AgreeKept DEF UnderWay
  <1>15. ASSUME NEW t \in Threads, SetFlag(t) PROVE Agree'
    <2>1. /\ UNCHANGED <<classes, tagged>> /\ pc[t] = "set"
          /\ ~ Registering(t) \/ pc[t] = "lookup"
          /\ pc'[t] \notin {"lookup", "tags", "enter", "list"}
          /\ \A u \in Threads \ {t} : pc'[u] = pc[u] /\ job'[u] = job[u]
      BY <1>0, <1>15 DEF SetFlag, Goto
    <2>2. OneRegisters'
      BY <1>0, <2>1 DEF Agree, OneRegisters
    <2> QED
      BY <1>0, <2>1, <2>2, AgreeKept DEF UnderWay
  <1> QED
    BY <1>1, <1>2, <1>3, <1>4, <1>5, <1>6, <1>7, <1>8, <1>9, <1>10, <1>11, <1>12, <1>13, <1>14, <1>15 DEF Next, Begin, Step

-----------------------------------------------------------------------------
LEMMA IInit == Init => IInv
  <1> SUFFICES ASSUME Init PROVE IInv
    OBVIOUS
  <1>1. TypeOK
    <2>1. NoJob \in Jobs /\ <<>> \in Seq(Request)
      BY JobFacts
    <2>2. /\ built \in [Singletons -> 0..1] /\ pc \in [Threads -> Places]
          /\ todo \in [Threads -> Seq(Request)] /\ job \in [Threads -> Jobs]
      BY <2>1 DEF Init, Places
    <2> QED
      BY <2>2 DEF Init, TypeOK, Places, Singletons
  <1>2. JobInv /\ KeptInv
    BY JobFacts DEF Init, JobInv, KeptInv, Registering, Singletons
  <1>3. StartInv
    BY JobFacts DEF Init, StartInv, Starting, Registering, AllBuilt, Singletons
  <1>4. Agree
    <2>1. \A t \in Threads : ~ Registering(t) /\ ~ UnderWay(t)
      BY DEF Init, Registering, UnderWay
    <2>2. Lists
      BY <2>1 DEF Init, Lists, ListOf, Carries, Has
    <2> QED
      BY <2>1, <2>2 DEF Agree, OneRegisters
  <1> QED
    BY <1>1, <1>2, <1>3, <1>4 DEF IInv, AgreeInv

LEMMA IStep == InitFirst /\ IInv /\ [Next]_vars => IInv'
BY TypeStep, JobStep, StartStep, KeptStep, AgreeStep DEF IInv, AgreeInv, OneAtATime

LEMMA Invariance == InitFirst => (Spec => []IInv)
  <1> SUFFICES ASSUME InitFirst PROVE Spec => []IInv
    OBVIOUS
  <1> QED
    BY IInit, IStep, PTL DEF Spec

-----------------------------------------------------------------------------
(* What a step uses was created before: TTFoundationInit creates each      *)
(* singleton once and in its order, also when an extension or a second     *)
(* thread starts the library again.                                        *)
THEOREM UsesWhatExistsHolds == InitFirst => (Spec => []UsesWhatExists)
  <1> SUFFICES ASSUME InitFirst PROVE Spec => []UsesWhatExists
    OBVIOUS
  <1>1. ASSUME IInv PROVE UsesWhatExists
    <2>1. TypeOK /\ StartInv /\ JobInv
      BY <1>1 DEF IInv
    <2>2. ASSUME NEW t \in Threads, NEW s \in Needs(t) PROVE built[s] = 1
      <3>1. CASE pc[t] \in Singletons \cup {"load", "extensions", "lookup", "tags", "enter", "list"}
        BY <2>1, <2>2, <3>1 DEF Needs, StartInv, AllBuilt, Singletons
      <3>2. CASE pc[t] \in {"idle", "set"}
        BY <2>2, <3>2 DEF Needs
      <3> QED
        BY <2>1, <3>1, <3>2 DEF TypeOK, Places
    <2> QED
      BY <2>1, <2>2 DEF UsesWhatExists
  <1> QED
    BY <1>1, Invariance, PTL

(* No step takes a class or its tags away, nor a name from under a tag: not*)
(* a second registration of the name, not an extension that starts the     *)
(* library again.  Nothing is said of threads that call before             *)
(* TTFoundationInit returned: a new environment may empty their tables.    *)
THEOREM RegistrationsStayHolds == InitFirst => (Spec => RegistrationsStay)
  <1> DEFINE Stay ==
        /\ \A n \in Names : classes[n] # Absent => classes'[n] = classes[n]
        /\ \A g \in Tags : tagged[g] # Absent =>
             tagged'[g] # Absent /\ Elements(tagged[g]) \subseteq Elements(tagged'[g])
  <1> SUFFICES ASSUME InitFirst PROVE Spec => [][Stay]_vars
    BY DEF RegistrationsStay
  <1>1. ASSUME IInv, [Next]_vars PROVE [Stay]_vars
    <2>0. TypeOK /\ JobInv /\ StartInv /\ KeptInv
      BY <1>1 DEF IInv
    <2>1. CASE UNCHANGED <<classes, tagged>>
      BY <2>1
    <2>2. CASE \E t \in Threads : NewEnvironment(t)
      BY <2>0, <2>2 DEF NewEnvironment, Build, Goto, StartInv, KeptInv
    <2>3. ASSUME NEW t \in Threads, AppendName(t) PROVE Stay
      <3>1. UNCHANGED classes
        BY <2>3 DEF AppendName
      <3> QED
        BY <2>0, <2>3, <3>1, ListsGrow
    <2>4. ASSUME NEW t \in Threads, AppendClass(t) PROVE Stay
      BY <2>0, <2>4 DEF AppendClass, TypeOK
    <2>5. ASSUME NEW t \in Threads, EnterTag(t) PROVE Stay
      BY <2>0, <2>5 DEF EnterTag, TypeOK
    <2>6. ASSUME NEW t \in Threads, Begin(t) \/ Step(t), ~ NewEnvironment(t), ~ EnterTag(t),
                 ~ AppendName(t), ~ AppendClass(t)
          PROVE  UNCHANGED <<classes, tagged>>
      BY <2>6 DEF Begin, Step, CallInit, SetFlag, CallRegister, NewSymbolTable, InitCaches, FindExtensions, LoadNext,
                  InitReturns, Lookup, LookupTag
    <2> QED
      BY <1>1, <2>1, <2>2, <2>3, <2>4, <2>5, <2>6 DEF Next, vars
  <1> QED
    BY <1>1, Invariance, PTL DEF Spec

(* When no registration is under way, a search for one tag or two finds the*)
(* classes registered with them: a registration enters its class under each*)
(* of its tags, also under one that no class had before.                   *)
THEOREM SearchFindsClassesHolds == InitFirst /\ OneAtATime => (Spec => []SearchFindsClasses)
  <1> SUFFICES ASSUME InitFirst, OneAtATime PROVE Spec => []SearchFindsClasses
    OBVIOUS
  <1>1. ASSUME IInv PROVE SearchFindsClasses
    <2> SUFFICES ASSUME Settled, NEW g \in Tags, NEW h \in Tags
                 PROVE  /\ Answer(g, h) \subseteq Carrying({g}) \cup Carrying({h})
                        /\ Carrying({g, h}) \subseteq Answer(g, h)
                        /\ Carrying({g, h}) # {} => ~ ErrorOfTags(<<g, h>>)
      BY DEF SearchFindsClasses
    <2>0. /\ Carrying({g}) = {n \in Names : Has(n, g)}
          /\ Carrying({h}) = {n \in Names : Has(n, h)}
          /\ Carrying({g, h}) = {n \in Names : Has(n, g) /\ Has(n, h)}
      BY DEF Carrying, Has
    <2>1. /\ ListOf(g) = {n \in Names : Has(n, g)}
          /\ ListOf(h) = {n \in Names : Has(n, h)}
      BY <1>1 DEF IInv, AgreeInv, Agree, Lists, Carries, UnderWay, Settled, Registering
    <2>2. Found(<<g, h>>) = {i \in {1, 2} : (i = 1 /\ tagged[g] # Absent) \/ (i = 2 /\ tagged[h] # Absent)}
      BY DEF Found
    <2>3. CASE tagged[h] # Absent
      <3>1. 2 \in Found(<<g, h>>) /\ \A i \in Found(<<g, h>>) : i \in {1, 2}
        BY <2>2, <2>3
      <3>2. NamesWithTags(<<>>, <<g, h>>) = tagged[h] /\ ~ ErrorOfTags(<<g, h>>)
        BY <3>1 DEF NamesWithTags, ErrorOfTags
      <3> QED
        BY <2>0, <2>1, <2>3, <3>2 DEF ListOf, Answer
    <2>4. CASE tagged[h] = Absent /\ tagged[g] # Absent
      <3>1. Found(<<g, h>>) = {1}
        BY <2>2, <2>4
      <3>2. NamesWithTags(<<>>, <<g, h>>) = tagged[g]
        <4>1. (CHOOSE i \in {1} : \A j \in {1} : j <= i) = 1
          OBVIOUS
        <4>2. NamesWithTags(<<>>, <<g, h>>) = tagged[<<g, h>>[1]]
          BY ONLY <3>1, <4>1 DEF NamesWithTags
        <4> QED
          BY ONLY <4>2
      <3>3. \A n \in Names : ~ Has(n, h)
        BY <2>1, <2>4 DEF ListOf
      <3> QED
        BY <2>0, <2>1, <2>4, <3>2, <3>3 DEF ListOf, Answer
    <2>5. CASE tagged[h] = Absent /\ tagged[g] = Absent
      <3>1. Found(<<g, h>>) = {}
        BY <2>2, <2>5
      <3>2. Elements(NamesWithTags(<<>>, <<g, h>>)) = {}
        BY <3>1 DEF NamesWithTags, Elements
      <3>3. \A n \in Names : ~ Has(n, h)
        BY <2>1, <2>5 DEF ListOf
      <3> QED
        BY <2>0, <3>2, <3>3 DEF Answer
    <2> QED
      BY <2>3, <2>4, <2>5
  <1> QED
    BY <1>1, Invariance, PTL

=============================================================================

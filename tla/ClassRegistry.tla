---------------------------- MODULE ClassRegistry ----------------------------
(***************************************************************************)
(* The start of the library and its registry of classes: TTFoundationInit  *)
(* (library/source/TTFoundation.cpp), TTEnvironment::registerClass and     *)
(* getClassNamesWithTags (library/source/TTEnvironment.cpp) on two hash    *)
(* tables that no mutex protects (library/source/TTHash.cpp).              *)
(*                                                                         *)
(* The loader of an extension is called inside TTFoundationInit and calls  *)
(* TTFoundationInit itself.  What the code leaves to its callers is written*)
(* down as rules.                                                          *)
(***************************************************************************)
EXTENDS Naturals, Sequences, FiniteSets

CONSTANTS
  Threads,
  Names,       (* of classes                                               *)
  Tags,
  Absent,      (* no entry in a hash table                                 *)
  Internal,    (* the classes of the library: a sequence of requests       *)
  External,    (* the requests of extensions and of the program            *)
  Rules,       (* the rules the callers follow, see CallerRules            *)
  MaxFound     (* bound: the extensions found in the folders               *)

CallerRules == {
  "InitFirst",    (* nothing is called before TTFoundationInit returned    *)
  "OneAtATime"}   (* one thread at a time is in the registry               *)

Request == [name : Names, tags : Seq(Tags)]
BoundedSeq(S, n) == UNION {[1..k -> S] : k \in 0..n}
Elements(s) == {s[i] : i \in DOMAIN s}

ASSUME RegistryAssumption ==
  /\ Absent \notin Tags \cup Names \cup Seq(Tags) \cup Seq(Names)
  /\ Internal \in Seq(Request) /\ External \subseteq Request
  /\ Rules \subseteq CallerRules
  /\ MaxFound \in Nat

VARIABLES
  initialised,  (* TTFoundationHasInitialized                              *)
  built,        (* how often a singleton was created                       *)
  classes,      (* the hash of classes: the tags each was registered with  *)
  tagged,       (* the hash of tags: the list of class names of each       *)
  pc,           (* where a thread is                                       *)
  todo,         (* the classes its TTFoundationInit has still to register  *)
  job           (* its registration: the request, the tags it has still to *)
                (* enter, and whether its list of the next one is lost, as *)
                (* the hash had got another                                *)

vars == <<initialised, built, classes, tagged, pc, todo, job>>

Singletons == {"symbols", "environment", "caches"}
Job(r, back) == [request |-> r, left |-> <<>>, lost |-> FALSE, back |-> back]
NoJob == Job(Absent, "idle")

Goto(t, from, to) ==
  /\ pc[t] = from
  /\ pc' = [pc EXCEPT ![t] = to]

Starting(t) == pc[t] \in Singletons \cup {"set", "load", "extensions"} \/ job[t].back # "idle"
Registering(t) == pc[t] \in {"lookup", "tags", "enter", "list"}

MayRegister(t) ==
  /\ "InitFirst" \in Rules => initialised /\ \A u \in Threads : ~ Starting(u)
  /\ "OneAtATime" \in Rules => \A u \in Threads \ {t} : ~ Registering(u)
MayInit == "InitFirst" \in Rules => \A u \in Threads : ~ Starting(u)

Init ==
  /\ initialised = FALSE
  /\ built = [s \in Singletons |-> 0]
  /\ classes = [n \in Names |-> Absent]
  /\ tagged = [g \in Tags |-> Absent]
  /\ pc = [t \in Threads |-> "idle"]
  /\ todo = [t \in Threads |-> <<>>]
  /\ job = [t \in Threads |-> NoJob]

-----------------------------------------------------------------------------
(* TTFoundationInit: the flag is tested.  It starts, or it was started and *)
(* returns at once.                                                        *)
Enter(t, otherwise) ==
  /\ pc' = [pc EXCEPT ![t] = IF initialised THEN otherwise ELSE "set"]
  /\ UNCHANGED initialised

CallInit(t) ==
  /\ pc[t] = "idle" /\ MayInit
  /\ Enter(t, "idle")
  /\ UNCHANGED <<built, classes, tagged, todo, job>>

(* Mutants of SetFlag: it is left for later; the first singleton is left   *)
(* out.                                                                    *)
SetNoFlag(t) ==
  /\ Goto(t, "set", "symbols")
  /\ UNCHANGED <<initialised, built, classes, tagged, todo, job>>

SetFlagAndSkip(t) ==
  /\ Goto(t, "set", "environment")
  /\ initialised' = TRUE
  /\ UNCHANGED <<built, classes, tagged, todo, job>>

(* The flag is set before anything exists.                                 *)
SetFlag(t) ==
  /\ Goto(t, "set", "symbols")
  /\ initialised' = TRUE
  /\ UNCHANGED <<built, classes, tagged, todo, job>>

Build(t, singleton, next) ==
  /\ Goto(t, singleton, next)
  /\ built' = [built EXCEPT ![singleton] = @ + 1]

NewSymbolTable(t) ==
  /\ Build(t, "symbols", "environment")
  /\ UNCHANGED <<initialised, classes, tagged, todo, job>>

(* A new environment has new hash tables.                                  *)
NewEnvironment(t) ==
  /\ Build(t, "environment", "caches")
  /\ classes' = [n \in Names |-> Absent]
  /\ tagged' = [g \in Tags |-> Absent]
  /\ UNCHANGED <<initialised, todo, job>>

InitCaches(t) ==
  /\ Build(t, "caches", "load")
  /\ todo' = [todo EXCEPT ![t] = Internal]
  /\ UNCHANGED <<initialised, classes, tagged, job>>

(* The classes of the library, then the extensions that are found: the same*)
(* may be found in several folders.                                        *)
FindExtensions(t) ==
  /\ todo[t] = <<>>
  /\ Goto(t, "load", "extensions")
  /\ \E found \in BoundedSeq(External, MaxFound) : todo' = [todo EXCEPT ![t] = found]
  /\ UNCHANGED <<initialised, built, classes, tagged, job>>

(* loadTTExtension calls TTFoundationInit, then registers.                 *)
LoadNext(t) ==
  /\ pc[t] \in {"load", "extensions"} /\ todo[t] # <<>>
  /\ todo' = [todo EXCEPT ![t] = Tail(@)]
  /\ job' = [job EXCEPT ![t] = Job(Head(todo[t]), pc[t])]
  /\ IF pc[t] = "extensions" THEN Enter(t, "lookup") ELSE Goto(t, "load", "lookup") /\ UNCHANGED initialised
  /\ UNCHANGED <<built, classes, tagged>>

InitReturns(t) ==
  /\ todo[t] = <<>>
  /\ Goto(t, "extensions", "idle")
  /\ UNCHANGED <<initialised, built, classes, tagged, todo, job>>

-----------------------------------------------------------------------------
(* registerClass: one step for every use of a hash table.                  *)
CallRegister(t) ==
  /\ MayRegister(t)
  /\ Goto(t, "idle", "lookup")
  /\ \E r \in External : job' = [job EXCEPT ![t] = Job(r, "idle")]
  /\ UNCHANGED <<initialised, built, classes, tagged, todo>>

(* Mutant of Return: what was to be loaded after this class is forgotten.  *)
ReturnToCaller(t) ==
  /\ pc' = [pc EXCEPT ![t] = "idle"]
  /\ job' = [job EXCEPT ![t] = NoJob]

Return(t) ==
  /\ pc' = [pc EXCEPT ![t] = job[t].back]
  /\ job' = [job EXCEPT ![t] = NoJob]

(* A name that is taken is left to its class, without an error.            *)
Lookup(t) ==
  /\ pc[t] = "lookup"
  /\ IF classes[job[t].request.name] # Absent
     THEN Return(t)
     ELSE /\ Goto(t, "lookup", "tags")
          /\ job' = [job EXCEPT ![t].left = job[t].request.tags]
  /\ UNCHANGED <<initialised, built, classes, tagged, todo>>

(* The list of a tag, or none, of which a new one is made.                 *)
LookupTag(t) ==
  /\ job[t].left # <<>>
  /\ Goto(t, "tags", IF tagged[Head(job[t].left)] = Absent THEN "enter" ELSE "list")
  /\ UNCHANGED <<initialised, built, classes, tagged, todo, job>>

(* TTHash::append keeps an entry that is there: then the new list is lost. *)
EnterTag(t) ==
  LET tag == Head(job[t].left)
  IN  /\ Goto(t, "enter", "list")
      /\ tagged' = IF tagged[tag] = Absent THEN [tagged EXCEPT ![tag] = <<>>] ELSE tagged
      /\ job' = [job EXCEPT ![t].lost = tagged[tag] # Absent]
      /\ UNCHANGED <<initialised, built, classes, todo>>

(* Mutant of AppendName: a list that others are in is not appended to.     *)
AppendFirstName(t) ==
  LET tag == Head(job[t].left)
  IN  /\ Goto(t, "list", "tags")
      /\ tagged' = IF tagged[tag] = <<>>
                   THEN [tagged EXCEPT ![tag] = <<job[t].request.name>>] ELSE tagged
      /\ job' = [job EXCEPT ![t].left = Tail(@), ![t].lost = FALSE]
      /\ UNCHANGED <<initialised, built, classes, todo>>

AppendName(t) ==
  LET tag == Head(job[t].left)
  IN  /\ Goto(t, "list", "tags")
      /\ tagged' = IF job[t].lost THEN tagged
                   ELSE [tagged EXCEPT ![tag] = Append(@, job[t].request.name)]
      /\ job' = [job EXCEPT ![t].left = Tail(@), ![t].lost = FALSE]
      /\ UNCHANGED <<initialised, built, classes, todo>>

AppendClass(t) ==
  LET r == job[t].request
  IN  /\ pc[t] = "tags" /\ job[t].left = <<>>
      /\ classes' = IF classes[r.name] = Absent THEN [classes EXCEPT ![r.name] = r.tags] ELSE classes
      /\ Return(t)
      /\ UNCHANGED <<initialised, built, tagged, todo>>

-----------------------------------------------------------------------------
(* getClassNamesWithTags: every tag that is found writes its list over the *)
(* names, which stay as they were when none is; the error is the one of the*)
(* last tag.                                                               *)
Found(tags) == {i \in DOMAIN tags : tagged[tags[i]] # Absent}

NamesWithTags(classNames, tags) ==
  IF Found(tags) = {} THEN classNames
  ELSE tagged[tags[CHOOSE i \in Found(tags) : \A j \in Found(tags) : j <= i]]

ErrorOfTags(tags) == Len(tags) \notin Found(tags)

-----------------------------------------------------------------------------
Begin(t) == CallInit(t) \/ CallRegister(t)

Step(t) ==
  \/ SetFlag(t) \/ NewSymbolTable(t) \/ NewEnvironment(t) \/ InitCaches(t)
  \/ FindExtensions(t) \/ LoadNext(t) \/ InitReturns(t)
  \/ Lookup(t) \/ LookupTag(t) \/ EnterTag(t) \/ AppendName(t) \/ AppendClass(t)

Next == \E t \in Threads : Begin(t) \/ Step(t)

Spec == Init /\ [][Next]_vars

(* A thread goes on; the loaders of extensions return.                     *)
FairSpec == Spec /\ \A t \in Threads : WF_vars(Step(t))

-----------------------------------------------------------------------------
Jobs == [request : Request \cup {Absent}, left : Seq(Tags),
         lost : BOOLEAN, back : {"idle", "load", "extensions"}]
Places == Singletons \cup {"idle", "set", "load", "extensions", "lookup", "tags", "enter", "list"}

(* Every variable has its type; there is at most one of each singleton.    *)
TypeOK ==
  /\ initialised \in BOOLEAN
  /\ built \in [Singletons -> 0..1]
  /\ classes \in [Names -> Seq(Tags) \cup {Absent}]
  /\ tagged \in [Tags -> Seq(Names) \cup {Absent}]
  /\ pc \in [Threads -> Places]
  /\ todo \in [Threads -> Seq(Request)]
  /\ job \in [Threads -> Jobs]

Needs(t) ==
  CASE pc[t] \in {"idle", "set", "symbols"} -> {}
    [] pc[t] = "environment" -> {"symbols"}
    [] pc[t] = "caches" -> {"symbols", "environment"}
    [] OTHER -> Singletons

(* TTFoundation.cpp:37-62, TTEnvironment.cpp:30 "can't use the SymbolCache *)
(* here because it hasn't been initialized yet!".  No step runs before what*)
(* it uses was created, also when an extension starts the library again.   *)
UsesWhatExists == TypeOK /\ \A t \in Threads : \A s \in Needs(t) : built[s] = 1

(* TTEnvironment.cpp:76, TTHash.cpp:28-32, TTObject.h:264-268.  A class    *)
(* that was registered keeps its name and its tags, whoever registers the  *)
(* name again and wherever the library is started again; what is listed    *)
(* under a tag stays listed.                                               *)
RegistrationsStay ==
  [][/\ \A n \in Names : classes[n] # Absent => classes'[n] = classes[n]
     /\ \A g \in Tags : tagged[g] # Absent =>
          tagged'[g] # Absent /\ Elements(tagged[g]) \subseteq Elements(tagged'[g])]_vars

(* What a search for g and h finds, and which classes carry tags.          *)
Answer(g, h) == Elements(NamesWithTags(<<>>, <<g, h>>))
Carrying(S) == {n \in Names : classes[n] # Absent /\ S \subseteq Elements(classes[n])}
Settled == \A t \in Threads : ~ Registering(t)

(* TTEnvironment.cpp:56-147.  When no registration is under way, a search  *)
(* for one tag or two names only classes that can be instantiated and carry*)
(* one of the tags, and every class that carries them all; and then it     *)
(* reports no error.                                                       *)
SearchFindsClasses ==
  Settled => \A g, h \in Tags :
    /\ Answer(g, h) \subseteq Carrying({g}) \cup Carrying({h})
    /\ Carrying({g, h}) \subseteq Answer(g, h)
    /\ Carrying({g, h}) # {} => ~ ErrorOfTags(<<g, h>>)

(* TTEnvironment.h:101-102, "the names of all registered #TTObject classes *)
(* in the environment that are associated with the given tag(s)".  The     *)
(* answer to a search for two tags has the classes of both: the union that *)
(* TTEnvironment.cpp:128 speaks of.                                        *)
SearchUnitesTags ==
  Settled => \A g, h \in Tags : Answer(g, h) = Carrying({g}) \cup Carrying({h})

(* TTFoundation.cpp:56-62.  Once started, the library comes to have all of *)
(* its own classes registered, and the call that started it returns.       *)
StartCompletes ==
  initialised ~> /\ \A i \in DOMAIN Internal : classes[Internal[i].name] # Absent
                 /\ \A t \in Threads : ~ Starting(t)

=============================================================================

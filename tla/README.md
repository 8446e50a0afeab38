# JamomaFoundation in TLA+

Specifications of the core of JamomaFoundation (`src/library/source`, `src/library/includes`): TLC checks them on small instances,
and TLAPS proves what the symbol table, the environment, the lists of observers, the registry of classes, the directory of nodes
and the values promise for any number of threads, objects, nodes, strings and sizes. Line numbers below are those of
`src/library/source` unless a header is named.

- `tlc -workers 2 -config X.cfg M` checks the module `M` under `X.cfg` (table of runs below).
- `tlapm M.tla` checks the proofs of a module `M`: `SymbolTableProofs`, `ObjectLifecycleProofs`, `ObserverListProofs`,
  `ObjectFreeingProofs`, `NodeDirectoryProofs` (about ten minutes), `DirectoryObserversProofs`, `ClassRegistryProofs`, `ValuesProofs`.

## The system

JamomaFoundation is the C++ runtime under the Jamoma audio and control libraries. Names are interned
symbols, objects are created by a registry of classes and counted by reference, objects observe each other,
and a directory gives the nodes of a tree Open Sound Control (OSC) addresses. Audio threads, user interface
threads and network threads call it.

| component | state | operations | interacts with | what is hard |
|---|---|---|---|---|
| Symbol table (`TTSymbolTable`, `TTSymbol`) | a hash map from C strings to symbols, one mutex | `lookup` (3 overloads), `dump` | everybody compares names by the pointers it returns | concurrent misses; an iterator used after the unlock; how keys are compared, which differs between platforms |
| Environment, life cycle (`TTEnvironment`, `TTClass`, `TTObject`) | per object: `valid`, `referenceCount` (16 bits), `locked` (8 bits) | `createInstance`, `referenceInstance`, `releaseInstance`, `lock`, `unlock` | notifies the observers of an object before it is freed; spins while a thread processes it | counters that are not protected; the spin; several owners; constructors that fail, and constructors and observers that call back |
| Class registry (`TTEnvironment`) | hash tables of classes and of tags, a list per tag | `registerClass`, `getAllClassNames`, `getClassNamesWithTags` | `createInstance` looks classes up; extensions register theirs | a class registered twice; results of several tags; two threads on tables without a mutex |
| Observers of an object (`TTObject`, `TTList`, `TTMutex`) | a list of watchers and its mutex | `registerObserverForNotifications`, `unregister...`, `sendNotification` | handlers are other objects' messages and may notify in turn | check-then-append in two critical sections; a mutex held during callbacks; watchers that are freed |
| OSC addresses (`TTNodeDirectory.cpp:528-753`) | none | split, merge, compare, count | the directory stores and compares addresses | levels, wildcards, instances, properties and the root |
| Node directory (`TTNodeDirectory`, `TTNode`) | a tree of nodes, a hash table from addresses to nodes, observers by address | `TTNodeCreate`, `TTNodeRemove`, `setName`, `setInstance`, `Lookup`, `LookingFor`, `IsThere`, `add/removeObserver...` | creates and releases nodes as objects, calls observers in the middle of its operations | calls that nest: creating ancestors, destroying children, observers that call back; one iterator per list of observers |
| Hash table (`TTHash`), dictionary (`TTDictionary`) | a map | `append`, `lookup`, `remove`, `getKeys` | used by all of the above | no mutex; `append` keeps an existing entry |
| Attributes and messages (`TTAttribute`, `TTMessage`, `TTObject`) | tables of getters, setters, flags and ranges | register, remove, get, set, send | values are clipped and converted | an attribute is itself an object with attributes, on which the check of its range depends; conversions on both sides of the check |
| Value (`TTValue`), limits (`TTLimits.h`) | two arrays, of types and of data, a count, a flag for strings on the heap | construct, copy, assign, `set`, `append`, `setSize`, `clear`, `clip`, comparison, conversions | arguments of every message | who owns a string; memory nobody wrote; conversions |
| Queue (`TTQueue`), thread (`TTThread`) | three parallel lists, a POSIX thread | `queueToBack`, `run` | would send messages from its own thread | the consumer is commented out; three appends that are not one |
| Initialisation (`TTFoundation`), symbol cache | a flag and the singletons | `TTFoundationInit` | before everything else | the flag is set before the singletons exist; loaded extensions start the library again |
| DataspaceLib (extension) | a hash table of units, an input and an output unit | `registerUnit`, `setInputUnit`, `setOutputUnit`, `convert` | makes units as objects by the names of their classes | units that cannot be made |
| Element (`TTDataInfo`), data object | | | | |
| Boost, libxml2, libiconv | vendored | | | |

What makes each part correct:

- *Symbol table*: one symbol per content, for all threads and for ever; distinct ids; the mutex always given back.
- *Life cycle*: an object lives exactly as long as it has owners; it is never freed under a thread that processes it; a release
  comes to its end.
- *Observers*: a watcher is registered at most once, told once by each notification, never reached after it is deleted; threads do
  not wait for each other in a circle.
- *Addresses*: splitting and merging are inverse; the comparison is the comparison of paths, level by level.
- *Directory*: the table of addresses follows the tree through every nesting of calls; nothing leaks; whoever is told of a node
  can find it; each node is announced once when it comes and once before it goes; lookups and comparisons agree on what a pattern
  matches.
- *Registry and start*: each singleton is made once and before its use; a registered class keeps its name and tags; a search by
  tags finds the classes with these tags.
- *Values*: what `clear()` deletes somebody has stored, every string is deleted, and one that is not copied belongs to one
  element; a value is an array that no operation on another value changes.
- *Attributes*: a lookup finds what was registered under a name, everything that was registered is freed once, a write leaves the
  member in its range.
- *Conversions*: `convert()` has two units.
- *Queue*: events are sent in the order of `queueToBack`, each with its own method and value.

## The modules

| module | what it is | corresponds to |
|---|---|---|
| `Interning` | abstract specification: a sequence of interned strings that only grows; a request is answered with the position of its string | what `TTSymbolTable.h:77-95` promises |
| `SymbolTable` | `lookup()` step by step: lock, find, create, insert, unlock, and the return, which still reads the iterator | `TTSymbolTable.cpp`; a C string is its content and the buffer it sits in |
| `ObjectLifecycle` | create, reference, release, lock, unlock; every `++` and `--` is a load and a store | `TTEnvironment.cpp:151-262`, `TTObject.h:236-251` |
| `ObserverList` | registrations, removals, nested notifications, freed watchers | `TTObject.cpp:357-391`, `TTList.cpp`, `TTMutex.cpp` |
| `ObjectFreeing` | creating and releasing in one thread, with constructors that fail or call the environment, and observers that are told of a release and call it, or change lists | `TTEnvironment.cpp:156-262`, `TTClass.cpp`, `TTList.cpp:98-232`, `TTObject.cpp:357-391` |
| `ClassRegistry` | the start of the library, the loading of extensions, registrations and searches by tag, by several threads, one step for each use of a hash table | `TTFoundation.cpp:34-147`, `TTEnvironment.cpp:22-148`, `TTObject.h:262-268` |
| `ValueSemantics` | abstract specification: values are sequences of items, of which a text that is copied is shared from then on | `TTValue.h:67-70` |
| `Values` | the arrays of `TTValue`, their count and flag, and the strings on the heap; implements `ValueSemantics` | `TTValue.cpp` |
| `Attributes` | attributes and their properties as objects in tables, ranges, clipping and conversion in the widths of the types | `TTObject.cpp:25-252`, `TTAttribute.cpp`, `TTValue.h:21-57`, `389-516`, `TTLimits.h` |
| `Lists` | what `TTList` does with its items: `AppendUnique`, `RemoveFirst` | `TTList.cpp:105-152` |
| `OscAddress` | the address functions as operators and recursive functions on sequences of tokens, and paths as their reference | `TTNodeDirectory.cpp:528-753` |
| `AddressTree` | abstract specification: a tree of addresses with add, prune and move | `TTNodeDirectory.h:53-76` |
| `NodeDirectory` | nodes, directory, observers and the stack of nested calls; extends `OscAddress` | `TTNodeDirectory.cpp:16-520`, `TTNode.cpp` |
| `DirectoryObservers` | the table of observers with lists that are shared by nested notifications, and observers that come, go and notify while others are told | `TTNodeDirectory.cpp:412-520`, `TTList.cpp`, `TTHash.cpp` |
| `Dataspace` | the units of a dataspace | `DataspaceLib.cpp`, `DistanceDataspace.cpp:128-146` in `src/extensions/DataspaceLib` |
| `MC...` | the instances that TLC checks | |
| `...Proofs` | the theorems about the module of that name, with their invariants and proofs | |

`NodeDirectory` uses `OscAddress` for every split and comparison and implements `AddressTree`; `SymbolTable`
implements `Interning`; `Values` implements `ValueSemantics`. `ObjectFreeing` is the composition of `ObjectLifecycle` and
`ObserverList` for one thread: what one of them holds still, calls of the other inside it change. `DirectoryObservers` is the
part of `NodeDirectory` that this one holds still: there observers come and go between the calls only.

**State and actions.** In `SymbolTable`, `ObjectLifecycle` and `ObserverList` a thread has a program counter
`pc[t]`; an action is what the code does between two points at which another thread can intervene. A
critical section of `TTList` that calls nobody is one step (`Atomically`); the walk of
`iterateObjectsSendingMessage` is not, because handlers run inside it. In `NodeDirectory` one thread is at
work (the tables have no mutex) but calls nest, and the interesting interleaving is that of a call with the
calls its observers make: `stack` holds a frame per call in progress, and a step is the code between two
nested calls. `TTNodeCreate` is `CallCreate`, `Instantiate` (split, lookup, generated instance, constructor,
`setParent`), `Attach` (`setChild`, `getOscAddress`, the entry in the directory) and `ReturnNode`;
`TTNodeRemove` is `CallRemove`, the notification, and `Erase`, which runs the destructor: `NextName`,
`DestroyChild`, `Unlink`. `notifyObservers` is `NextKey`, `Tell`, `Told`, `EveryoneTold`; while an observer
is being told (`At("notify", "callback")`) it may make any call again.

`ObjectFreeing` and `DirectoryObservers` have a stack of calls too. A frame of `ObjectFreeing` is a call of `createInstance` (step
`construct`: the constructor runs and may call, then `Construct` or `ConstructFails`; step `finish`: after the release of the old
object) or of `releaseInstance` (`Lock`, `Tell`, `Handled`, `Unlock`, `Drop`: the walk over the observers and the count); its
field `via` is the caller's pointer, or the local copy `oldObject`. A frame of `DirectoryObservers` is a notification; `GetKey`
and `LookedUp` are the reads of lines 484 and 492, whose result may be what was read a turn before, and a frame whose step is
`wild` has read what is not there. In `ClassRegistry` a thread's `pc` is the singleton it makes next, or the table or list it uses
next: the flag is tested in one step and set in another, and a tag is entered in the table before the name goes to its list. In
`SymbolTable` the result of a lookup is read through the iterator in a step after the unlock (line 57). In `ObserverList` the
`ledger` is a history: the lists with which the owner of a watcher has registered it and from which no call has taken it back yet;
only the rule `UnregisterFirst` reads it. In `Values` one operation is one step. Memory that nobody has written may read as any
type, and its data is `Wild`; the history `copied` has the strings whose pointer an operation has copied from one element to
another. In `Attributes` one operation is one step as well; `Write` is the check of the range with its conversions, then the
setter with its own.

Definitions whose comment begins with "Mutant of" are small mistakes in the definition below them. They
show, one per property, that the property would notice; no specification uses them.

**Rules of the callers.** The code leaves much to its callers. Each such assumption is a named member of a
constant `Rules`, so that a run says which ones it takes. The last column says which property TLC finds violated
when that rule alone is left out of the run of the module: none of them is there for nothing, and each marks a place
where the code itself does not protect what it promises. "Other disagreements" lists the comments that
promise it nevertheless.

| module | rule | why it is needed | without it |
|---|---|---|---|
| `ObjectLifecycle` | `Serialised`: one thread at a time is inside `createInstance`, `referenceInstance`, `releaseInstance` | the counter is not atomic | `CountersBalance` |
| | `OwnReference`: a thread processes only an object it holds a reference to | the spin looks at the lock once, and the `delete` comes later | `NoUseAfterFree` |
| | `OneProcessor`: one thread at a time processes an object | `locked` is not atomic | `CountersBalance` |
| | `ForgetReleased`: a pointer is not used after it was released | `releaseInstance` clears it only when the object goes | `CountersBalance` |
| `ObserverList` | `OneRegistrar`: one thread at a time changes a list | `appendUnique` looks and appends in two critical sections | `RegisteredOnce` |
| | `UnregisterFirst`: the owner of a watcher takes back each of its registrations, by a call that returns, before the memory goes | lists keep plain pointers, and nobody tells them | `NeverReachesDeleted` |
| | `Ordered`: handlers notify downwards only | the mutex of a list is held during handlers and is not recursive | a deadlock |
| `ObjectFreeing` | `LeaveHeldLists`: a handler calls nothing that locks the list that is walked over | as above | `CallsReturn` |
| | `KeepPointer`: a pointer is not written inside a call that was given it | lines 176-182 and 217-220 read it again | `NoUseOfFreed`, `ReplacesOld` |
| | `UnregisterFirst`: an object in a list of observers is not released | lists keep plain pointers | `NoUseOfFreed` |
| | `ForgetReleased` | as in `ObjectLifecycle` | `NothingLeaks` |
| `ClassRegistry` | `InitFirst`: nothing is called before `TTFoundationInit` has returned | the flag is set first, the singletons are made after | `UsesWhatExists` |
| | `OneAtATime`: one thread at a time is in the registry | a lookup, the entry it leads to and the name in its list are three uses of tables without a mutex | `SearchFindsClasses` |
| `Values` | `WriteFirst`: elements that `setSize` has made are set before a string joins them | with the flag up, `clear()` deletes whatever reads as a string | `StringsOwned` |
| | `AppendOneString`: `append` takes a string only where there is none yet | it writes through the pointer in the new element when the memory there reads as the type of strings (`TTValue.cpp:694`) | `StringsOwned` |
| | `ClearStringsFirst`: strings are dropped by `clear()` only | assignment and `setSize` forget them | `StringsOwned` |
| | `WithinSize`: elements are read and set below `getSize()` | nothing is checked, and a string beyond the count is never deleted | `StringsOwned` |
| `Attributes` | `RegisterOnce`: a name is registered when it is free | `append` keeps the entry that is there | `TablesOwn` |
| | `OwnMember`: no two attributes give access to one member | each checks its own range | `WritesStayInRange` |
| | `RangeFits`: a range lies in the types that it is compared with | bounds are converted to the type of the value | `WritesStayInRange` |
| | `NumericValues`: a value for a checked attribute begins with a number | other types are not clipped, and are converted after | `WritesStayInRange` |
| | `TwoSided`: the modes `cliplow` and `cliphigh` are not used | `TTLimitMin` and `TTLimitMax` change a copy | `WritesStayInRange` |
| `NodeDirectory` | `CreateElsewhere`: an observer that is being told creates only in other branches | the outer creation goes on with what it looked up before | `CreatedIsInTree` |
| | `ChangeElsewhere`: nor does it remove or rename but there | the pending call holds a pointer to its node | `FindsWhatIsTold` |
| | `RenameLeaves`: only nodes without children get another name | their children's addresses stay | `DirectoryFollowsTree` |
| `DirectoryObservers` | `KeysStay`: no key comes or goes while observers are told | the keys are read once, their number in each turn | `NothingWild` |
| | `NotUnderIterator`: an observer is not removed where an iterator stands | the item under it is erased | `NothingWild` |
| | `NotifyElsewhere`: a list that is walked over is not walked over again | the list has one iterator | `EveryObserverTold` |

The models use POSIX mutexes, which a thread cannot take twice; the critical sections of Windows (`TTMutex.cpp`) can be, and there
the rules about held lists guard against a changed list rather than a standstill.

## The runs

| run | module, cfg | checks | expected |
|---|---|---|---|
| `symbols` | `MCSymbolTable`, `Symbols.cfg` | `TypeOK`, `Interning`, `MutexReleased`, `ImplementsInterning` | pass |
| `lifecycle` | `MCObjectLifecycle`, `Lifecycle.cfg` | `NoUseAfterFree`, `CountersBalance`, `SpinTerminates` | pass |
| `observers` | `MCObserverList`, `Observers.cfg` | `RegisteredOnce`, `EveryWatcherTold`, `NeverReachesDeleted`, `NotificationsEnd` | pass |
| `freeing` | `MCObjectFreeing`, `Freeing.cfg` | `NoUseOfFreed`, `NothingLeaks`, `ReplacesOld`, `ToldBeforeFreed`, `CallsReturn` | pass |
| `registry` | `MCClassRegistry`, `Registry.cfg` | `UsesWhatExists`, `SearchFindsClasses`, `RegistrationsStay`, `StartCompletes` | pass |
| `values` | `MCValues`, `Values.cfg` | `StringsOwned`, `ImplementsSemantics` | pass |
| `attributes` | `MCAttributes`, `Attributes.cfg` | `TablesOwn`, `WritesStayInRange` | pass |
| `directory` | `MCNodeDirectory`, `Directory.cfg` | `DirectoryFollowsTree`, `NothingLost`, `NoFreedNode`, `CreatedIsInTree`, `FindsWhatIsTold`, `AnnouncedOnce` | pass |
| `directory_tree` | `MCDirectoryTree`, `DirectoryTree.cfg` | `ComparesPaths`, `SplitsAndMerges`, `LookupSelectsEqual`, `SearchFindsBelow`, `ImplementsTree`, `CallsEnd` | pass |
| `notifying` | `MCDirectoryObservers`, `Notifying.cfg` | `KeysHaveObservers`, `NothingWild`, `EveryObserverTold`, `CallsReturn` | pass |
| `dataspace_units` | `MCDataspace`, `DataspaceUnits.cfg` | `ConvertsWithUnits` | violated |
| `value_copies` | `MCValues`, `ValueCopies.cfg` (all rules) | `CopiesAreDeep` | violated |

Except in `SymbolTable`, the type invariant `TypeOK` of a module is the first conjunct of its structural invariant:
`CountersBalance`, `RegisteredOnce`, `NothingLeaks` of `ObjectFreeing`, `UsesWhatExists`, `StringsOwned`, `TablesOwn`,
`DirectoryFollowsTree`, `KeysHaveObservers`. `StringsOwned` is also `DeletesOnlyStored`, `OwnedUnlessCopied` and `NothingLeaks`,
`CountersBalance` is also `CountsOwners` and `LocksBalance`, `TablesOwn` is `FindsNamed` and `OwnedByTable`.

What they show:

- `symbols`: two threads, three strings (the empty one among them). An argument may sit in the caller's buffer or be
  the characters of a symbol. `lookup()` looks like an atomic interning service, and the mutex always comes back, where keys are
  compared by content (`ByContent`). That includes the iterator, which the thread reads after the unlock while others insert: it is
  still at its pair (the mutant `InsertInFront` moves the pairs).
- `lifecycle`: under the four rules, references and objects balance, and a release stops spinning when the
  processing ends. What keeps a processed object alive is the reference its processor holds, not the spin.
- `observers`: three threads, two lists, one handler that notifies the second list. A watcher whose owner has made one call to
  unregister it for each list it was registered with is in none when its memory goes: `appendUnique` has never entered it twice,
  and the call takes one entry. `Observers.cfg` checks for deadlock as well.
- `freeing`: three objects, three pointers, calls nested four deep. A `createInstance` that succeeds gives the caller
  the new object and lets go of the old one, observers learn of each deletion in time, no count is lost, and no call waits for a
  mutex of its own. Nothing is claimed of the order in which the two objects come and go: see "Other disagreements".
- `registry`: three threads, two internal classes and any three findings among four extensions, one of which carries the
  name of an internal class. After the first `TTFoundationInit` has returned, threads that take turns get a registry that only
  grows; loaders that start the library again find it started. A search for
  two tags names no class but those with one of the tags, and all that have both.
- `values`: all sequences of operations on two values of up to two elements over four strings, copies included, and new memory
  reading as any type. Under the rules `clear()` deletes only what somebody has stored, every string that exists has an element that
  will delete it, one whose pointer was never copied has exactly one, and the arrays behave as sequences. After a copy the model
  says of the text only that it is `Shared`; all other elements stay exact. What `transformCSVStringToSymbolArray` splits comes
  back with its words in reverse order, which is what the code does.
- `attributes`: one object, two names, two members and up to four attributes and properties, of types with and without a
  sign; values around the ends of ranges and types, and ranges set, switched and removed as properties in any order.
- `directory`, `directory_tree`: all interleavings of creations, removals, renames and observer changes with those that observers
  make from inside a notification. `directory_tree` asks what addresses match, first of the functions by themselves: every pair of
  addresses of up to three levels from six kinds of level (two names, an instance, wildcards for a name and for an instance) with
  and without a property, which is no question of states and is answered once; then, in each state between the calls, of the
  addresses of all nodes, of every lookup of a pattern, and of every search for the nodes of a name below what it selects.
- `notifying`: two observers, three keys, two addresses that are notified about, and all that observers may do while being told.
- `dataspace_units`: `registerUnit` hands the hash table a pointer to a value where it takes a value. The table then holds an
  element of type pointer, `setInputUnit` reads no class name from it, and after the construction of a dataspace, or any number of
  attempts to set its units, `convert()` reads through NULL.
- `value_copies`: `TTValue.h:145-146`, "Performs a deep copy of the object". `TTValue.cpp:239-248` copies the pointers of strings,
  so that two values point at one string, and both delete it. The passing run `values` has the same copies, and claims nothing of
  the texts that they share.

**Bounds.** Two threads are enough for each race of the symbol table and of the life cycle, which are between two accesses; the
observer lists get a third, so that a thread can wait while two others hold and nest. `MaxSymbols` (9) is never reached when keys
are compared by content: the run is complete for three strings. `MaxSpare` (2) allows up to four references to an object.
`MaxNesting` (2) nests a lock in a lock. `RefLimit` and `LockLimit` are the code's widths. An object's memory is used once, so
that a dangling pointer is seen as such. `MaxLen` (2) holds a list with a walk that goes on after a nested one. In the directory
`MaxNodes` (4) gives the root, a node with a child, and a second instance; a branch can be created, go and come back, because the
bound counts creations; `MaxNesting` (1) lets observers call the directory and those calls notify in turn, once more. In
`ObjectFreeing` `MaxDepth` (4) is a creation that releases its old object, whose observer releases another one, whose observer
creates; an object's memory is used once, so the run ends when all three are used (`CHECK_DEADLOCK FALSE`). `MaxLists` (3) gives
each key a list; in the runs without `KeysStay` one of them may be walked over while nobody has it any more. `MaxDepth` (2) in
`DirectoryObservers` is a notification in a notification, and `MaxFound` (3) extensions let one be found twice with another
between. In `Values` four strings are as many as two values of `MaxSize` (2) elements can hold; two elements are a string beside
another, or beside memory that nobody has written, and the words of a text. In `Attributes` the 8-bit types show every wrap that
the wider ones have, and `int16` values lie outside both; four objects are two attributes with a property each. In `OscAddress`
three levels (`MaxLevels`) are one more than the comparison treats apart (equal prefix, first difference, rest).

**Fairness.** `SymbolTable`, `ObserverList`: weak fairness of each thread's steps inside a call, since a running thread goes on;
nobody is obliged to call. That is enough because a mutex that is free for good is taken, and the properties (`MutexReleased`,
`NotificationsEnd`) need no fair mutex: the one that holds it can always go on, or, in `NotificationsEnd`, new notifications stop
coming. `ObjectLifecycle`: the same for calls, and processing ends sometime (an audio vector is finite); `SpinTerminates` asks for
the end of the spin only where processing has stopped for good. `ObjectFreeing`, `DirectoryObservers`: weak fairness of `Step`,
the code between two calls of a handler; nobody is obliged to call, and `CallsReturn` asks for an end only where handlers stop to
call. `ClassRegistry`: weak fairness of each thread's steps; loaders return. `NodeDirectory`: a call in progress goes on and
observers return; it is written as "infinitely often no call is in progress, or infinitely many steps are taken", which is weak
fairness of `Step` as a step is enabled exactly while a call is in progress (the absence of deadlock is checked in the same run).

## Proofs

Each theorem is `premises => (Spec => property)` (or the premises are its `ASSUME`), for every value of the constants that the
module's named assumption allows. The premises are rules of the callers (table above): a theorem takes the rules it needs, and TLC
finds its property violated without each of them, with one exception: `ImplementsSemantics` holds without `AppendOneString` in the
run, and takes it through the invariant that it shares with `StringsOwned`. In every module the argument is the same: an inductive
invariant `IInv`, a conjunction of named parts, is implied by `Init`, kept by each action, and implies the property; action
properties follow from what each action does in a state of `IInv`. TLC checked each `IInv` on the instance of the module's run
before it was proved; that of `NodeDirectory` on the instance of `directory_tree`, and on that of `directory` with three nodes
instead of four.

| module | theorem | property | premises |
|---|---|---|---|
| `SymbolTableProofs` | `TypeCorrect` | `TypeOK` | none |
| | `InterningHolds` | `Interning` | keys are compared by content |
| | `UniqueIdsHold`, `AnswersInTableHolds` | `UniqueIds`, `AnswersInTable` | the same |
| | `ImplementsInterningHolds` | `ImplementsInterning` | the same |
| `ObjectLifecycleProofs` | `NoUseAfterFreeHolds`, `CountersBalanceHolds` | `NoUseAfterFree`, `CountersBalance` | all four rules |
| `ObserverListProofs` | `RegisteredOnceHolds`, `EveryWatcherToldHolds` | `RegisteredOnce`, `EveryWatcherTold` | `OneRegistrar` |
| | `NeverReachesDeletedHolds` | `NeverReachesDeleted` | `OneRegistrar`, `UnregisterFirst` |
| | `NoStandstillHolds` | `NoStandstill`: while a list is locked, some thread that holds one can go on | `Ordered` |
| `ObjectFreeingProofs` | `NoUseOfFreedHolds`, `NothingLeaksHolds`, `ReplacesOldHolds`, `ToldBeforeFreedHolds` | the properties of these names | all four rules |
| `DirectoryObserversProofs` | `KeysHaveObserversHolds` | `KeysHaveObservers` | none |
| | `NothingWildHolds` | `NothingWild` | `KeysStay`, `NotUnderIterator` |
| | `EveryObserverToldHolds` | `EveryObserverTold` | all three rules |
| `NodeDirectoryProofs` | `AlwaysFollowsTree`, `AlwaysLosesNothing`, `AlwaysFreesNoNode` | `DirectoryFollowsTree`, `NothingLost`, `NoFreedNode` | all three rules |
| | `AlwaysCreatesInTree`, `AlwaysFindsWhatIsTold`, `AlwaysAnnouncedOnce` | `CreatedIsInTree`, `FindsWhatIsTold`, `AnnouncedOnce` | all three rules |
| | `DirectoryImplementsTree` | `ImplementsTree` | all three rules |
| | `AlwaysSound` | `IInv`, from which the others follow | all three rules |
| `ClassRegistryProofs` | `UsesWhatExistsHolds`, `RegistrationsStayHolds` | `UsesWhatExists`, `RegistrationsStay` | `InitFirst` |
| | `SearchFindsClassesHolds` | `SearchFindsClasses` | `InitFirst`, `OneAtATime` |
| `ValuesProofs` | `StringsOwnedHolds` | `StringsOwned` | all four rules |
| | `ImplementsSemanticsHolds` | `ImplementsSemantics` | all four rules |

The type invariants are first conjuncts of structural ones (see "The runs"), so that `CountersBalanceHolds`,
`RegisteredOnceHolds`, `NothingLeaksHolds`, `KeysHaveObserversHolds`, `AlwaysFollowsTree`, `UsesWhatExistsHolds` and
`StringsOwnedHolds` contain type correctness.

**`SymbolTable`.** `Interning` is not inductive by itself: that the next lookup of a content finds the symbol depends on the
table, and that no symbol is made twice on the mutex. The parts of the invariant:

- `TypeInv`: the types; an entry points at a symbol that exists, and so does the new symbol of a thread about to insert; a kept
  iterator is at an entry;
- `MutexInv`: a thread is between lock and unlock exactly if it owns the mutex, so that there is one at most;
- `TableInv`: the table lists the symbols in the order of their ids, each under its own content; no two symbols have the
  same content; at most the last symbol is not in the table yet, and only while a thread is at `insert`;
- `ThreadInv`: at `create` no symbol has the content asked for; at `insert` the thread holds the last symbol, which has that
  content; after that it holds an entry of the table with that content, also when it has given back the mutex and others insert
  (`ResultKept`);
- `AnswersInv`: an answer's symbol is in the table and has the content that was asked for.

The refinement of `Interning` has one lemma per kind of step. A symbol that `Create` has made is not in the table, and the map to
`Interning` reads symbols through the table only, so that `Create` is a stutter (`CreateStutters`); `Insert` appends a content that
no entry has (`InsertInterns`, from `ThreadInv` and `TableInv`); `Return` answers with the position of the content, which is its
symbol's id plus one (`ReturnAnswers`); the other steps touch nothing of it (`OtherSteps`). `UniqueIds` and `AnswersInTable`
have no run of their own: what a caller sees of them follows from the refinement, which TLC checks.

**`ObjectLifecycle`.** That the counters balance "between the calls" says nothing of a thread that has loaded a counter and
not stored it, nor of `createInstance`, which releases one object while it holds another. The invariant counts *whose* reference
is in the count of an object at each point of a call (`Counts`): a live object has as many as there are threads that
count, and spare ones (`OwnerInv`). To keep that, it needs what a thread in a call points at (`PlaceInv`), that a loaded value is
still the stored one, as one thread at most is in the environment (`AloneInv`), and the same for the lock, whose value is the
depth of its only processor modulo its width (`LockInv`, `DepthInv`). `CountUp` and `CountDown` prove, for any width, that
counting up and down by one gives the number modulo the width. The assumption says that the references fit in the counter (`MaxSpare +
Cardinality(Threads) < RefLimit`); nothing is assumed of the depth of locks.

**`ObserverList`.** The rules are not premises of the invariant, but of its parts (`OnceInv`, `LedgerInv`, `OrderInv`), so that
each theorem has only the rules it needs. The rule `UnregisterFirst` says nothing of lists: the owner of a watcher knows the calls
it has made, and frees the memory when each registration was followed by a call to unregister. That no list holds the watcher then
is what has to be shown. `Accounted` says that whatever is in a list or on its way into one is in the owner's record, and that a
record which is not empty is that of a watcher that is not deleted. It is kept because a returning removal, which takes out one
entry, has taken out the only one: that is `OnceInv`, and so this theorem needs `OneRegistrar` too. `WalkInv`, which needs none,
is what the mutex gives: a list that is walked over is locked by the walking thread, each list by one frame of one stack, and a
mutex that is taken belongs to a walk. `ToldInv` says what a walk has told so far. `NoStandstillHolds` takes the locked list of
the lowest level: `OrderInv` says that levels fall along each stack, so that its holder, if it waits at all, waits for a list of a
lower level still, which nobody holds. It is the safety half of `NotificationsEnd`; TLC's check for deadlocks looks for the same
thing.

**`ObjectFreeing`.** Between two steps of a call of `createInstance` or `releaseInstance` any handler or constructor may run,
and calls nest to any depth. So the invariant speaks of every call on the stack:

- `StackInv` has what a waiting call relies on when it goes on (`CallOK`): its pointer still holds the object, which is
  live; an object under construction is in nobody's slot; what is released is in nobody's list; the mutex is held around the
  walk, and whoever is valid and behind the iterator was told;
- it has what a call inside another may be (`Inside`, for any two, and `Directly`, for neighbours): pointers differ, no list is
  walked over twice, only the release of the old object runs directly inside `finish`;
- `CountInv` counts slots and calls: a constructor and the local `oldObject` hold a reference that is in no slot;
- `HeapInv`: slots and lists of live objects hold live objects;
- `DepthInv`: the release inside `createInstance` is no call of a handler, and goes one beyond `MaxDepth`, which bounds the count.

The last two theorems are about steps. `CreateReturns` shows that a `createInstance` at `finish` returns by `Finish` only, and
`TopOK` is what this step finds: the caller's pointer has the new object, and the old one was released.

**`DirectoryObservers`.** As in `ObserverList`, the rules are premises of the parts of the invariant that need them. That each key
has a list of its own (`TableOK`) needs none, as the list of a new key is one that neither the table nor a walk has. The other
parts, for every notification on the stack:

- `TurnOK`: a turn takes one key of those that were read, and under `KeysStay` the turns that were made and the keys that remain
  are together as many as the table has: behind the last key the loop is at its end, though its end is computed anew in each turn;
- `StackOK`: all notifications but the innermost wait for an observer, and what that one tells next is there, because nobody comes
  between the two steps;
- `IterInv`: under `NotUnderIterator` no iterator is lost, also of lists that no one walks over;
- `Telling`, under all rules: whoever is due was told, or its key is still to come, or the walk is before it (`DueOK`); whoever
  was told is registered, and the walk is past it (`ToldOK`); of two notifications the inner one matches no key that the outer one
  is at.

That every position keeps its side of the iterator when somebody is added, removed before it or behind it, or told is one lemma
each (`FrameAdded`, `FrameRemoved`, `FrameTold`, `FrameTurned`, `FrameEntered`, `FrameMoved`). TLC checked this invariant with no
rule, each rule of `NothingWild` alone, both, and all.

**`NodeDirectory`.** Between two steps of a call, observers make other calls, which nest in turn, and every call in progress holds
pointers to nodes and addresses that it has split before. The invariant `Sound` has five parts:

- `TreeOK`: the linked nodes, which are those announced and not freed, are a tree: each is in the table of its parent under its
  own name and instance, what a table has is such a node, and there is a rank that falls from child to parent. The rank makes the
  recursive function `OscAddressIn` well defined; that distinct nodes have distinct addresses (`AdrInjective`) follows from the
  tables;
- `DirOK`: the directory maps addresses to linked nodes with that address;
- `Chain`: what each call on the stack relies on. `Base` has what it needs whatever is nested in it (the node of a removal is
  linked, a created node has the parent that was asked for), `Nested` and `Related` which call may sit directly in which and what
  they share (a destructor that waits has its child's removal in it, with the names of all other children still to come), and
  `Apart` is for any two of them: what is created inside a call is not at or below its address, and what is removed not at or
  above it. `CreateElsewhere` and `ChangeElsewhere` keep this one, and `Base` is not kept without it;
- `TopOK`: what holds of the innermost call only, because calls inside it may change it;
- `Accounted`: a live node that the directory lacks is in the hands of one call, a destructor or a creation, and a node
  was announced as destroyed exactly if it is freed or its removal is under way.

`ObsOK` adds that a walk over observers finds its keys, as no observers come or go during one in this module. The proof has a
lemma for each way in which the nodes change (a child is entered, a node is cut off, freed, renamed): what becomes of the tree and
of every address. `RenameLeaves` is used there: without children nobody else's address changes.

For the refinement, an address counts as long as no removal whose destructor is at work is above it (`Visible`). The whole branch
goes in the step in which `Erase` starts the destructor: that is `Prune`. What the destructor does then, from child to child, is
hidden, as `Chain` has all of it below the node of that removal, and its last step erases what is not seen any more. `Attach` is
`Add`, a renaming is `Move`, all other steps change nothing that is seen.

The rules speak of addresses that `compareOSCAddress` calls different, and the proof needs that neither of two such addresses is
at or below the other: `DifferentApart`, for all addresses, with wildcards or without. `FirstDifference`, `CompareOSCAddress` and
`OscAddressIn` are recursive functions: that there is one with the equation of its definition is a lemma (`Recursion`), proved
with the functions on ever longer arguments, and facts about all addresses are proved with one of least length that would
contradict them (`Least`).

The assumptions are those of the instances. `NodeDirectoryAssumption`: the addresses that callers ask for are paths of words with
or without an instance, so that no request holds a wildcard, a property or an empty level; there are as many numerals as the nodes
that the bound allows; new names and instances are single words. `PlacesAssumption`: `Places`, which stands for all addresses that
can come up, has the parents of its addresses and what renaming and numbering make of them.

**`ClassRegistry`.** `StartInv`: one thread starts the library, the singletons are made in order and are all there when others may
call; the flag is down only before the step `set`, and a registration under way keeps the start from happening again. `JobInv`: a
list is `lost` only between its entry in the table, which had got another, and the append. `KeptInv`: a list that a registration
has found or entered is still there when it appends. Under `OneAtATime`, `AgreeInv` compares the two tables for a registration
that is half done: the tags it has entered are a prefix of its tags (`Remain`, `Entered`), and the list of a tag (`ListOf`, none
being as good as an empty one) has the classes that carry it, those counted that far.

**`Values`.** Nothing is assumed of new memory: in every step that makes elements it may read as a string. `FormInv` has what the
operations rely on: where the flag `stringsPresent` is up there is a string, and every element was set by somebody, so that all
that `clear()` follows is a string's pointer. `OwnInv` has three parts: a string that was not copied exists, in a value that will
delete it (`LiveInv`), it has one holder (`OnceInv`), and every string that exists, copied or not, has a holder that will delete
it (`HolderInv`). Three lemmas say how an operation may change the owners: a value keeps its strings, and what it gets besides has
been copied (`OwnKeep`); it loses them all (`OwnNone`); or it gets a new one (`OwnMore`). Each operation is one of these; copying
(`Copying`) is the first. In the refinement of `ValueSemantics` elements are read through the heap: what another value holds stays
as it is, because a string that is written or deleted belongs to this value alone, or was copied and reads as `Shared`.

**Lemmas.** What a list holds after `AppendUnique` and `RemoveFirst`, and where (`Appended`, `Removed`, `ElementsAdded`,
`ElementsRemoved`), and how a stack looks after a push, a pop and a change of its top (`Push`, `Pop`, `Retop`), stand at the head
of each module that uses them.

**Assumptions.** A module's assumption on its constants is named in the module and evaluated by TLC in its run:
`SymbolTableAssumption`, `LifecycleAssumption` (threads are finitely many, the references fit the counter), `ObserverAssumption`
(forwarding leads to lists or nowhere), `FreeingAssumption` (pointers are finitely many), `ObserversAssumption` (keys are finitely
many, and `NoKey` is none), `NodeDirectoryAssumption` and `PlacesAssumption` (below), `RegistryAssumption` and `ValuesAssumption`
(marks such as `Absent` are none of the things they stand for; a text has words, and no more than a value may hold), and that
bounds are numbers.

**Only model-checked.**

- Liveness (`MutexReleased`, `SpinTerminates`, `NotificationsEnd`, `CallsEnd`, `CallsReturn`, `StartCompletes`) is outside the
  reach of the prover, and so is `ENABLED`.
- What recursive functions compute for all inputs: `ComparesPaths` and `SplitsAndMerges` of `OscAddress`; `LookupSelectsEqual` and
  `SearchFindsBelow` of `NodeDirectory`, which compare lookups by the tree with these functions; the destruction of nested
  attributes in `Attributes`. The library's rules of induction cannot be used with the installed provers, and each such proof
  needs its own way around them, as `DifferentApart` does, which is all that the proof about `NodeDirectory` needs of
  `compareOSCAddress`.
- `WritesStayInRange` is arithmetic on concrete widths; the run has all values of the types around their ends.
- `TablesOwn` of `Attributes`: not proved yet (plan below).

## Other disagreements between comments and code

Those that a run shows are listed with the runs. The others, seen while modelling; the models follow the code. For the first ones
the parentheses say what to change in the module's cfg, the rule to leave out of `Rules` or the invariant to add, and what TLC
finds violated then.

- `TTSymbolTable.h:60-61` declares a `map<const char*, ...>` without a comparator for Linux: the same content in a caller's buffer
  is not found again and gets a second symbol, against `TTSymbolTable.h:81` (`ByContent = FALSE`, `Interning`). All other modules
  assume the comparison by content of the other builds.
- `TTEnvironment.h:112-114`, an existing object is freed prior to instantiating: `TTEnvironment.cpp:168-178` does it after, so
  that it is there while the constructor of the new one runs, and stays when this one fails (`FreedBeforeInstantiating` as
  invariant). `ReplacesOld` says what both have in common.
- `TTEnvironment.h:101-102` promises the classes of the given tags, and `TTEnvironment.cpp:128` speaks of a union: each tag writes
  its list over that of the tag before (142), and the error is that of the last (`SearchUnitesTags` as invariant).
  `SearchFindsClasses` says what remains true.
- `TTList.h:27` promises protection from other threads, and `TTList.cpp:105-111` looks and appends in two critical sections: two
  threads append the same watcher (`OneRegistrar`, `RegisteredOnce`).
- `TTNode.cpp:165-166`, `183`, the addresses of all descendants are replaced: line 186 compares what follows the old address with
  a separator alone, so that `setName` of a node with children leaves its children's old addresses in the directory
  (`RenameLeaves`, `DirectoryFollowsTree`).
- `TTValue.cpp:206` wants arrays to be built with `append()`: where there is a string already, `append()` of a second may write
  through, and `clear()` delete, a pointer that nobody has stored (`AppendOneString`, `StringsOwned`).
- `TTValue.h:92` announces special handling for strings when it is time to free them: `setSize()` and the assignments drop them
  without it (`ClearStringsFirst`, `StringsOwned`).
- `TTAttribute.h:78`, "the value should be checked for range and modified accordingly": `cliplow` and `cliphigh` call
  `TTLimitMin` and `TTLimitMax` (`TTLimits.h:88-126`), which change their own copy (`TwoSided`, `WritesStayInRange`).
- `TTEnvironment.cpp:211-213`, the spin protects an object that another thread processes: the lock may be taken between the last look
  (214) and the `delete` (219) (`OwnReference`, `NoUseAfterFree`).
- `TTEnvironment.cpp:206` asserts a valid object: `releaseInstance` clears `valid` (208) before it looks at the count (218), so
  that the second of two owners meets the assertion. In the same way `objectFreeing` is sent (209) while references remain.
- An observer that is told of the creation of `/a`, as the missing parent of `/a/b`, and creates `/a/b` itself: the outer call
  returns a node that neither the tree nor the directory holds (`CreateElsewhere`, `CreatedIsInTree`).
- `TTNodeDirectory.h:150-151` says that an explicit instance that exists is returned; `TTNodeDirectory.cpp:148-170`
  creates another node with a generated instance.
- `TTNodeDirectory.h:159`, `nodeCreated` "true if a TTNode have been created": lines 146 and 155 set it when an instance
  was generated.
- `TTNodeDirectory.h:120-121`, the first node found: with wildcards line 285 writes it to the local pointer, and the caller
  keeps what the lookup of the parent returned; so does line 349 in `LookingFor`, for good.
- `TTNodeDirectory.h:183`, the node is NULL for a destruction: line 228 passes it.
- `TTNodeDirectory.h:200-205` writes the upper part of a divided address as `/part1`: `TTNodeDirectory.cpp:545` leaves it the
  slash at which it is divided, `/part1/`.
- `TTNodeDirectory.cpp:501`: `data` is not cleared between observers, so that the fourth element that each of them reads is the
  first observer.
- `DataspaceLib.h:76`, a unit gets its name as an argument: `DataspaceLib.cpp:67` clears the argument, and line 14 reads nothing
  into `name`.

## Not modelled, and why

- The text of names: a name is a token. Formatting (`"%u"` of an instance) is a sequence of numerals.
- Floating point, which TLC does not evaluate: the conversions of the DataspaceLib, folding and wrapping in `TTLimits.h`, `round`,
  and floating types of values and attributes.
- `TTValue`: comparison, `toString` (which leaks the string it makes, `TTValue.h:561`) and `fromString`; the wrap of the 16-bit
  count after 65535 elements, beyond any bound of a run.
- Attributes with getters, callbacks and setters of subclasses, and their flags; messages, a table with the operations of that of
  attributes and no ranges.
- `TTQueue` appends the addresses of its own local variables to three lists, and the loop that would serve them is commented out;
  `TTThread` has no other user. There is nothing they promise that the code could keep.
- `TTDictionary` is a `TTHash` with two reserved keys, and has no user. A `TTHash` that two threads tear inside one operation is
  undefined; `ClassRegistry` has what two threads do between operations.
- The destruction of a directory and a creation at the root's address: both read the parent of the root, which is NULL
  (`TTNode.cpp:84`, `TTNodeDirectory.cpp:154`). A directory shared by threads; addresses without a leading slash, which
  every operation refuses; test functions of a search that change the tree.
- Access to the file system, logging, `dump`, the symbol cache, the data object: no state that matters here.
- Vendored libraries: almost all of the lines of the repository are Boost, libxml2 and libiconv. The repository's own code is
  11,000 lines.

## Plan

Done: `SymbolTable` with its proofs, `ObjectLifecycle`, `ObserverList`, `OscAddress`, `NodeDirectory`, in this order: names first,
because everything compares them, then the objects, then who watches them, then the tree built from them. Then what holds between
them: `ObjectFreeing`, `DirectoryObservers`; what they are made of: `Values`, `Attributes`; how they come to be: `ClassRegistry`;
and an extension that uses them: `Dataspace`.

Next modules: messages beside `Attributes`; a search in the directory whose test function changes the tree.

Next theorems, in this order:

1. `Attributes`: `TablesOwn`, from a tree of owners, with the set of what is destroyed as a least fixed point in place of the
recursive function.
2. `NodeDirectory`: `SearchFindsBelow`, from the comparison of paths and the tree of nodes, which are proved.
3. `OscAddress`: `SplitsAndMerges`, by induction over the levels of an address.

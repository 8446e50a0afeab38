------------------------ MODULE MCDirectoryObservers ------------------------
(* Small instances of DirectoryObservers for TLC.                          *)
EXTENDS DirectoryObservers

(* What is notified about /a/b interests those who observe it or /a.       *)
MCKeys == {"/a", "/a/b", "/c"}
MCAddresses == {"/a", "/a/b"}
MCMatching == [address \in MCAddresses |->
  IF address = "/a/b" THEN {"/a", "/a/b"} ELSE {address}]

AllRules == CallerRules
=============================================================================

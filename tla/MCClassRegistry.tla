--------------------------- MODULE MCClassRegistry ---------------------------
(* Small instances of ClassRegistry for TLC.                               *)
EXTENDS ClassRegistry

AsRequest(name, tags) == [name |-> name, tags |-> tags]

(* "node, tree, directory" is cut from behind; an extension takes the name *)
(* of a class that exists, another one repeats a tag.                      *)
MCInternal == <<AsRequest("Node", <<"node">>), AsRequest("NodeDirectory", <<"tree", "node">>)>>
MCExternal == {AsRequest("Node", <<"sound">>), AsRequest("Osc", <<"sound", "tree">>),
               AsRequest("Filter", <<"sound", "sound">>),
               AsRequest("Plain", <<"plain">>)}

AllRules == CallerRules
=============================================================================

---------------------------- MODULE MCAttributes ----------------------------
(* Small instances of Attributes for TLC.                                  *)
EXTENDS Attributes

Is(type, n) == [type |-> type, data |-> n]

(* A symbol, nothing, and numbers around the bounds of the ranges and of the types.               *)
MCInputs == {<<>>, <<Is("symbol", "x")>>, <<Is("uint8", 200)>>, <<Is("int16", 300)>>,
             <<Is("int8", -1), Is("int16", 2)>>}

MCSettings == [p \in Properties |->
  CASE p = "readOnly" -> {<<Is("boolean", 0)>>, <<Is("boolean", 1)>>}
    [] p = "range" -> {<<Is("int16", 2), Is("int16", 100)>>, <<Is("int16", 150), Is("int16", 250)>>,
                       <<Is("int16", 0)>>}
    [] OTHER -> {<<Is("symbol", mode)>> : mode \in {"clip", "cliplow", "cliphigh"}}]

AllRules == CallerRules
Symmetric == Permutations(Memory) \cup Permutations(Addresses)
=============================================================================

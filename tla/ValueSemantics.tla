--------------------------- MODULE ValueSemantics ---------------------------
(***************************************************************************)
(* What a TTValue gives its users (library/includes/TTValue.h): a value is *)
(* an array of elements of its own, and an operation changes the value it  *)
(* is called on.  The one exception is a text that has been copied: from   *)
(* then on it is Shared, in the source as in the copy, and nothing is said *)
(* of what it reads as; new texts may be stored where a shared one was.    *)
(***************************************************************************)
EXTENDS Sequences, SequencesExt

CONSTANTS
  Values,    (* the names of values, variables of the callers              *)
  Words,     (* plain data                                                 *)
  Texts,     (* contents of strings, sequences of words                    *)
  Unset,     (* an element that setSize has made and nobody has set        *)
  Shared,    (* a text that more than one element may refer to             *)
  Absent,    (* a value that is not constructed                            *)
  MaxSize    (* bound: the number of elements                              *)

VARIABLES
  val,       (* the elements of each value                                 *)
  lost       (* whether a text has ever been shared                        *)

view == <<val, lost>>

Init == val = [v \in Values |-> Absent] /\ lost = FALSE

Here == {v \in Values : val[v] # Absent}
Becomes(v, seq) == val' = [val EXCEPT ![v] = seq] /\ UNCHANGED lost

(* What a caller stores, and what an element has when it is copied.        *)
Storable == Words \cup Texts \cup (IF lost THEN {Shared} ELSE {})
Given(x) == IF x \in Texts THEN Shared ELSE x

Construct(v) ==
  /\ v \notin Here
  /\ \E seq \in {<<>>} \cup {<<x>> : x \in Storable} : Becomes(v, seq)

Assign(v) == \E seq \in {<<>>} \cup {<<x>> : x \in Storable} : Becomes(v, seq)

Set(v) == \E i \in DOMAIN val[v], x \in Storable : Becomes(v, [val[v] EXCEPT ![i] = x])

AppendTo(v) ==
  /\ Len(val[v]) < MaxSize
  /\ \E x \in Storable : Becomes(v, Append(val[v], x))

Copy(v, w) ==
  LET seq == [i \in DOMAIN val[w] |-> Given(val[w][i])]
  IN  /\ val' = [val EXCEPT ![w] = seq, ![v] = seq]
      /\ lost' = (lost \/ \E i \in DOMAIN val[w] : val[w][i] \in Texts)

AppendFirst(v, w) ==
  /\ val[w] # <<>> /\ Len(val[v]) < MaxSize
  /\ LET x == Given(Head(val[w]))
         source == <<x>> \o Tail(val[w])
     IN  val' = [val EXCEPT ![w] = source, ![v] = Append(IF v = w THEN source ELSE @, x)]
  /\ lost' = (lost \/ Head(val[w]) \in Texts)

Resize(v) ==
  \E n \in 0..MaxSize :
    Becomes(v, [i \in 1..n |-> IF i <= Len(val[v]) THEN val[v][i] ELSE Unset])

(* A list of words in the first element becomes its words, the last first. *)
Transform(v) ==
  /\ val[v] # <<>>
  /\ \E text \in Texts : Head(val[v]) \in {text, Shared} /\ Becomes(v, Reverse(text))

Destroy(v) == Becomes(v, Absent)

Next ==
  \/ \E v \in Values : Construct(v)
  \/ \E v \in Values, w \in Here : Copy(v, w)
  \/ \E v \in Here :
       \/ Assign(v) \/ Set(v) \/ AppendTo(v) \/ Resize(v) \/ Transform(v)
       \/ Destroy(v)
  \/ \E v, w \in Here : AppendFirst(v, w)

Spec == Init /\ [][Next]_view
=============================================================================

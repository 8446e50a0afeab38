------------------------------ MODULE Dataspace ------------------------------
(***************************************************************************)
(* A dataspace of the extension DataspaceLib: the table of its units, the  *)
(* two units it converts between, and the classes that the extension       *)
(* registers (extensions/DataspaceLib/DataspaceLib.cpp and, as an example, *)
(* DistanceDataspace.cpp).  What the units compute is left out.            *)
(***************************************************************************)
EXTENDS FiniteSets

CONSTANTS
  Units,         (* names of units, such as "cm" and "centimeters"         *)
  ClassOf,       (* [Units -> names of unit classes]                       *)
  NeutralUnit,
  Loaded,        (* the names of the classes that loadTTExtension registers*)
  EmptySymbol,   (* TT("")                                                 *)
  NULL

VARIABLES
  unitHash,    (* the values stored under the names of units               *)
  inUnit,      (* the class of the unit object, or NULL                    *)
  outUnit,
  converting   (* convert() has been called                                *)

vars == <<unitHash, inUnit, outUnit, converting>>

-----------------------------------------------------------------------------
(* registerUnit appends a TTValuePtr where append takes a TTValue: the     *)
(* constructor of TTValue that fits is the one for pointers.               *)
RegisteredUnit(u) == [type |-> "pointer", data |-> ClassOf[u]]

(* TTSymbolPtr(v): a value of another type gives the empty symbol.         *)
AsSymbol(v) == IF v.type = "symbol" THEN v.data ELSE EmptySymbol

(* TTObjectInstantiate keeps the old unit when it does not know the class. *)
Instantiated(class, old) == IF class \in Loaded THEN class ELSE old

(* setInputUnit and setOutputUnit.  The names that a unit is compared by   *)
(* are not modelled: no unit ever has one.                                 *)
SetUnit(u, old) == Instantiated(AsSymbol(unitHash[u]), old)

(* The constructor registers the units and sets the neutral one twice.     *)
Init ==
  /\ unitHash = [u \in Units |-> RegisteredUnit(u)]
  /\ inUnit = Instantiated(AsSymbol(RegisteredUnit(NeutralUnit)), NULL)
  /\ outUnit = Instantiated(AsSymbol(RegisteredUnit(NeutralUnit)), NULL)
  /\ converting = FALSE

SetInputUnit(u) ==
  /\ ~ converting
  /\ inUnit' = SetUnit(u, inUnit)
  /\ UNCHANGED <<unitHash, outUnit, converting>>

SetOutputUnit(u) ==
  /\ ~ converting
  /\ outUnit' = SetUnit(u, outUnit)
  /\ UNCHANGED <<unitHash, inUnit, converting>>

(* convert() reads the name of both units and lets them convert.           *)
Convert ==
  /\ ~ converting
  /\ converting' = TRUE
  /\ UNCHANGED <<unitHash, inUnit, outUnit>>

Return ==
  /\ converting /\ inUnit # NULL /\ outUnit # NULL
  /\ converting' = FALSE
  /\ UNCHANGED <<unitHash, inUnit, outUnit>>

Next ==
  \/ \E u \in Units : SetInputUnit(u) \/ SetOutputUnit(u)
  \/ Convert
  \/ Return

Spec == Init /\ [][Next]_vars

-----------------------------------------------------------------------------
(* DataspaceLib.h:124 "converts input to output, possibly doing a unit     *)
(* conversion": convert() has two units to read.                           *)
ConvertsWithUnits == converting => inUnit # NULL /\ outUnit # NULL

=============================================================================

----------------------------- MODULE MCDataspace -----------------------------
(* Dataspace with the units and classes of the extension, for TLC.         *)
EXTENDS Dataspace, Sequences

MCClassOf == [u \in Units |->
  CASE u \in {"cm", "centimeters"} -> "unit.centimeter"
    [] u \in {"inches"} -> "unit.inch"
    [] OTHER -> "unit.meter"]

MCLoaded == {"dataspace." \o x : x \in {"angle", "color", "distance", "gain", "none",
                                        "pitch", "position", "temperature", "time"}}
=============================================================================

--------------------------------- MODULE MCDom ---------------------------------
(* A small instance of DomChecked: documents of five values at most.  The  *)
(* short keys are as long as the reader allows, the other one byte longer. *)
EXTENDS DomChecked

CONSTANTS Short, Long

MCKeys == Short \cup {Long}
MCKeyLength == [k \in MCKeys |-> IF k = Long THEN MaxIdentifier + 1 ELSE MaxIdentifier]
MCDenotes == [s \in Spellings |-> IF s = "mtr" THEN "metre" ELSE "second"]
MCDressings == {[unit |-> "metre", src |-> "mtr"], [unit |-> "second", src |-> "s"]}
MCPlainest == [unit |-> "metre", src |-> "mtr"]
MCSymmetry == Permutations(Short)
=============================================================================

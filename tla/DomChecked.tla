------------------------------ MODULE DomChecked ------------------------------
(***************************************************************************)
(* A document told to the builder and checked once it is whole: the shape  *)
(* check (DomShape) over the tree the builder made.                        *)
(***************************************************************************)
EXTENDS DomDocument

Shape == INSTANCE DomShape WITH Dimensionless <- {DefaultUnit, NoUnit}

\* The tree below a node, as the shape check sees it.
UnitOf(id) ==
    IF nodes[id].unit = Default THEN DefaultUnit
    ELSE IF nodes[id].unit = Unitless THEN NoUnit ELSE blocks[nodes[id].unit].unit

Widths(n) ==
    IF n.dims = OneRow THEN <<Len(n.kids)>>
    ELSE [r \in 1..n.rows |-> IF r <= RecordedRows THEN n.dims[r] ELSE 0]

RECURSIVE Tree(_)
Tree(id) ==
    LET n    == nodes[id]
        keys == [i \in DOMAIN n.kids |-> n.kids[i].key]
        kids == [i \in DOMAIN n.kids |-> Tree(n.kids[i].node)]
    IN CASE n.kind = "array"                -> Shape!Array(Widths(n), kids)
         [] n.kind \in {"struct", "document"} -> Shape!Struct(keys, kids)
         [] OTHER                           -> Shape!Scalar(n.kind, UnitOf(id))

(* What bvn_dom_parse_policy checks of the whole tree: unique keys, then   *)
(* each value of the document in turn.                                     *)
CrossChecked == Shape!Homogeneous(Tree(Document))

DomNext == Tells \/ TellEnd(CrossChecked)
DomSpec == DomInit /\ [][DomNext]_vars
=============================================================================

------------------------------- MODULE DomShape -------------------------------
(***************************************************************************)
(* Are the elements of an array of one shape?  The check the DOM makes     *)
(* once a document is read (bovnar_dom_builder.c): elements are held, one  *)
(* after the other, to a shape that fills in as they come, so that a hole  *)
(* neither sets a position nor breaks it.                                  *)
(*                                                                         *)
(* A node is [kind, unit, rows, keys, kids]: rows are the widths of an     *)
(* array's rows, keys the names of a struct's fields, kids the cells or    *)
(* fields.                                                                 *)
(***************************************************************************)
EXTENDS Integers, Sequences, SequencesExt

CONSTANTS
    RecordedRows,    \* rows_per_dim[8]: widths an array remembers
    Dimensionless    \* the spellings of "no unit"

Scalar(kind, unit) == [kind |-> kind, unit |-> unit, rows |-> <<>>, keys |-> <<>>, kids |-> <<>>]
Array(rows, cells) == [kind |-> "array", unit |-> "", rows |-> rows, keys |-> <<>>, kids |-> cells]
Struct(keys, fields) == [kind |-> "struct", unit |-> "", rows |-> <<>>, keys |-> keys, kids |-> fields]

Hole == "null"

\* One position of a shape: the first node seen there, and the positions below.
Empty == [rep |-> <<>>, sub |-> <<>>]

SameUnit(u, v) == u = v \/ {u, v} \subseteq Dimensionless

KeysUnique(n) == IsInjective(n.keys)

\* Row geometry, as far as it is recorded.
SameRows(a, n) ==
    /\ Len(a.kids) = Len(n.kids)
    /\ Len(a.rows) = Len(n.rows)
    /\ \A r \in DOMAIN a.rows : r <= RecordedRows => a.rows[r] = n.rows[r]

(* What two nodes at one position may not differ in.  `strict` inside bare *)
(* arrays: unit and geometry count; in the fields of a struct only kind    *)
(* and nesting do.                                                         *)
Clash(a, n, strict) ==
    CASE a.kind # n.kind                                        -> "element_type"
      [] a.kind \in {"number", "datetime"} /\ strict /\ ~SameUnit(a.unit, n.unit) -> "element_type"
      [] a.kind = "array" /\ strict /\ ~SameRows(a, n)          -> "row_size"
      [] a.kind = "struct" /\ a.keys # n.keys                   -> "struct_shape"
      [] OTHER                                                  -> "none"

Fits(s)       == [shape |-> s, error |-> "none"]
Refused(s, e) == [shape |-> s, error |-> e]

\* The positions below the first node seen: one for all cells, one per field.
Opened(n) ==
    [rep |-> <<n>>,
     sub |-> IF n.kind = "array" THEN <<Empty>> ELSE [i \in DOMAIN n.kids |-> Empty]]

RECURSIVE Merge(_, _, _, _), Homogeneous(_)

(* A cell or field at position p of r's shape, unless something was refused *)
(* before.                                                                  *)
MergeKid(r, p, n, strict, internal) ==
    IF r.error # "none" THEN r
    ELSE LET m == Merge(r.shape.sub[p], n, strict, internal) IN
         [shape |-> [r.shape EXCEPT !.sub[p] = m.shape], error |-> m.error]

\* A field is also checked on its own account, once.
MergeField(r, p, n, internal) ==
    IF r.error # "none" THEN r
    ELSE LET own == IF internal THEN Homogeneous(n) ELSE "none" IN
         IF own # "none" THEN Refused(r.shape, own) ELSE MergeKid(r, p, n, FALSE, FALSE)

\* Mutant: elements are compared with the first one only, hole or not.
MergeWithFirst(s, n, strict, internal) ==
    IF s.rep = <<>> THEN Fits(Opened(n))
    ELSE Refused(s, IF Hole \in {n.kind, s.rep[1].kind} THEN "none" ELSE Clash(s.rep[1], n, strict))

\* bvn_dom_shape_merge
Merge(s, n, strict, internal) ==
    LET known == IF s.rep = <<>> THEN Opened(n) ELSE s
        clash == IF s.rep = <<>> THEN "none" ELSE Clash(s.rep[1], n, strict)
        ids   == [i \in DOMAIN n.kids |-> i]
    IN IF n.kind = Hole THEN Fits(s)
       ELSE IF clash # "none" THEN Refused(s, clash)
       ELSE IF n.kind = "struct" /\ internal /\ ~KeysUnique(n) THEN Refused(s, "duplicate_key")
       ELSE IF n.kind = "struct"
       THEN FoldLeft(LAMBDA r, i : MergeField(r, i, n.kids[i], internal), Fits(known), ids)
       ELSE FoldLeft(LAMBDA r, i : MergeKid(r, 1, n.kids[i], strict, internal), Fits(known), ids)

\* bvn_dom_check_homogeneous: "none", or the first thing that is wrong in n.
Homogeneous(n) ==
    IF n.kind = "array"
    THEN FoldLeft(LAMBDA r, c : IF r.error # "none" THEN r ELSE Merge(r.shape, c, TRUE, TRUE),
                  Fits(Empty), n.kids).error
    ELSE IF n.kind = "struct" /\ ~KeysUnique(n) THEN "duplicate_key"
    ELSE IF n.kind = "struct"
    THEN FoldLeft(LAMBDA e, f : IF e # "none" THEN e ELSE Homogeneous(f), "none", n.kids)
    ELSE "none"

-----------------------------------------------------------------------------
(* What the rule says, without an order: any two elements of an array      *)
(* agree, position by position, a hole agreeing with everything.           *)
RECURSIVE Agree(_, _, _), Sound(_)

Agree(x, y, strict) ==
    \/ Hole \in {x.kind, y.kind}
    \/ /\ Clash(x, y, strict) = "none"
       /\ x.kind = "array" =>
             \A i \in DOMAIN x.kids, j \in DOMAIN y.kids : Agree(x.kids[i], y.kids[j], strict)
       /\ x.kind = "struct" => \A i \in DOMAIN x.kids : Agree(x.kids[i], y.kids[i], FALSE)

Sound(n) ==
    /\ \A i \in DOMAIN n.kids : Sound(n.kids[i])
    /\ n.kind = "struct" => KeysUnique(n)
    /\ n.kind = "array" => \A i, j \in DOMAIN n.kids : Agree(n.kids[i], n.kids[j], TRUE)
=============================================================================

-------------------------- MODULE ReaderRefinement --------------------------
(***************************************************************************)
(* The reader implements the event stream a consumer is promised           *)
(* (EventStream): every batch of events a byte delivers is one the         *)
(* consumer's grammar allows where it stands, errors and recovery          *)
(* included.                                                               *)
(***************************************************************************)
EXTENDS Reader

\* EventStream's mark of an open struct is no type an array could have.
ASSUME StructAssumption == "struct" \notin Types

\* Containers open, outermost first.  The reader keeps no such stack: array
\* i remembers how many structs were open around it, which puts it at
\* position i + OpenLevel(i); the other positions are structs.
StackedAt(p) ==
    LET here == {i \in 1..array_nesting_level : i + OpenLevel(i) = p}
    IN IF here = {} THEN "struct" ELSE arr_frames[(CHOOSE i \in here : TRUE) - 1].saved_vtype

Stack == [p \in 1..(struct_nesting_level + array_nesting_level) |-> StackedAt(p)]

Innermost == IF Stack = <<>> THEN "struct" ELSE Stack[Len(Stack)]

\* A value, or an element, is being read.
ValuePlaces == {"value_intro", "type_body", "type_outro", "scalar", "reference_index", "string_outro", "inline_unit"}
               \cup StringStates

Expect ==
    CASE status = "opened"   -> "start"
      [] status = "accepted" -> "end"
      [] status = "failed"   -> "stopped"
      [] OTHER ->
         CASE Place \in KeyStates \cup {"identifier", "utf8bom_intro"} -> "key"
           [] Place \in ElementStates        -> "item"
           [] Place \in ValuePlaces          -> IF Innermost = "struct" THEN "value" ELSE "item"
           [] Place = "array_outro"          -> "row_done"
           [] Place = "array_dim_sep"        -> "row"
           [] Place = "octet_stream_intro"   -> "octets"
           [] OTHER                          -> IF Innermost = "struct" THEN "key" ELSE "item"

ForcedType ==
    IF status # "running" THEN Plain
    ELSE IF Place \in ElementStates \cup ValuePlaces \cup {"array_outro", "array_dim_sep", "octet_stream_intro"}
    THEN value_type
    ELSE IF Innermost = "struct" THEN Plain ELSE Innermost

ES == INSTANCE EventStream
      WITH open   <- IF status = "running" THEN Stack ELSE <<>>,
           expect <- Expect,
           force  <- ForcedType

\* The reader's steps, seen through the mapping, are steps of the event
\* stream: doc/03's event order, nesting and the type in force, for every
\* document, with and without recovery.
DeliversEventStream == ES!Spec
=============================================================================

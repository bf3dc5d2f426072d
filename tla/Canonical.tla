------------------------------ MODULE Canonical ------------------------------
(***************************************************************************)
(* The canonical observer: a reader's events handed to the serialiser with *)
(* no gate in between (bovnar_canon_observer.c).  Its text is read again.  *)
(***************************************************************************)
EXTENDS TypeInForce

CONSTANT MaxArrays    \* bound: max_array_nesting, 255

Serializer == [out |-> <<>>, need_semi |-> FALSE, had_annotation |-> FALSE, emitted_unit |-> FALSE,
               structs |-> 0, arrays |-> 0, need_comma |-> [i \in 1..MaxArrays |-> FALSE],
               at |-> [i \in 1..MaxArrays |-> 0], row_unit |-> [i \in 1..MaxArrays |-> FALSE],
               failed |-> FALSE]

Write(s, t) == [s EXCEPT !.out = Append(@, t)]
Fail(s)     == [s EXCEPT !.failed = TRUE]

DirectElement(s) == s.arrays > 0 /\ s.at[s.arrays] = s.structs

PendingComma(s) ==
    IF DirectElement(s) /\ s.need_comma[s.arrays]
    THEN [Write(s, Tok(",")) EXCEPT !.need_comma[s.arrays] = FALSE] ELSE s

\* The comma before an element is its annotation's, where it has one.
Separated(s) ==
    [(IF s.had_annotation THEN s ELSE PendingComma(s)) EXCEPT !.had_annotation = FALSE]

\* After an element the row's annotation governs again.
ValueDone(s) ==
    LET done == [s EXCEPT !.need_semi = TRUE] IN
    IF DirectElement(s) THEN [done EXCEPT !.need_comma[s.arrays] = TRUE, !.emitted_unit = s.row_unit[s.arrays]]
    ELSE done

Semicolon(s) == IF s.need_semi THEN Write(s, Tok(";")) ELSE s

-----------------------------------------------------------------------------
AssignmentStart(s) ==
    [Write(Semicolon(s), Tok("key")) EXCEPT !.need_semi = FALSE, !.had_annotation = FALSE, !.emitted_unit = FALSE]

\* A datetime's epoch counts as its unit parameter.
Annotation(s, e) ==
    LET text == IF e.src # "" THEN e.src ELSE e.what IN
    [Write(PendingComma(s), Ann(e.type, text)) EXCEPT
        !.had_annotation = TRUE, !.emitted_unit = e.what # "" \/ e.type = "tai"]

\* The unit of a value whose annotation had none is written after it.
Data(s, e) ==
    LET suffixed == ~s.emitted_unit /\ e.unit # "none" /\ e.what \notin {"null", "true", "symbol"}
    IN IF suffixed /\ DirectElement(s) THEN Fail(s)
       ELSE ValueDone(Write(Separated(s), Val(e.what, IF suffixed THEN e.src ELSE "")))

StructStart(s) ==
    [Write(Separated(s), Tok("{")) EXCEPT !.need_semi = FALSE, !.structs = @ + 1]

StructEnd(s) == ValueDone([Write(Semicolon(s), Tok("}")) EXCEPT !.structs = @ - 1])

RowStart(s) ==
    LET i == s.arrays + 1 IN
    IF s.arrays = MaxArrays THEN Fail(s)
    ELSE [Write(Separated(s), Tok("[")) EXCEPT
            !.arrays = i, !.at[i] = s.structs, !.need_comma[i] = FALSE, !.row_unit[i] = s.emitted_unit]

RowEnd(s) ==
    ValueDone([Write(s, Tok("]")) EXCEPT !.arrays = @ - 1, !.emitted_unit = s.row_unit[s.arrays]])

\* The row just closed has left its entry above the top.
DimStart(s) ==
    LET slashed == [Write(s, Tok("/")) EXCEPT
                       !.emitted_unit = IF s.arrays < MaxArrays THEN s.row_unit[s.arrays + 1] ELSE @]
    IN IF DirectElement(s) THEN [slashed EXCEPT !.need_comma[s.arrays] = FALSE] ELSE slashed

OnEvent(s, e) ==
    IF s.failed THEN s
    ELSE CASE e.ev = "assignment_start" -> AssignmentStart(s)
           [] e.ev = "annotation"       -> Annotation(s, e)
           [] e.ev = "data"             -> Data(s, e)
           [] e.ev = "struct_start"     -> StructStart(s)
           [] e.ev = "struct_end"       -> StructEnd(s)
           [] e.ev = "array_row_start"  -> RowStart(s)
           [] e.ev = "array_row_end"    -> RowEnd(s)
           [] e.ev = "array_dim_start"  -> DimStart(s)

Canon(told) == Semicolon(FoldLeft(OnEvent, Serializer, told))
=============================================================================

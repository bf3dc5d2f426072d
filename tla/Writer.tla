------------------------------- MODULE Writer -------------------------------
(***************************************************************************)
(* The writer of bovnar (src/src/writer/bovnar_writer.c): a caller drives  *)
(* it one event at a time, in any order; each event passes the ordering    *)
(* gate of bvn_writer_validate_event and becomes text in                   *)
(* bvn_ser_serialize_event.  The two halves keep what they know apart: the *)
(* gate which annotation governs the next value, the serialiser whether    *)
(* that annotation wrote a unit and where a comma or a ';' is due.         *)
(*                                                                         *)
(* The text is a sequence of the reader's byte classes (Reader), with      *)
(* "unit" for an inline unit and "chunk" for one chunk of an octet stream. *)
(* Of a literal only what kind of token it is matters here; a value that   *)
(* does not fit its type is one of the ways CallFails.                     *)
(***************************************************************************)
EXTENDS Integers, Sequences

CONSTANTS
    max_struct_nesting,   \* bvnr_write_flags_t.max_struct_nesting
    max_array_nesting,    \* bvnr_write_flags_t.max_array_nesting
    Families,             \* value_type_family_t
    TakesUnit,            \* bvn_w_family_takes_unit: the numeric ones
    Units,                \* units a value can have
    NoUnit,               \* BVN_UNIT_NONE
    Plain,                \* no annotation governs
    MaxElements,          \* bound: elements of one row
    MaxParts              \* bound: parts of one annotation's text

ASSUME WriterLimits ==
    /\ max_struct_nesting \in Nat \ {0}
    /\ max_array_nesting \in Nat \ {0}
    /\ MaxElements \in Nat /\ MaxParts \in Nat
ASSUME WriterTypes == Families # {} /\ TakesUnit \subseteq Families /\ NoUnit \notin Units

\* What an annotation says of the values it governs.
Annotations == [family : Families, unit : Units \cup {NoUnit}]
ASSUME PlainGovernsNothing == Plain \notin Annotations

VARIABLES
    pretty,
    failed,                 \* an error is latched (val.last_error)
    finished,
    stream_begun,
    version_emitted,
    \* The gate.
    w_awaiting_value,
    w_in_annotation,
    w_after_row_end,
    w_after_dim,
    w_stream_ended,
    ann,                    \* the annotation in flight: ann_type, ann_unit; dead, and reset here, outside one
    gov,                    \* gov_typed, gov_type and gov_unit
    arr_gov,                \* the same, as each open row began
    arr_count,              \* elements of the row open at each depth
    arr_dim_set,
    arr_dim_count,          \* the width its rows must have
    \* The serialiser.
    need_semi,
    had_type_annotation,
    emitted_unit,
    arr_emitted_unit,
    arr_need_comma,
    in_octet_stream,
    struct_depth,
    array_depth,
    struct_depth_at_array_start,
    ann_text,               \* the parts of that annotation's text so far
    \* What the last call wrote, and the events a reader of it is owed.
    written,
    owed

stream    == <<pretty, failed, finished, stream_begun, version_emitted, w_stream_ended>>
annotated == <<w_in_annotation, ann, ann_text>>
governed  == <<gov, arr_gov, emitted_unit, arr_emitted_unit>>
rows      == <<w_after_row_end, w_after_dim, arr_count, arr_dim_set, arr_dim_count>>
commas    == <<had_type_annotation, arr_need_comma>>
nesting   == <<struct_depth, array_depth, struct_depth_at_array_start, in_octet_stream>>
writerVars == <<stream, w_awaiting_value, need_semi, annotated, governed, rows, commas, nesting, written, owed>>

Depths == 0..(max_array_nesting - 1)

Event(ev, t) == [ev |-> ev, type |-> t]
Mark(ev)     == Event(ev, Plain)

-----------------------------------------------------------------------------
(* Where the document stands.                                              *)

\* bvn_ser_is_direct_array_element, for a struct depth d.
DirectElement(idx, d) == struct_depth_at_array_start[idx] = d

InRow == array_depth > 0 /\ DirectElement(array_depth - 1, struct_depth)

ValuePosition == InRow \/ w_awaiting_value \/ in_octet_stream
KeyPosition   == ~InRow

\* Nothing is accepted after an error or the end; a "/" promises a row, and a
\* closed annotation a value.
Accepting   == ~failed /\ ~finished /\ ~w_stream_ended
NotAfterDim == ~w_after_dim
Undangled   == ~had_type_annotation \/ w_in_annotation
Idle        == ~w_in_annotation /\ ~in_octet_stream

Otherwise == Accepting /\ NotAfterDim /\ Undangled
ForValue  == Accepting /\ NotAfterDim

-----------------------------------------------------------------------------
(* Text.                                                                   *)
Blank == IF pretty THEN <<"nl">> ELSE <<>>
Indent(d) == IF pretty /\ d > 0 THEN <<"nl">> ELSE <<>>

\* bvn_ser_emit_pending_comma; an annotation has written it for its value.
CommaDue == InRow /\ arr_need_comma[array_depth - 1] /\ ~had_type_annotation
Comma    == IF CommaDue THEN <<"comma">> \o Blank ELSE <<>>

CommaWritten == IF CommaDue THEN [arr_need_comma EXCEPT ![array_depth - 1] = FALSE] ELSE arr_need_comma

Writes(text, events) == written' = text /\ owed' = events

\* The event begins the stream.
Begun == stream_begun' = TRUE /\ UNCHANGED <<pretty, failed, finished, version_emitted, w_stream_ended>>

-----------------------------------------------------------------------------
(* Elements of a row.                                                      *)

\* bvn_w_element_begins
ElementBegins ==
    arr_count' = IF InRow THEN [arr_count EXCEPT ![array_depth - 1] = @ + 1] ELSE arr_count

RoomInRow == InRow => arr_count[array_depth - 1] < MaxElements

\* mutant: an element's own unit stays in force for its siblings
SerialiserDone_keeps(d, commaState) ==
    IF array_depth > 0 /\ DirectElement(array_depth - 1, d)
    THEN /\ arr_need_comma' = [commaState EXCEPT ![array_depth - 1] = TRUE]
         /\ UNCHANGED emitted_unit
    ELSE arr_need_comma' = commaState /\ UNCHANGED emitted_unit

\* bvn_ser_mark_value_done, at struct depth d.
SerialiserDone(d, commaState) ==
    IF array_depth > 0 /\ DirectElement(array_depth - 1, d)
    THEN /\ arr_need_comma' = [commaState EXCEPT ![array_depth - 1] = TRUE]
         /\ emitted_unit' = arr_emitted_unit[array_depth - 1]
    ELSE arr_need_comma' = commaState /\ UNCHANGED emitted_unit

\* bvn_w_element_done, at struct depth d: the row's annotation governs again.
GateDone(d) ==
    gov' = IF array_depth = 0 THEN Plain
           ELSE IF DirectElement(array_depth - 1, d) THEN arr_gov[array_depth - 1]
           ELSE gov

ValueDone(d, commaState) ==
    /\ GateDone(d)
    /\ SerialiserDone(d, commaState)
    /\ UNCHANGED <<arr_gov, arr_emitted_unit>>

-----------------------------------------------------------------------------
(* Events.                                                                 *)

StreamStart ==
    /\ Otherwise /\ ~stream_begun
    /\ Begun /\ Writes(<<>>, <<>>)
    /\ UNCHANGED <<w_awaiting_value, need_semi, annotated, governed, rows, commas, nesting>>

StreamEnd ==
    /\ Otherwise /\ Idle /\ ~w_awaiting_value
    /\ array_depth = 0 /\ struct_depth = 0
    /\ w_stream_ended' = TRUE
    /\ Writes(<<>>, <<>>)
    /\ UNCHANGED <<pretty, failed, finished, stream_begun, version_emitted, w_awaiting_value, need_semi,
                   annotated, governed, rows, commas, nesting>>

AssignmentStart ==
    /\ Otherwise /\ Idle /\ ~w_awaiting_value /\ KeyPosition
    /\ Begun
    /\ Writes((IF need_semi THEN <<"semi">> \o Blank ELSE <<>>) \o Indent(struct_depth)
                \o <<"dot", "id">> \o Blank \o <<"eq">> \o Blank,
              <<Mark("assignment_start")>>)
    /\ need_semi' = FALSE /\ had_type_annotation' = FALSE
    /\ emitted_unit' = FALSE /\ gov' = Plain
    /\ w_awaiting_value' = TRUE
    /\ UNCHANGED <<annotated, arr_gov, arr_emitted_unit, rows, arr_need_comma, nesting>>

\* The unit may be named here, by the unit parameter, or by both.
AnnotationStart(f, u) ==
    /\ Otherwise /\ Idle /\ ValuePosition
    /\ Begun
    /\ Writes(Comma \o <<"lt">>, <<>>)
    /\ w_in_annotation' = TRUE
    /\ ann' = [family |-> f, unit |-> u]
    /\ ann_text' = <<>>
    /\ gov' = Plain /\ emitted_unit' = FALSE
    /\ had_type_annotation' = TRUE
    /\ arr_need_comma' = CommaWritten
    /\ UNCHANGED <<w_awaiting_value, need_semi, arr_gov, arr_emitted_unit, rows, nesting>>

InAnnotation == Accepting /\ NotAfterDim /\ w_in_annotation /\ Len(ann_text) < MaxParts

AnnotationFamily(f) ==
    /\ InAnnotation
    /\ ann' = [ann EXCEPT !.family = f]
    /\ ann_text' = Append(ann_text, "family")
    /\ Writes(<<"id">>, <<>>)
    /\ Begun
    /\ UNCHANGED <<w_awaiting_value, need_semi, w_in_annotation, governed, rows, commas, nesting>>

AnnotationWidth ==
    /\ InAnnotation
    /\ ann_text' = Append(ann_text, "width")
    /\ Writes(<<"id">>, <<>>)
    /\ Begun
    /\ UNCHANGED <<w_awaiting_value, need_semi, w_in_annotation, ann, governed, rows, commas, nesting>>

\* A unit parameter: one to an annotation, for a family that takes one, and
\* the same as the start event's.  It may be the text no_unit, or neither a
\* text nor a unit, and then it writes nothing.
AnnotationUnit(u, text) ==
    LET named == IF ann.unit = NoUnit THEN u ELSE ann.unit IN
    /\ InAnnotation
    /\ ~emitted_unit
    /\ u # NoUnit => named = u
    /\ named # NoUnit => ann.family \in TakesUnit
    /\ text => named = u
    /\ ann' = [ann EXCEPT !.unit = named]
    /\ IF text \/ u # NoUnit
       THEN /\ emitted_unit' = TRUE
            /\ ann_text' = Append(ann_text, "unit")
            /\ Writes(<<"id">>, <<>>)
       ELSE /\ Writes(<<>>, <<>>)
            /\ UNCHANGED <<emitted_unit, ann_text>>
    /\ Begun
    /\ UNCHANGED <<w_awaiting_value, need_semi, w_in_annotation, gov, arr_gov, arr_emitted_unit, rows,
                   commas, nesting>>

NoAnnotation == [family |-> CHOOSE f \in Families : TRUE, unit |-> NoUnit]

\* bvnr_write_event writes the start event's unit if no parameter did.
UnitLeftToWrite == ~emitted_unit /\ ann.unit # NoUnit /\ ann.family \in TakesUnit

AnnotationEnd ==
    LET governs == [ann EXCEPT !.unit = IF emitted_unit \/ ann.family \in TakesUnit THEN @ ELSE NoUnit]
        wrote   == emitted_unit \/ UnitLeftToWrite
    IN
    /\ Accepting /\ NotAfterDim /\ w_in_annotation
    /\ w_in_annotation' = FALSE
    /\ gov' = governs
    /\ emitted_unit' = wrote
    /\ ann' = NoAnnotation /\ ann_text' = <<>>
    /\ Writes((IF UnitLeftToWrite THEN <<"id">> ELSE <<>>) \o <<"gt">> \o Blank,
              <<Event("annotation", [family |-> ann.family, unit |-> IF wrote THEN ann.unit ELSE NoUnit])>>)
    /\ UNCHANGED <<stream, w_awaiting_value, need_semi, arr_gov, arr_emitted_unit, rows, commas, nesting>>

Carries(v) == v \in {"number", "string"}

Literal(v) ==
    CASE v = "string" -> <<"quote", "quote">>
      [] v = "null"   -> IF InRow THEN <<"id">> ELSE <<>>
      [] OTHER        -> <<"id">>

\* An inline unit is for a scalar: the reader takes none inside "[...]".
Value(v, u) ==
    LET inline == ~emitted_unit /\ u # NoUnit IN
    /\ ForValue /\ Idle /\ ValuePosition
    /\ RoomInRow
    /\ v = "symbol" => gov = Plain
    /\ u # NoUnit => Carries(v)
    /\ emitted_unit /\ u # NoUnit => u = gov.unit
    /\ inline => ~InRow
    /\ Begun
    /\ Writes(Comma \o Literal(v) \o (IF inline THEN <<"nl", "unit">> ELSE <<>>), <<Event("data", gov)>>)
    /\ w_awaiting_value' = FALSE
    /\ need_semi' = TRUE /\ had_type_annotation' = FALSE
    /\ ElementBegins
    /\ ValueDone(struct_depth, CommaWritten)
    /\ UNCHANGED <<annotated, w_after_row_end, w_after_dim, arr_dim_set, arr_dim_count, nesting>>

\* A struct takes no annotation, its own or its row's.
StructStart ==
    /\ ForValue /\ Idle /\ ValuePosition
    /\ struct_depth < max_struct_nesting
    /\ gov = Plain
    /\ RoomInRow
    /\ Begun
    /\ Writes(Comma \o <<"lcb">> \o Blank, <<Mark("struct_start")>>)
    /\ struct_depth' = struct_depth + 1
    /\ w_awaiting_value' = FALSE
    /\ need_semi' = FALSE /\ had_type_annotation' = FALSE
    /\ ElementBegins
    /\ arr_need_comma' = CommaWritten
    /\ UNCHANGED <<annotated, governed, w_after_row_end, w_after_dim, arr_dim_set, arr_dim_count,
                   array_depth, struct_depth_at_array_start, in_octet_stream>>

\* mutant: a struct may close across a row opened inside it
ClosesNoRow_never == TRUE

ClosesNoRow == ~InRow

StructEnd ==
    /\ Otherwise /\ Idle /\ ~w_awaiting_value
    /\ struct_depth > 0 /\ ClosesNoRow
    /\ Begun
    /\ Writes((IF need_semi THEN <<"semi">> \o Blank ELSE <<>>) \o Indent(struct_depth - 1) \o <<"rcb">>,
              <<Mark("struct_end")>>)
    /\ struct_depth' = struct_depth - 1
    /\ need_semi' = TRUE
    /\ ValueDone(struct_depth - 1, arr_need_comma)
    /\ UNCHANGED <<w_awaiting_value, annotated, rows, had_type_annotation, array_depth,
                   struct_depth_at_array_start, in_octet_stream>>

\* mutant: a "/" row is one more element of the row around it
ElementOfParent_always == InRow

\* A nested array is one element of the row around it, whatever its rows.
ElementOfParent == InRow /\ ~w_after_dim

\* mutant: one row more is let in
RoomForRow_late == array_depth =< max_array_nesting

RoomForRow == array_depth < max_array_nesting

RowStart ==
    /\ Accepting /\ Idle
    /\ ValuePosition \/ w_after_dim
    /\ RoomForRow
    /\ ElementOfParent => RoomInRow
    /\ Begun
    /\ Writes(Comma \o <<"lbr">>, <<Event("row_start", gov)>>)
    /\ struct_depth_at_array_start' = [struct_depth_at_array_start EXCEPT ![array_depth] = struct_depth]
    /\ array_depth' = array_depth + 1
    /\ arr_gov' = [arr_gov EXCEPT ![array_depth] = gov]
    /\ arr_emitted_unit' = [arr_emitted_unit EXCEPT ![array_depth] = emitted_unit]
    /\ arr_need_comma' = [CommaWritten EXCEPT ![array_depth] = FALSE]
    /\ arr_count' = [i \in Depths |-> IF i = array_depth THEN 0
                                      ELSE arr_count[i] + (IF i = array_depth - 1 /\ ElementOfParent THEN 1 ELSE 0)]
    /\ arr_dim_set' = IF w_after_dim THEN arr_dim_set ELSE [arr_dim_set EXCEPT ![array_depth] = FALSE]
    /\ had_type_annotation' = FALSE
    /\ w_awaiting_value' = FALSE /\ w_after_row_end' = FALSE /\ w_after_dim' = FALSE
    /\ UNCHANGED <<need_semi, annotated, gov, emitted_unit, arr_dim_count, struct_depth, in_octet_stream>>

RowFits(d) == arr_dim_set[d] => arr_dim_count[d] = arr_count[d]

\* What governed the row governs the next "/" row; in a row around it, what
\* governed that one.
RowEnd ==
    LET d == array_depth - 1
        nested == d > 0 /\ DirectElement(d - 1, struct_depth)
    IN
    /\ Otherwise /\ Idle /\ InRow
    /\ RowFits(d)
    /\ Begun
    /\ Writes(<<"rbr">>, <<Mark("row_end")>>)
    /\ array_depth' = d
    /\ arr_dim_set' = [arr_dim_set EXCEPT ![d] = TRUE]
    /\ arr_dim_count' = [arr_dim_count EXCEPT ![d] = arr_count[d]]
    /\ w_after_row_end' = TRUE
    /\ gov' = IF nested THEN arr_gov[d - 1] ELSE arr_gov[d]
    /\ emitted_unit' = IF nested THEN arr_emitted_unit[d - 1] ELSE arr_emitted_unit[d]
    /\ arr_need_comma' = IF nested THEN [arr_need_comma EXCEPT ![d - 1] = TRUE] ELSE arr_need_comma
    /\ need_semi' = TRUE
    /\ UNCHANGED <<w_awaiting_value, annotated, arr_gov, arr_emitted_unit, w_after_dim, arr_count,
                   had_type_annotation, struct_depth, struct_depth_at_array_start, in_octet_stream>>

\* mutant: the row after "/" is governed by what governs the row around it
DimGoverned_by_parent == gov' = gov

DimGoverned ==
    gov' = IF array_depth < max_array_nesting THEN arr_gov[array_depth] ELSE gov

DimStart ==
    /\ Otherwise /\ ~w_in_annotation /\ w_after_row_end
    /\ Begun
    /\ Writes(Blank \o <<"slash">> \o Blank, <<Mark("dim_start")>>)
    /\ w_after_row_end' = FALSE /\ w_after_dim' = TRUE
    /\ DimGoverned
    /\ emitted_unit' = IF array_depth < max_array_nesting THEN arr_emitted_unit[array_depth] ELSE emitted_unit
    /\ arr_need_comma' = IF InRow THEN [arr_need_comma EXCEPT ![array_depth - 1] = FALSE] ELSE arr_need_comma
    /\ UNCHANGED <<w_awaiting_value, need_semi, annotated, arr_gov, arr_emitted_unit, arr_count, arr_dim_set,
                   arr_dim_count, had_type_annotation, nesting>>

OctetStreamStart ==
    /\ ForValue /\ Idle /\ ValuePosition
    /\ RoomInRow
    /\ Begun
    /\ Writes(Comma \o <<"nul">>, <<Mark("octets_start")>>)
    /\ in_octet_stream' = TRUE
    /\ had_type_annotation' = FALSE
    /\ ElementBegins
    /\ arr_need_comma' = CommaWritten
    /\ UNCHANGED <<w_awaiting_value, need_semi, annotated, governed, w_after_row_end, w_after_dim,
                   arr_dim_set, arr_dim_count, struct_depth, array_depth, struct_depth_at_array_start>>

OctetChunk ==
    /\ ForValue /\ in_octet_stream
    /\ Begun
    /\ Writes(<<"chunk">>, <<Mark("octets")>>)
    /\ UNCHANGED <<w_awaiting_value, need_semi, annotated, governed, rows, commas, nesting>>

OctetStreamEnd ==
    /\ Otherwise /\ in_octet_stream
    /\ Begun
    /\ Writes(<<"nul">>, <<Mark("octets_end")>>)
    /\ in_octet_stream' = FALSE
    /\ w_awaiting_value' = FALSE
    /\ need_semi' = TRUE
    /\ ValueDone(struct_depth, arr_need_comma)
    /\ UNCHANGED <<annotated, rows, had_type_annotation, struct_depth, array_depth, struct_depth_at_array_start>>

-----------------------------------------------------------------------------
(* The calls around the events.                                            *)

WriteVersion ==
    /\ ~failed /\ ~finished /\ ~stream_begun /\ ~version_emitted
    /\ version_emitted' = TRUE
    /\ Writes(<<"hash", "id", "nl">>, <<>>)
    /\ UNCHANGED <<pretty, failed, finished, stream_begun, w_stream_ended, w_awaiting_value, need_semi,
                   annotated, governed, rows, commas, nesting>>

\* mutant: the structs still open are not looked at
Complete_anywhere ==
    /\ array_depth = 0
    /\ ~w_awaiting_value /\ ~w_in_annotation /\ ~in_octet_stream /\ ~w_after_dim

Complete ==
    /\ struct_depth = 0 /\ array_depth = 0
    /\ ~w_awaiting_value /\ ~w_in_annotation /\ ~in_octet_stream /\ ~w_after_dim

WriteFinish ==
    /\ ~failed /\ ~finished /\ Complete
    /\ finished' = TRUE
    /\ need_semi' = FALSE
    /\ Writes(IF need_semi THEN <<"semi">> \o Blank ELSE <<>>, <<>>)
    /\ UNCHANGED <<pretty, failed, stream_begun, version_emitted, w_stream_ended, w_awaiting_value,
                   annotated, governed, rows, commas, nesting>>

\* The sink is full, a value does not fit its type, an observer refuses, or
\* the gate does: the error is latched, and what was written is no document.
CallFails ==
    /\ ~failed
    /\ failed' = TRUE
    /\ Writes(<<>>, <<>>)
    /\ UNCHANGED <<pretty, finished, stream_begun, version_emitted, w_stream_ended, w_awaiting_value, need_semi,
                   annotated, governed, rows, commas, nesting>>

-----------------------------------------------------------------------------
WriterInit ==
    /\ pretty \in BOOLEAN
    /\ failed = FALSE /\ finished = FALSE /\ stream_begun = FALSE /\ version_emitted = FALSE
    /\ w_awaiting_value = FALSE /\ w_in_annotation = FALSE
    /\ w_after_row_end = FALSE /\ w_after_dim = FALSE /\ w_stream_ended = FALSE
    /\ ann = NoAnnotation
    /\ gov = Plain
    /\ arr_gov = [i \in Depths |-> Plain]
    /\ arr_count = [i \in Depths |-> 0]
    /\ arr_dim_set = [i \in Depths |-> FALSE]
    /\ arr_dim_count = [i \in Depths |-> 0]
    /\ need_semi = FALSE /\ had_type_annotation = FALSE
    /\ emitted_unit = FALSE
    /\ arr_emitted_unit = [i \in Depths |-> FALSE]
    /\ arr_need_comma = [i \in Depths |-> FALSE]
    /\ in_octet_stream = FALSE
    /\ struct_depth = 0 /\ array_depth = 0
    /\ struct_depth_at_array_start = [i \in Depths |-> 0]
    /\ ann_text = <<>>
    /\ written = <<>> /\ owed = <<>>

Annotate ==
    \/ \E f \in Families, u \in Units \cup {NoUnit} : AnnotationStart(f, u)
    \/ \E f \in Families : AnnotationFamily(f)
    \/ AnnotationWidth
    \/ \E u \in Units \cup {NoUnit}, text \in BOOLEAN : AnnotationUnit(u, text)
    \/ AnnotationEnd

Values ==
    \/ \E v \in {"number", "string", "null", "symbol"}, u \in Units \cup {NoUnit} : Value(v, u)
    \/ OctetStreamStart \/ OctetChunk \/ OctetStreamEnd

WriterNext ==
    \/ StreamStart \/ StreamEnd \/ AssignmentStart \/ Annotate \/ Values
    \/ StructStart \/ StructEnd \/ RowStart \/ RowEnd \/ DimStart
    \/ WriteVersion \/ WriteFinish \/ CallFails

WriterSpec == WriterInit /\ [][WriterNext]_writerVars

-----------------------------------------------------------------------------
(* Properties.                                                             *)

TypeOK ==
    /\ pretty \in BOOLEAN /\ failed \in BOOLEAN /\ finished \in BOOLEAN
    /\ stream_begun \in BOOLEAN /\ version_emitted \in BOOLEAN /\ w_stream_ended \in BOOLEAN
    /\ w_awaiting_value \in BOOLEAN /\ w_in_annotation \in BOOLEAN
    /\ w_after_row_end \in BOOLEAN /\ w_after_dim \in BOOLEAN
    /\ need_semi \in BOOLEAN /\ had_type_annotation \in BOOLEAN
    /\ emitted_unit \in BOOLEAN /\ in_octet_stream \in BOOLEAN
    /\ ann \in Annotations
    /\ gov \in Annotations \cup {Plain}
    /\ arr_gov \in [Depths -> Annotations \cup {Plain}]
    /\ arr_count \in [Depths -> Nat] /\ arr_dim_count \in [Depths -> Nat]
    /\ arr_dim_set \in [Depths -> BOOLEAN]
    /\ arr_emitted_unit \in [Depths -> BOOLEAN] /\ arr_need_comma \in [Depths -> BOOLEAN]
    /\ struct_depth \in 0..max_struct_nesting
    /\ array_depth \in 0..max_array_nesting
    /\ struct_depth_at_array_start \in [Depths -> 0..max_struct_nesting]

\* The gate and the serialiser keep the unit of an annotation apart (gov_unit,
\* emitted_unit): a unit that governs is one that was written, and where a value
\* may follow, a unit that was written governs.  The pairs saved for the open
\* rows, and for a row that a "/" may rejoin, say the same.
Mirrored(g, emitted) == /\ emitted => g # Plain
                        /\ g # Plain => (g.unit # NoUnit => emitted)

UnitsMirrored ==
    /\ ~w_in_annotation /\ (ValuePosition \/ w_after_dim) => Mirrored(gov, emitted_unit)
    /\ \A i \in Depths : Mirrored(arr_gov[i], arr_emitted_unit[i])

\* A row is closed in the struct it was opened in: the structs around the open
\* rows only go deeper, and a key waits for its value outside of every row of
\* its own struct.
RowsNested ==
    /\ \A i, j \in 0..(array_depth - 1) :
          i < j => struct_depth_at_array_start[i] =< struct_depth_at_array_start[j]
    /\ \A i \in 0..(array_depth - 1) : struct_depth_at_array_start[i] =< struct_depth
    /\ w_awaiting_value => ~InRow
=============================================================================

---------------------------- MODULE WriterProofs ----------------------------
(***************************************************************************)
(* What Writer promises for every set of families and units and every      *)
(* value of the limits, from its inductive invariant IInv; and what a      *)
(* writer and the reader of its text agree on (RoundTrip), from TripInv.   *)
(*                                                                         *)
(* TripInv sees the reader through Standing, the few things a piece of     *)
(* text depends on, and the writer through Synced, the place its flags put *)
(* a reader in that has read everything.  Reading the unread text leads    *)
(* from the one to the other (Leads): the reader takes a step along it     *)
(* (ReadLeads), an event written adds a stretch to its end (the lemmas     *)
(* named ...Follows).  Aimed is what it takes for the reader to have no    *)
(* reason, in its own state, to turn the next piece away.                  *)
(***************************************************************************)
EXTENDS RoundTrip, TLAPS

\* Where a row has closed and none was opened since, there is room to open one:
\* the row a "/" announces has an entry in the arrays kept by depth, and the
\* annotation saved there is the one the "/" puts in force.
RoomAfterRow == w_after_row_end => array_depth < max_array_nesting

\* What no event spoils.
IInv == TypeOK /\ RowsNested /\ UnitsMirrored /\ RoomAfterRow

-----------------------------------------------------------------------------
(* Types.                                                                  *)

\* bvn_ser_emit_pending_comma touches the innermost row only.
LEMMA CommaWrittenTyped == TypeOK => CommaWritten \in [Depths -> BOOLEAN]
  BY WriterLimits DEF CommaWritten, CommaDue, InRow, TypeOK, Depths

\* bvn_w_element_begins counts one more element of the innermost row.
LEMMA ElementBeginsTyped == TypeOK /\ ElementBegins => arr_count' \in [Depths -> Nat]
<1> SUFFICES ASSUME TypeOK, ElementBegins PROVE arr_count' \in [Depths -> Nat]
  OBVIOUS
<1>1. CASE InRow
  <2>1. arr_count' = [arr_count EXCEPT ![array_depth - 1] = arr_count[array_depth - 1] + 1]
    BY <1>1 DEF ElementBegins
  <2>2. array_depth - 1 \in Depths
    BY <1>1, WriterLimits DEF InRow, Depths, TypeOK
  <2>3. arr_count[array_depth - 1] + 1 \in Nat
    BY <2>2 DEF TypeOK
  <2> QED
    BY <2>1, <2>2, <2>3 DEF TypeOK
<1>2. CASE ~InRow
  BY <1>2 DEF ElementBegins, TypeOK
<1> QED
  BY <1>1, <1>2

\* A value done puts back what was saved as its row began.
LEMMA ValueDoneTyped ==
  ASSUME TypeOK, NEW d, NEW c \in [Depths -> BOOLEAN], ValueDone(d, c)
  PROVE  /\ gov' \in Annotations \cup {Plain}
         /\ emitted_unit' \in BOOLEAN
         /\ arr_need_comma' \in [Depths -> BOOLEAN]
         /\ arr_gov' = arr_gov /\ arr_emitted_unit' = arr_emitted_unit
<1>1. array_depth > 0 => array_depth - 1 \in Depths
  BY WriterLimits DEF TypeOK, Depths
<1>2. gov' \in Annotations \cup {Plain}
  BY <1>1 DEF ValueDone, GateDone, TypeOK
<1>3. emitted_unit' \in BOOLEAN
  BY <1>1 DEF ValueDone, SerialiserDone, TypeOK
<1>4. arr_need_comma' \in [Depths -> BOOLEAN]
  BY <1>1 DEF ValueDone, SerialiserDone
<1> QED
  BY <1>2, <1>3, <1>4 DEF ValueDone

\* A scalar.
LEMMA ValueTyped ==
  ASSUME TypeOK, NEW v \in {"number", "string", "null", "symbol"}, NEW u \in Units \cup {NoUnit}, Value(v, u)
  PROVE  TypeOK'
<1>1. arr_count' \in [Depths -> Nat]
  BY ElementBeginsTyped DEF Value
<1>2. ValueDone(struct_depth, CommaWritten)
  BY DEF Value
<1> QED
  BY <1>1, <1>2, CommaWrittenTyped, ValueDoneTyped
     DEF Value, Begun, annotated, nesting, TypeOK

\* A struct closes.
LEMMA StructEndTyped == TypeOK /\ StructEnd => TypeOK'
<1> SUFFICES ASSUME TypeOK, StructEnd PROVE TypeOK'
  OBVIOUS
<1>1. ValueDone(struct_depth - 1, arr_need_comma) /\ arr_need_comma \in [Depths -> BOOLEAN]
  BY DEF StructEnd, TypeOK
<1>2. struct_depth' \in 0..max_struct_nesting
  BY WriterLimits DEF StructEnd, TypeOK
<1> QED
  BY <1>1, <1>2, ValueDoneTyped, ZenonT(60) DEF StructEnd, Begun, annotated, rows, TypeOK

\* An octet stream: its start counts an element, its end is a value done.
LEMMA OctetsTyped == TypeOK /\ (OctetStreamStart \/ OctetChunk \/ OctetStreamEnd) => TypeOK'
<1> SUFFICES ASSUME TypeOK, OctetStreamStart \/ OctetChunk \/ OctetStreamEnd PROVE TypeOK'
  OBVIOUS
<1>1. CASE OctetStreamStart
  <2>1. arr_count' \in [Depths -> Nat]
    BY <1>1, ElementBeginsTyped DEF OctetStreamStart
  <2>2. arr_need_comma' \in [Depths -> BOOLEAN]
    BY <1>1, CommaWrittenTyped DEF OctetStreamStart
  <2> QED
    BY <1>1, <2>1, <2>2, ZenonT(90) DEF OctetStreamStart, Begun, annotated, governed, TypeOK
<1>2. CASE OctetChunk
  BY <1>2, ZenonT(90) DEF OctetChunk, Begun, annotated, governed, rows, commas, nesting, TypeOK
<1>3. CASE OctetStreamEnd
  <2>1. ValueDone(struct_depth, arr_need_comma) /\ arr_need_comma \in [Depths -> BOOLEAN]
    BY <1>3 DEF OctetStreamEnd, TypeOK
  <2> QED
    BY <1>3, <2>1, ValueDoneTyped, ZenonT(60) DEF OctetStreamEnd, Begun, annotated, rows, TypeOK
<1> QED
  BY <1>1, <1>2, <1>3

\* A struct opens, as an element or after a key.
LEMMA StructStartTyped == TypeOK /\ StructStart => TypeOK'
<1> SUFFICES ASSUME TypeOK, StructStart PROVE TypeOK'
  OBVIOUS
<1>1. arr_count' \in [Depths -> Nat]
  BY ElementBeginsTyped DEF StructStart
<1>2. struct_depth' \in 0..max_struct_nesting
  BY WriterLimits DEF StructStart, TypeOK
<1> QED
  BY <1>1, <1>2, CommaWrittenTyped, ZenonT(60) DEF StructStart, Begun, annotated, governed, TypeOK

\* A row opens one level deeper.
LEMMA RowStartTyped == TypeOK /\ RowStart => TypeOK'
<1> SUFFICES ASSUME TypeOK, RowStart PROVE TypeOK'
  OBVIOUS
<1>1. array_depth \in Depths /\ array_depth' \in 0..max_array_nesting
  BY WriterLimits DEF RowStart, RoomForRow, TypeOK, Depths
<1>2. arr_count' \in [Depths -> Nat]
  <2>1. \A i \in Depths : arr_count[i] \in Nat /\ arr_count[i] + 1 \in Nat /\ arr_count[i] + 0 \in Nat
    BY DEF TypeOK
  <2> QED
    BY <2>1 DEF RowStart
<1>3. arr_need_comma' \in [Depths -> BOOLEAN] /\ arr_dim_set' \in [Depths -> BOOLEAN]
  BY <1>1, CommaWrittenTyped DEF RowStart, TypeOK
<1>4. /\ struct_depth_at_array_start' \in [Depths -> 0..max_struct_nesting]
      /\ arr_gov' \in [Depths -> Annotations \cup {Plain}]
      /\ arr_emitted_unit' \in [Depths -> BOOLEAN]
  BY <1>1 DEF RowStart, TypeOK
<1> QED
  BY <1>1, <1>2, <1>3, <1>4, ZenonT(60) DEF RowStart, Begun, annotated, TypeOK

\* A row closes, and a "/" announces the next: both put saved entries in force.
LEMMA RowEndTyped == TypeOK /\ (RowEnd \/ DimStart) => TypeOK'
<1> SUFFICES ASSUME TypeOK, RowEnd \/ DimStart PROVE TypeOK'
  OBVIOUS
<1>1. CASE RowEnd
  <2>1. array_depth - 1 \in Depths /\ array_depth' \in 0..max_array_nesting
    BY <1>1, WriterLimits DEF RowEnd, InRow, TypeOK, Depths
  <2>2. array_depth - 1 > 0 => array_depth - 2 \in Depths /\ (array_depth - 1) - 1 = array_depth - 2
    BY <2>1, WriterLimits DEF TypeOK, Depths
  <2>3. gov' \in Annotations \cup {Plain}
    BY <1>1, <2>1, <2>2 DEF RowEnd, TypeOK
  <2>4. emitted_unit' \in BOOLEAN
    BY <1>1, <2>1, <2>2 DEF RowEnd, TypeOK
  <2>5. arr_need_comma' \in [Depths -> BOOLEAN] /\ arr_dim_set' \in [Depths -> BOOLEAN]
    BY <1>1, <2>1, <2>2 DEF RowEnd, TypeOK
  <2>6. arr_dim_count' \in [Depths -> Nat]
    BY <1>1, <2>1 DEF RowEnd, TypeOK
  <2> QED
    BY <1>1, <2>1, <2>3, <2>4, <2>5, <2>6, ZenonT(90) DEF RowEnd, Begun, annotated, TypeOK
<1>2. CASE DimStart
  <2>1. array_depth < max_array_nesting => array_depth \in Depths
    BY WriterLimits DEF TypeOK, Depths
  <2>2. gov' \in Annotations \cup {Plain}
    BY <1>2, <2>1 DEF DimStart, DimGoverned, TypeOK
  <2>3. emitted_unit' \in BOOLEAN
    BY <1>2, <2>1 DEF DimStart, TypeOK
  <2>4. arr_need_comma' \in [Depths -> BOOLEAN]
    BY <1>2, WriterLimits DEF DimStart, InRow, TypeOK, Depths
  <2> QED
    BY <1>2, <2>2, <2>3, <2>4, ZenonT(90) DEF DimStart, Begun, annotated, nesting, TypeOK
<1> QED
  BY <1>1, <1>2

\* What leaves the gate and the rows alone has only flags to type.
LEMMA FlagsTyped ==
  ASSUME TypeOK, UNCHANGED <<w_awaiting_value, annotated, governed, rows, commas, nesting>>,
         pretty' \in BOOLEAN, failed' \in BOOLEAN, finished' \in BOOLEAN, stream_begun' \in BOOLEAN,
         version_emitted' \in BOOLEAN, w_stream_ended' \in BOOLEAN, need_semi' \in BOOLEAN
  PROVE  TypeOK'
  BY ZenonT(90) DEF annotated, governed, rows, commas, nesting, TypeOK

\* The parts of an annotation that change only what it says, and its unit.
LEMMA PartsTyped ==
  ASSUME TypeOK, Begun, ann' \in Annotations, emitted_unit' \in BOOLEAN,
         UNCHANGED <<w_awaiting_value, need_semi, w_in_annotation, gov, arr_gov, arr_emitted_unit, rows,
                     commas, nesting>>
  PROVE  TypeOK'
  BY ZenonT(90) DEF Begun, rows, commas, nesting, TypeOK

\* Every event keeps the types.
LEMMA TypeKept == TypeOK /\ WriterNext => TypeOK'
<1> SUFFICES ASSUME TypeOK, WriterNext PROVE TypeOK'
  OBVIOUS
<1>1. CASE StreamStart
  BY <1>1, FlagsTyped DEF StreamStart, Begun, TypeOK
<1>2. CASE StreamEnd \/ WriteVersion \/ WriteFinish \/ CallFails
  BY <1>2, FlagsTyped DEF StreamEnd, WriteVersion, WriteFinish, CallFails, TypeOK
<1>3. CASE AssignmentStart
  BY <1>3, ZenonT(60) DEF AssignmentStart, Begun, annotated, rows, nesting, TypeOK
<1>4. CASE Annotate
  <2>1. ASSUME NEW f \in Families, NEW u \in Units \cup {NoUnit}, AnnotationStart(f, u) PROVE TypeOK'
    <3>1. arr_need_comma' \in [Depths -> BOOLEAN] /\ ann' \in Annotations
      BY <2>1, CommaWrittenTyped DEF AnnotationStart, Annotations
    <3> QED
      BY <2>1, <3>1, ZenonT(60) DEF AnnotationStart, Begun, rows, nesting, TypeOK
  <2>2. ASSUME NEW f \in Families, AnnotationFamily(f) PROVE TypeOK'
    <3>1. ann' \in Annotations
      BY <2>2 DEF AnnotationFamily, Annotations, TypeOK
    <3> QED
      BY <2>2, <3>1, PartsTyped DEF AnnotationFamily, governed, TypeOK
  <2>3. CASE AnnotationWidth
    BY <2>3, PartsTyped DEF AnnotationWidth, governed, TypeOK
  <2>4. ASSUME NEW u \in Units \cup {NoUnit}, NEW plain \in BOOLEAN, AnnotationUnit(u, plain) PROVE TypeOK'
    <3>1. ann' \in Annotations
      BY <2>4 DEF AnnotationUnit, Annotations, TypeOK
    <3>2. emitted_unit' \in BOOLEAN
      BY <2>4 DEF AnnotationUnit, TypeOK
    <3> QED
      BY <2>4, <3>1, <3>2, PartsTyped DEF AnnotationUnit
  <2>5. CASE AnnotationEnd
    <3>1. ann' \in Annotations /\ emitted_unit' \in BOOLEAN
      BY <2>5, WriterTypes DEF AnnotationEnd, NoAnnotation, UnitLeftToWrite, Annotations, TypeOK
    <3>2. gov' \in Annotations
      BY <2>5 DEF AnnotationEnd, Annotations, TypeOK
    <3> QED
      BY <2>5, <3>1, <3>2, ZenonT(60) DEF AnnotationEnd, stream, rows, commas, nesting, TypeOK
  <2> QED
    BY <1>4, <2>1, <2>2, <2>3, <2>4, <2>5 DEF Annotate
<1>5. CASE Values
  BY <1>5, ValueTyped, OctetsTyped DEF Values
<1>6. CASE StructStart \/ StructEnd \/ RowStart \/ RowEnd \/ DimStart
  BY <1>6, StructStartTyped, StructEndTyped, RowStartTyped, RowEndTyped
<1> QED
  BY <1>1, <1>2, <1>3, <1>4, <1>5, <1>6 DEF WriterNext

-----------------------------------------------------------------------------
(* Nesting.                                                                *)

\* What changes no level, opens no row and awaits no new value keeps the nesting.
LEMMA LevelsKept ==
  ASSUME RowsNested, RoomAfterRow, UNCHANGED <<struct_depth, array_depth, struct_depth_at_array_start>>,
         w_awaiting_value' => w_awaiting_value, w_after_row_end' => w_after_row_end
  PROVE  RowsNested' /\ RoomAfterRow'
  BY DEF RowsNested, RoomAfterRow, InRow, DirectElement

\* Every event keeps the nesting.  A struct opens below every row, and closes
\* only once the rows opened in it have; a row opens at the level of the struct
\* it is in.
LEMMA NestingKept == TypeOK /\ RowsNested /\ RoomAfterRow /\ WriterNext => RowsNested' /\ RoomAfterRow'
<1> SUFFICES ASSUME TypeOK, RowsNested, RoomAfterRow, WriterNext PROVE RowsNested' /\ RoomAfterRow'
  OBVIOUS
<1>1. CASE StreamStart \/ StreamEnd \/ WriteVersion \/ WriteFinish \/ CallFails
  BY <1>1, LevelsKept DEF StreamStart, StreamEnd, WriteVersion, WriteFinish, CallFails, rows, nesting
<1>2. CASE AssignmentStart
  BY <1>2 DEF AssignmentStart, KeyPosition, RowsNested, RoomAfterRow, InRow, DirectElement, rows, nesting
<1>3. CASE Annotate
  <2>1. UNCHANGED <<w_awaiting_value, rows, nesting>>
    BY <1>3 DEF Annotate, AnnotationStart, AnnotationFamily, AnnotationWidth, AnnotationUnit, AnnotationEnd
  <2> QED
    BY <2>1, LevelsKept DEF rows, nesting
<1>4. CASE Values
  <2>1. /\ UNCHANGED <<struct_depth, array_depth, struct_depth_at_array_start>>
        /\ w_after_row_end' = w_after_row_end
        /\ w_awaiting_value' = FALSE \/ w_awaiting_value' = w_awaiting_value
    BY <1>4 DEF Values, Value, OctetStreamStart, OctetChunk, OctetStreamEnd, rows, nesting
  <2>2. (w_awaiting_value' => w_awaiting_value) /\ (w_after_row_end' => w_after_row_end)
    BY <2>1
  <2> QED
    BY <2>1, <2>2, LevelsKept
<1>5. CASE StructStart
  BY <1>5, WriterLimits DEF StructStart, RowsNested, RoomAfterRow, TypeOK, Depths
<1>6. CASE StructEnd
  <2>1. /\ struct_depth' = struct_depth - 1 /\ ~InRow
        /\ UNCHANGED <<array_depth, struct_depth_at_array_start, w_after_row_end>>
        /\ ~w_awaiting_value'
    BY <1>6 DEF StructEnd, ClosesNoRow, rows
  <2>2. ASSUME NEW i \in 0..(array_depth - 1) PROVE struct_depth_at_array_start[i] =< struct_depth - 1
    <3>1. i \in Depths /\ array_depth - 1 \in Depths /\ array_depth > 0
      BY <2>2, WriterLimits DEF TypeOK, Depths
    <3>2. struct_depth_at_array_start[array_depth - 1] =< struct_depth - 1
      BY <2>1, <3>1 DEF InRow, DirectElement, RowsNested, TypeOK
    <3>3. struct_depth_at_array_start[i] =< struct_depth_at_array_start[array_depth - 1]
      BY <2>2, <3>1 DEF RowsNested, TypeOK
    <3> QED
      BY <3>1, <3>2, <3>3 DEF TypeOK
  <2> QED
    BY <2>1, <2>2 DEF RowsNested, RoomAfterRow
<1>7. CASE RowStart
  <2>1. /\ struct_depth_at_array_start' = [struct_depth_at_array_start EXCEPT ![array_depth] = struct_depth]
        /\ array_depth' = array_depth + 1 /\ struct_depth' = struct_depth
        /\ ~w_after_row_end' /\ ~w_awaiting_value'
        /\ array_depth \in Depths
    BY <1>7, WriterLimits DEF RowStart, RoomForRow, TypeOK, Depths
  <2>2. struct_depth_at_array_start'[array_depth] = struct_depth
    BY <2>1 DEF TypeOK
  <2>3. \A i \in 0..(array_depth - 1) : struct_depth_at_array_start'[i] = struct_depth_at_array_start[i]
    BY <2>1 DEF TypeOK, Depths
  <2>4. 0..(array_depth' - 1) = (0..(array_depth - 1)) \cup {array_depth}
    BY <2>1 DEF TypeOK, Depths
  <2>5. \A i \in 0..(array_depth' - 1) : struct_depth_at_array_start'[i] =< struct_depth'
    BY <2>1, <2>2, <2>3, <2>4 DEF RowsNested, TypeOK
  <2>6. ASSUME NEW i \in 0..(array_depth' - 1), NEW j \in 0..(array_depth' - 1), i < j
        PROVE  struct_depth_at_array_start'[i] =< struct_depth_at_array_start'[j]
    <3>1. i \in 0..(array_depth - 1) /\ i # array_depth
      BY <2>1, <2>4, <2>6 DEF TypeOK, Depths
    <3>2. CASE j = array_depth
      BY <2>2, <2>3, <3>1, <3>2 DEF RowsNested
    <3>3. CASE j # array_depth
      BY <2>3, <2>4, <2>6, <3>1, <3>3 DEF RowsNested
    <3> QED
      BY <3>2, <3>3
  <2> QED
    BY <2>1, <2>5, <2>6 DEF RowsNested, RoomAfterRow
<1>8. CASE RowEnd
  <2>1. /\ array_depth' = array_depth - 1
        /\ UNCHANGED <<struct_depth, struct_depth_at_array_start, w_awaiting_value>>
        /\ ~w_awaiting_value
    BY <1>8 DEF RowEnd, RowsNested
  <2>2. \A i \in 0..(array_depth' - 1) : i \in 0..(array_depth - 1)
    BY <2>1 DEF TypeOK
  <2> QED
    BY <2>1, <2>2, WriterLimits DEF RowsNested, RoomAfterRow, TypeOK
<1>9. CASE DimStart
  BY <1>9, LevelsKept DEF DimStart, nesting
<1> QED
  BY <1>1, <1>2, <1>3, <1>4, <1>5, <1>6, <1>7, <1>8, <1>9 DEF WriterNext

-----------------------------------------------------------------------------
(* The unit that governs, on both sides.                                   *)

\* Outside of annotations the two sides change together: at a key both forget,
\* at an annotation's end both learn what it said, and a value, a row or a "/"
\* puts a saved pair in force on both.
LEMMA UnitsKept == IInv /\ WriterNext => UnitsMirrored'
<1> SUFFICES ASSUME IInv, WriterNext PROVE UnitsMirrored'
  OBVIOUS
<1> USE WriterLimits, PlainGovernsNothing
    DEF IInv, UnitsMirrored, Mirrored, TypeOK, ValuePosition, Depths, InRow, DirectElement
<1>1. CASE StreamStart \/ StreamEnd \/ WriteVersion \/ WriteFinish \/ CallFails
  BY <1>1, SMTT(30) DEF StreamStart, StreamEnd, WriteVersion, WriteFinish, CallFails, annotated, governed, rows, nesting
<1>2. CASE AssignmentStart
  BY <1>2 DEF AssignmentStart
<1>3. CASE Annotate
  <2>1. CASE AnnotationEnd
    BY <2>1, WriterTypes DEF AnnotationEnd, UnitLeftToWrite, Annotations, rows, nesting
  <2>2. CASE ~AnnotationEnd
    <3>1. w_in_annotation' /\ UNCHANGED <<arr_gov, arr_emitted_unit>>
      BY <1>3, <2>2 DEF Annotate, AnnotationStart, AnnotationFamily, AnnotationWidth, AnnotationUnit,
                        InAnnotation, governed
    <3> QED
      BY <3>1
  <2> QED
    BY <2>1, <2>2
<1>4. ASSUME NEW v \in {"number", "string", "null", "symbol"}, NEW u \in Units \cup {NoUnit}, Value(v, u)
      PROVE  UnitsMirrored'
  <2>1. /\ ValueDone(struct_depth, CommaWritten)
        /\ ~w_awaiting_value' /\ ~w_after_dim' /\ ~in_octet_stream'
        /\ UNCHANGED <<struct_depth, array_depth, struct_depth_at_array_start>>
    BY <1>4 DEF Value, Idle, ForValue, NotAfterDim, nesting
  <2> QED
    BY <2>1 DEF ValueDone, GateDone, SerialiserDone
<1>5. CASE OctetStreamStart
  BY <1>5 DEF OctetStreamStart, Idle, annotated, governed
<1>6. CASE OctetChunk
  BY <1>6 DEF OctetChunk, annotated, governed, rows, nesting
<1>7. CASE OctetStreamEnd
  BY <1>7 DEF OctetStreamEnd, ValueDone, GateDone, SerialiserDone, annotated, rows, Otherwise, NotAfterDim
<1>8. CASE StructStart
  BY <1>8 DEF StructStart, Idle, annotated, governed, ForValue, NotAfterDim
<1>9. CASE StructEnd
  BY <1>9 DEF StructEnd, ClosesNoRow, Idle, ValueDone, GateDone, SerialiserDone, annotated, rows, Otherwise,
              NotAfterDim, RowsNested
<1>10. CASE RowStart
  BY <1>10 DEF RowStart, RoomForRow, Idle, annotated
<1>11. CASE RowEnd
  BY <1>11 DEF RowEnd, annotated
<1>12. CASE DimStart
  BY <1>12 DEF DimStart, DimGoverned, RoomAfterRow, annotated, nesting
<1> QED
  BY <1>1, <1>2, <1>3, <1>4, <1>5, <1>6, <1>7, <1>8, <1>9, <1>10, <1>11, <1>12 DEF WriterNext, Values

-----------------------------------------------------------------------------
(* The theorems.                                                           *)

\* A writer just initialised.
LEMMA InitIInv == WriterInit => IInv
<1> SUFFICES ASSUME WriterInit PROVE IInv
  OBVIOUS
<1>1. NoAnnotation \in Annotations
  <2>1. PICK f \in Families : f = CHOOSE g \in Families : TRUE
    BY WriterTypes
  <2> QED
    BY <2>1 DEF NoAnnotation, Annotations
<1>2. TypeOK
  BY <1>1, WriterLimits DEF WriterInit, TypeOK, Depths
<1>3. RowsNested /\ UnitsMirrored /\ RoomAfterRow
  BY WriterLimits DEF WriterInit, RowsNested, UnitsMirrored, Mirrored, RoomAfterRow, InRow
<1> QED
  BY <1>2, <1>3 DEF IInv

\* A call that is not made changes nothing.
LEMMA StutterKeeps == IInv /\ UNCHANGED writerVars => IInv'
  BY DEF writerVars, stream, annotated, governed, rows, commas, nesting, IInv, TypeOK, RowsNested, UnitsMirrored,
         Mirrored, RoomAfterRow, InRow, DirectElement, ValuePosition

\* The invariant of the writer: types, nesting, the two sides' units and the
\* room after a row, whatever order the events come in.
THEOREM WriterInvariance == WriterSpec => []IInv
<1>1. IInv /\ [WriterNext]_writerVars => IInv'
  BY TypeKept, NestingKept, UnitsKept, StutterKeeps DEF IInv
<1> QED
  BY <1>1, InitIInv, PTL DEF WriterSpec

\* Types and limits of the writer (bvnr_writer_t): no event, in any order,
\* opens more rows or structs than it has entries for.
THEOREM WriterTypeCorrect == WriterSpec => []TypeOK
<1>1. IInv => TypeOK
  BY DEF IInv
<1> QED
  BY <1>1, WriterInvariance, PTL

\* Rows close in the struct they were opened in (bovnar_writer.c,
\* struct_depth_at_array_start).
THEOREM WriterRowsNest == WriterSpec => []RowsNested
<1>1. IInv => RowsNested
  BY DEF IInv
<1> QED
  BY <1>1, WriterInvariance, PTL

\* The gate's governing unit and the serialiser's emitted_unit agree wherever
\* a value may follow, in every row and after every "/".
THEOREM WriterUnitsAgree == WriterSpec => []UnitsMirrored
<1>1. IInv => UnitsMirrored
  BY DEF IInv
<1> QED
  BY <1>1, WriterInvariance, PTL

-----------------------------------------------------------------------------
(* The round trip (RoundTrip), whose steps are the writer's or the         *)
(* reader's.                                                               *)

(* Where the reader stands: its place in the state table, whether a token  *)
(* is there to finalise, how many structs are open, a record for each open *)
(* row, the width of the row that has just closed, and how many of the     *)
(* events written it has still to tell.                                    *)
\* A row has just closed, and its width is at hand.
AtWidth == next_state \in {"array_outro", "array_dim_sep"}

OpenRow(l) ==
    [open  |-> arr_frames[l].open_struct_level,
     size  |-> IF l = array_nesting_level THEN curr_row_size ELSE arr_frames[l].saved_curr,
     width |-> IF l = array_nesting_level THEN array_row_size ELSE arr_frames[l].saved_row]

Pending     == IF token_type \in {"null", "value"} THEN 1 ELSE 0
OpenRows    == [l \in 1..array_nesting_level |-> OpenRow(l)]
ClosedWidth == IF AtWidth THEN arr_frames[array_nesting_level].dim_row_size ELSE 0

Stand(place, token, structs, stack, dim, left) ==
    [at |-> place, fin |-> token, structs |-> structs, rows |-> stack, dim |-> dim, left |-> left]

Standing == Stand(next_state, Pending, struct_nesting_level, OpenRows, ClosedWidth, Len(due))

\* Where a key may begin, where a value may, where one has just ended, and
\* where a blank changes nothing.
KeyPlaces   == {"first_bom", "struct_intro", "value_outro"}
ValuePlaces == {"value_intro", "type_outro", "array_intro", "new_array_value"}
ElementEnds == {"scalar", "string_outro", "octet_stream_outro", "struct_outro", "array_outro"}
ValueEnds   == ElementEnds \cup {"value_intro", "type_outro", "inline_unit"}
Settled     == KeyPlaces \cup ValuePlaces \cup ValueEnds \cup {"identifier", "array_dim_sep", "octet_stream_intro"}

\* The events a separator tells: the annotation, or the token; the row a
\* separator belongs to.
Owes(r)      == IF r.at = "type_outro" THEN 1 ELSE r.fin
Innermost(r) == r.rows[Len(r.rows)]
Own(r)       == Len(r.rows) > 0 /\ Innermost(r).open = r.structs

\* What the writer's text is made of.
\* The innermost row is as wide as the row before its "/".
Even(r) == Innermost(r).width \in {R!Unset, IF r.at = "array_intro" THEN 0 ELSE Innermost(r).size}

Pieces == {"hash", "nl", "dot", "id", "unit", "eq", "quote", "lt", "gt", "semi", "comma", "rbr", "lbr", "slash",
           "lcb", "rcb", "nul", "chunk"}

\* The places a piece of the writer's text is for.
Takable(r, piece) ==
    CASE piece = "hash"  -> r.at = "first_bom"
      [] piece = "nl"    -> r.at \in Settled \cup {"first_comment"}
      [] piece = "dot"   -> r.at \in KeyPlaces
      [] piece = "id"    -> r.at \in ValuePlaces \cup {"first_comment", "identifier", "type_body"}
      [] piece = "unit"  -> r.at \in {"scalar", "string_outro"} /\ ~Own(r)
      [] piece = "eq"    -> r.at = "identifier"
      [] piece = "quote" -> r.at \in ValuePlaces \cup {"string"}
      [] piece = "lt"    -> r.at \in ValuePlaces \ {"type_outro"}
      [] piece = "gt"    -> r.at = "type_body"
      [] piece = "semi"  -> r.at \in ValueEnds /\ ~Own(r) /\ (r.structs = 0 => Len(r.rows) = 0)
      [] piece = "comma" -> r.at \in ElementEnds \cup {"type_outro"} /\ Own(r)
      [] piece = "rbr"   -> r.at \in ElementEnds \cup {"type_outro", "array_intro"} /\ Own(r) /\ Even(r)
      [] piece = "lbr"   -> r.at \in ValuePlaces \cup {"array_dim_sep"} /\ Len(r.rows) < max_array_nesting
      [] piece = "slash" -> r.at \in Settled
      [] piece = "lcb"   -> r.at \in ValuePlaces /\ r.structs < max_struct_nesting
      [] piece = "rcb"   -> r.at \in KeyPlaces /\ r.structs > 0
      [] piece = "nul"   -> r.at \in ValuePlaces \cup {"octet_stream_intro"}
      [] piece = "chunk" -> r.at = "octet_stream_intro"
      [] OTHER           -> FALSE

\* Where a reader that takes it goes; whether it does is not asked.
To(r, place, token, told) == Stand(place, token, r.structs, r.rows, 0, r.left - told)

\* One element more.
AfterComma(r) ==
    Stand("new_array_value", 1, r.structs,
          [r.rows EXCEPT ![Len(r.rows)] = [open |-> @.open, size |-> @.size + 1, width |-> @.width]],
          0, r.left - Owes(r))

\* A row less; an empty one owes no element.
AfterRbr(r) ==
    LET empty == r.at = "array_intro" IN
    Stand("array_outro", 0, r.structs, SubSeq(r.rows, 1, Len(r.rows) - 1),
          IF empty THEN 0 ELSE Innermost(r).size, r.left - (IF empty THEN 1 ELSE Owes(r) + 1))

\* A row more.
AfterLbr(r) ==
    Stand("array_intro", 1, r.structs,
          Append(r.rows, [open |-> r.structs, size |-> 1,
                          width |-> IF r.at = "array_dim_sep" THEN r.dim ELSE R!Unset]),
          0, r.left - 1)

After(r, piece) ==
    CASE piece = "hash"  -> To(r, "first_comment", r.fin, 0)
      [] piece = "nl"    -> IF r.at = "first_comment" THEN To(r, "first_bom", r.fin, 0) ELSE r
      [] piece = "dot"   -> To(r, "identifier", 0, 0)
      [] piece = "id"    -> IF r.at \in ValuePlaces THEN To(r, "scalar", 1, 0) ELSE r
      [] piece = "unit"  -> To(r, "inline_unit", r.fin, 0)
      [] piece = "eq"    -> To(r, "value_intro", 1, 1)
      [] piece = "quote" -> IF r.at = "string" THEN To(r, "string_outro", r.fin, 0) ELSE To(r, "string", 1, 0)
      [] piece = "lt"    -> To(r, "type_body", 0, 0)
      [] piece = "gt"    -> To(r, "type_outro", 0, 1)
      [] piece = "semi"  -> To(r, "value_outro", 0, Owes(r))
      [] piece = "comma" -> AfterComma(r)
      [] piece = "rbr"   -> AfterRbr(r)
      [] piece = "lbr"   -> AfterLbr(r)
      [] piece = "slash" -> IF r.at = "array_outro"
                            THEN Stand("array_dim_sep", r.fin, r.structs, r.rows, r.dim, r.left - 1) ELSE r
      [] piece = "lcb"   -> Stand("struct_intro", 0, r.structs + 1, r.rows, 0, r.left - 1)
      [] piece = "rcb"   -> Stand("struct_outro", r.fin, r.structs - 1, r.rows, 0, r.left - 1)
      [] piece = "nul"   -> To(r, IF r.at = "octet_stream_intro" THEN "octet_stream_outro"
                                  ELSE "octet_stream_intro", 0, 1)
      [] piece = "chunk" -> To(r, r.at, r.fin, 1)

\* Reading the text t leads from r to s.
Leads(r, t, s) ==
    \E f : /\ f[0] = r /\ f[Len(t)] = s
           /\ \A n \in 1..Len(t) : Takable(f[n - 1], t[n]) /\ f[n] = After(f[n - 1], t[n])

(* Where the writer takes the reader to be.                                *)

\* Elements begun in the row at depth d.
BegunIn(d) == arr_count[d] + (IF InRow /\ d = array_depth - 1 /\ had_type_annotation THEN 1 ELSE 0)

\* The rows as the reader has to have counted them.
GateRow(d) ==
    [open  |-> struct_depth_at_array_start[d],
     size  |-> IF BegunIn(d) = 0 THEN 1 ELSE BegunIn(d),
     width |-> IF arr_dim_set[d] THEN arr_dim_count[d] ELSE R!Unset]

GateRows == [l \in 1..array_depth |-> GateRow(l - 1)]

\* The width of the row that closed last is the one the next "/" row must have.
WidthKnown(s) == arr_dim_set[array_depth] /\ s.dim = arr_dim_count[array_depth]

\* Where a reader is that has read everything, by the writer's flags.
Placed(s) ==
    IF w_in_annotation THEN s.at = "type_body" /\ s.fin = 0 /\ s.left = 0
    ELSE IF in_octet_stream THEN s.at = "octet_stream_intro" /\ s.fin = 0 /\ s.left = 0
    ELSE IF w_after_dim THEN s.at = "array_dim_sep" /\ s.left = 0 /\ WidthKnown(s)
    ELSE IF had_type_annotation THEN s.at = "type_outro" /\ s.fin = 0 /\ s.left = 0
    ELSE IF w_awaiting_value THEN s.at = "value_intro" /\ s.fin = 1 /\ s.left = 0
    ELSE IF InRow /\ arr_count[array_depth - 1] = 0 THEN s.at = "array_intro" /\ s.fin = 1 /\ s.left = 0
    ELSE IF InRow \/ need_semi
    THEN /\ s.at \in (IF InRow THEN ElementEnds ELSE ValueEnds)
         /\ s.left = Owes(s)
         /\ s.at = "array_outro" => WidthKnown(s) /\ s.fin = 0
    ELSE /\ s.at \in KeyPlaces /\ s.fin = 0 /\ s.left = 0
         /\ s.at = "struct_intro" => struct_depth > 0

\* What the last row end says of the place.
Closed(s) == row_closed /\ astray = "no" /\ ~w_in_annotation /\ ~finished => s.at = "array_outro"

\* A reader's standing that is the writer's.
Synced(s) ==
    /\ s.structs = struct_depth
    /\ s.rows = GateRows
    /\ s.at \notin {"array_outro", "array_dim_sep"} => s.dim = 0
    /\ astray # "separator" => Placed(s)
    /\ Closed(s)
    /\ ~stream_begun => s.at = "first_bom"

\* The writer's flags, as far as the places need them.
AnElementIn(d) ==
    d < array_depth - 1 \/ ~InRow \/ w_after_dim \/ w_after_row_end \/ in_octet_stream => arr_count[d] > 0

\* What is under way excludes the rest: an annotation, an octet stream, a "/".
Annotating ==
    /\ w_in_annotation => had_type_annotation /\ ~in_octet_stream
    /\ had_type_annotation => (InRow \/ w_awaiting_value) /\ ~w_after_dim
    /\ in_octet_stream => ~had_type_annotation /\ (InRow \/ w_awaiting_value)

\* A row that is not just begun has an element.
ElementsHeld == \A d \in 0..(array_depth - 1) : AnElementIn(d)

\* A comma is due after the first element of a row, never after a "/".
CommasDue ==
    /\ InRow /\ ~had_type_annotation /\ ~in_octet_stream /\ ~w_after_dim =>
         (arr_need_comma[array_depth - 1] <=> arr_count[array_depth - 1] > 0)
    /\ InRow /\ w_after_dim => ~arr_need_comma[array_depth - 1]

\* A finished document owes nothing.
Ended == finished => Complete /\ ~need_semi /\ ~had_type_annotation

\* Nothing is open before the first event.
Fresh ==
    ~stream_begun => /\ array_depth = 0 /\ struct_depth = 0 /\ ~w_after_dim /\ ~w_after_row_end
                     /\ ~w_awaiting_value /\ ~in_octet_stream /\ ~had_type_annotation /\ ~need_semi

\* All that the writer's flags say of each other.
Flagged == Annotating /\ ElementsHeld /\ CommasDue /\ Ended /\ Fresh

-----------------------------------------------------------------------------
(* The reader's half.                                                      *)

\* The events of the writer's that a reader tells.
Tellable == {"assignment_start", "annotation", "data", "struct_start", "struct_end", "row_start", "row_end",
             "dim_start", "octets_start", "octets", "octets_end"}

Due == [ev : Tellable, type : Annotations \cup {Plain}]

\* The reader's types, and what it keeps of a "/": only where one may follow,
\* or has, is the frame at hand in use, and wiped by a ';'.
ReaderSound ==
    /\ ~flags.continue_on_error
    /\ struct_nesting_level \in Nat /\ array_nesting_level \in R!Levels
    /\ arr_frames \in [R!Levels -> R!Frame] /\ arr_used_max \in R!Levels
    /\ curr_row_size \in Nat /\ array_row_size \in Nat \cup {R!Unset}
    /\ value_type \in R!Types
    /\ due \in Seq(Due)
    /\ array_nesting_level =< arr_used_max
    /\ AtWidth => array_nesting_level < arr_used_max
    /\ next_state = "array_dim_sep" => arr_frames[array_nesting_level].in_dim_seq
    /\ arr_frames[array_nesting_level].in_dim_seq => AtWidth

\* One piece taken: the events told are off the front of those due.
Told ==
    /\ status' = "running"
    /\ Len(sent') =< Len(due)
    /\ due' = SubSeq(due, Len(sent') + 1, Len(due))
    /\ UNCHANGED flags

\* The reader takes the piece, and what it tells is told.
Hears(p) == Takes(p) /\ due' = SubSeq(due, Len(sent') + 1, Len(due))

\* It stands where After says, and its own invariant holds.
Sequel(p) == Standing' = After(Standing, p) /\ ReaderSound'

\* What is left of the events due.
LEMMA ToldLeft ==
  ASSUME due \in Seq(Due), Told, Len(sent') \in Nat
  PROVE  due' \in Seq(Due) /\ Len(due') = Len(due) - Len(sent')
<1>1. Len(sent') \in Nat /\ Len(due) \in Nat /\ Len(sent') =< Len(due)
  BY DEF Told
<1> QED
  BY <1>1 DEF Told

\* A handler's guard, by the byte it is for.
LEMMA Handlers ==
  ASSUME NEW b, R!Dispatch(b), next_state \notin R!ResyncStates
  PROVE  \/ R!Reject(b)
         \/ b = "nl" /\ (R!Blank(b) \/ R!CommentOutro(b) \/ R!FirstCommentOutro(b))
         \/ b \in {"lead", "cont"} /\ R!ByteOrderMark(b)
         \/ b = "hash" /\ R!CommentIntro(b)
         \/ next_state \in R!CommentStates /\ R!CommentByte(b)
         \/ b = "dot" /\ R!IdentifierIntro(b)
         \/ R!CopyByte(b)
         \/ b = "eq" /\ R!ValueIntro(b)
         \/ b = "lt" /\ R!TypeIntro(b)
         \/ b = "gt" /\ R!TypeOutro(b)
         \/ b \in {"dot", "id", "lead"} /\ R!ScalarIntro(b)
         \/ b = "quote" /\ R!StringIntro(b)
         \/ R!StringStep(b)
         \/ R!ReferenceIndex(b)
         \/ b \in {"id", "lead"} /\ R!InlineUnitIntro(b)
         \/ b = "semi" /\ R!ValueOutro(b)
         \/ b = "comma" /\ R!NewArrayValue(b)
         \/ b = "rbr" /\ R!ArrayOutro(b)
         \/ b = "lbr" /\ R!ArrayIntro(b)
         \/ b = "slash" /\ R!ArrayDimSep(b)
         \/ b = "lcb" /\ R!StructIntro(b)
         \/ b = "rcb" /\ R!StructOutro(b)
         \/ b = "nul" /\ R!OctetStreamIntro(b)
<1>1. ~(R!ResyncSkips(b) \/ R!ResyncOpenBracket(b) \/ R!ResyncCloseArray(b) \/ R!ResyncCloseStruct(b)
        \/ R!ResyncSemicolon(b) \/ R!ResyncResumeIdentifier(b))
  BY DEF R!ResyncSkips, R!ResyncOpenBracket, R!ResyncCloseArray, R!ResyncCloseStruct,
         R!ResyncSemicolon, R!ResyncResumeIdentifier, R!ResyncStates
<1> QED
  BY <1>1 DEF R!Dispatch, R!Blank, R!CommentOutro, R!FirstCommentOutro, R!ByteOrderMark, R!CommentIntro, R!CommentByte,
         R!IdentifierIntro, R!ValueIntro, R!TypeIntro, R!TypeOutro, R!ScalarIntro, R!StringIntro, R!InlineUnitIntro,
         R!ValueOutro, R!NewArrayValue, R!ArrayOutro, R!ArrayIntro, R!ArrayDimSep, R!StructIntro, R!StructOutro,
         R!OctetStreamIntro

\* Without recovery an error ends the read.
LEMMA ErrorEnds ==
  ASSUME ~flags.continue_on_error, status' = "running"
  PROVE  /\ \A evs : ~R!Fail(evs)
         /\ \A b, evs, items : ~R!ErrorOn(b, evs, items)
         /\ \A b : ~R!Reject(b)
         /\ \A b : ~R!MalformedText(b) /\ ~R!MalformedComment(b)
<1>1. \A evs : ~R!Fail(evs)
  BY DEF R!Fail
<1>2. \A b, evs, items : ~R!ErrorOn(b, evs, items)
  BY <1>1 DEF R!ErrorOn
<1>3. \A b : ~R!Reject(b)
  BY <1>1, <1>2 DEF R!Reject, R!CommentErrorOn
<1> QED
  BY <1>1, <1>2, <1>3 DEF R!MalformedText, R!MalformedComment

\* So a byte taken is one a handler is for.
LEMMA TakenByte ==
  ASSUME NEW b, R!Byte(b), ~flags.continue_on_error, status' = "running", next_state \notin R!ResyncStates
  PROVE  R!Dispatch(b) /\ ~R!Reject(b) /\ UNCHANGED flags
<1>1. ~R!SkipMalformed(b)
  BY DEF R!SkipMalformed
<1> QED
  BY <1>1, ErrorEnds DEF R!Byte

\* What moves no row: the place and the token change, and events are told.
LEMMA RowsStand ==
  ASSUME ReaderSound, Told, Len(sent') \in Nat, ~AtWidth, ~AtWidth',
         UNCHANGED <<array_nesting_level, arr_frames, arr_used_max, curr_row_size, array_row_size>>,
         value_type' \in R!Types, struct_nesting_level' \in Nat
  PROVE  /\ ReaderSound'
         /\ Standing' = Stand(next_state', Pending', struct_nesting_level', OpenRows, 0, Len(due) - Len(sent'))
         /\ ClosedWidth = 0
<1>1. due' \in Seq(Due) /\ Len(due') = Len(due) - Len(sent')
  BY ToldLeft DEF ReaderSound
<1>2. ReaderSound'
  BY <1>1 DEF ReaderSound, AtWidth, Told
<1>3. OpenRows' = OpenRows
  BY DEF OpenRows, OpenRow
<1>4. ClosedWidth = 0 /\ ClosedWidth' = 0
  BY DEF ClosedWidth
<1> QED
  BY <1>1, <1>2, <1>3, <1>4 DEF Standing, Stand

\* The same, as a move to another place.
LEMMA PlaceMoves ==
  ASSUME ReaderSound, Told, Len(sent') \in Nat, ~AtWidth, ~AtWidth',
         UNCHANGED <<array_nesting_level, arr_frames, arr_used_max, curr_row_size, array_row_size>>,
         value_type' \in R!Types, struct_nesting_level' = struct_nesting_level
  PROVE  /\ ReaderSound'
         /\ Standing' = To(Standing, next_state', Pending', Len(sent'))
<1>1. struct_nesting_level' \in Nat
  BY DEF ReaderSound
<1>2. Standing.structs = struct_nesting_level' /\ Standing.rows = OpenRows /\ Standing.left = Len(due)
  BY DEF Standing, Stand
<1> QED
  BY <1>1, <1>2, RowsStand DEF To

\* A step of the lexer alone.
LEMMA LexerMoves ==
  ASSUME ReaderSound, Told, R!Quiet, R!Unnested, ~AtWidth, ~AtWidth'
  PROVE  /\ ReaderSound'
         /\ Standing' = To(Standing, next_state', Pending', 0)
<1>1. Len(sent') = 0
  BY DEF R!Quiet
<1>2. UNCHANGED <<array_nesting_level, arr_frames, arr_used_max, curr_row_size, array_row_size,
                  struct_nesting_level, value_type>>
  BY DEF R!Unnested, R!arrays
<1> QED
  BY <1>1, <1>2, PlaceMoves DEF ReaderSound

\* One that leaves the token as well.
LEMMA Steps ==
  ASSUME ReaderSound, Told, R!Quiet, R!Unnested, ~AtWidth, ~AtWidth', token_type' = token_type
  PROVE  ReaderSound' /\ Standing' = To(Standing, next_state', Standing.fin, 0)
<1>1. Standing.fin = Pending'
  BY DEF Standing, Stand, Pending
<1> QED
  BY <1>1, LexerMoves

\* Events that are not refused are told.
LEMMA Tells ==
  ASSUME NEW evs, R!Emit(evs), status' = "running"
  PROVE  sent' = evs
  BY DEF R!Emit

\* What CopyByte takes, of a settled place's bytes.
LEMMA Copied ==
  ASSUME NEW b, R!CopyByte(b)
  PROVE  /\ next_state \in {"identifier", "type_body", "scalar", "inline_unit", "string",
                            "reference_index", "esc_hex"}
         /\ R!Moves(next_state)
         /\ next_state = "identifier" => b \in {"id", "lead", "cont"}
         /\ next_state = "scalar" => b \in {"id", "dot", "lead", "cont"}
         /\ next_state = "inline_unit" => b \notin {"nl", "hash", "semi"}
         /\ next_state = "type_body" => b \notin {"nl", "hash", "gt"}
         /\ next_state = "string" => b \notin {"quote", "bsl"}
  BY DEF R!CopyByte

\* Bytes that leave the reader's flags alone tell the caller what the writer has owed it longest.
LEMMA Hearing ==
  ASSUME NEW p, Hears(p), ReaderSound, UNCHANGED flags
  PROVE  Told
  BY DEF Hears, Takes, Told

\* A blank between two tokens.
LEMMA TakesBlank ==
  ASSUME ReaderSound, Hears("nl"), Takable(Standing, "nl")
  PROVE  Sequel("nl")
<1>1. next_state \in Settled \cup {"first_comment"} /\ R!Byte("nl") /\ status' = "running"
  BY DEF Hears, Takes, Takable, Standing, Stand
<1>2. R!Dispatch("nl") /\ ~R!Reject("nl") /\ UNCHANGED flags /\ Told /\ next_state \notin R!ResyncStates
  <2>1. next_state \notin R!ResyncStates
    BY <1>1 DEF R!ResyncStates, Settled, KeyPlaces, ValuePlaces, ValueEnds, ElementEnds
  <2> QED
    BY <1>1, <2>1, TakenByte, Hearing DEF ReaderSound
<1>3. CASE next_state = "first_comment"
  <2>1. R!FirstCommentOutro("nl")
    BY <1>2, <1>3, Handlers DEF R!Blank, R!CommentOutro, R!CommentByte, R!CopyByte, R!StringStep, R!ReferenceIndex,
                                R!CommentStates
  <2>2. R!Quiet /\ R!Unnested /\ next_state' = "first_bom" /\ token_type' = token_type
    BY <1>1, <2>1, ErrorEnds DEF R!FirstCommentOutro, ReaderSound
  <2>3. ReaderSound' /\ Standing' = To(Standing, next_state', Standing.fin, 0)
    BY <1>2, <1>3, <2>2, Steps DEF AtWidth
  <2> QED
    BY <1>3, <2>2, <2>3 DEF Sequel, After, Standing, Stand
<1>4. CASE next_state # "first_comment"
  <2>1. next_state \in Settled
    BY <1>1, <1>4
  <2>2. R!Moves(next_state)
    <3>1. /\ next_state \notin R!CommentStates
          /\ next_state \notin {"type_body", "string", "reference_index", "esc_hex", "escape", "comment", "first_comment"}
      BY <2>1 DEF R!CommentStates, Settled, KeyPlaces, ValuePlaces, ValueEnds, ElementEnds
    <3>2. ~R!CopyByte("nl") /\ ~R!StringStep("nl") /\ ~R!ReferenceIndex("nl") /\ ~R!CommentByte("nl")
          /\ ~R!CommentOutro("nl") /\ ~R!FirstCommentOutro("nl")
      BY <3>1, Copied DEF R!StringStep, R!ReferenceIndex, R!CommentByte, R!CommentOutro, R!FirstCommentOutro
    <3>3. R!Blank("nl")
      BY <1>2, <3>2, Handlers
    <3> QED
      BY <3>3 DEF R!Blank
  <2>3. /\ next_state' = next_state /\ token_type' = token_type /\ sent' = <<>>
        /\ UNCHANGED <<array_nesting_level, arr_frames, arr_used_max, curr_row_size, array_row_size,
                  struct_nesting_level, value_type>>
    BY <2>2 DEF R!Moves, R!Quiet, R!Unnested, R!arrays
  <2>4. due' \in Seq(Due) /\ Len(due') = Len(due)
    <3>1. Len(sent') = 0 /\ Len(due) \in Nat
      BY <2>3 DEF ReaderSound
    <3> QED
      BY <1>2, <3>1, ToldLeft DEF ReaderSound
  <2>5. Standing' = Standing
    BY <2>3, <2>4 DEF Standing, Pending, OpenRows, OpenRow, ClosedWidth, AtWidth
  <2>6. ReaderSound'
    BY <1>2, <2>3, <2>4 DEF ReaderSound, AtWidth
  <2> QED
    BY <1>4, <2>5, <2>6 DEF Sequel, After, Standing, Stand
<1> QED
  BY <1>3, <1>4

\* The places any piece is for are none of a skipped region's.
LEMMA TakablePlaces ==
  ASSUME NEW p, Takable(Standing, p)
  PROVE  /\ next_state \in Settled \cup {"first_comment", "type_body", "string"}
         /\ next_state \notin R!ResyncStates
<1>1. next_state \in Settled \cup {"first_comment", "type_body", "string"}
  BY DEF Takable, Standing, Stand, Settled, KeyPlaces, ValuePlaces, ValueEnds, ElementEnds
<1> QED
  BY <1>1 DEF R!ResyncStates, Settled, KeyPlaces, ValuePlaces, ValueEnds, ElementEnds

\* A piece taken is a byte a handler is for.
LEMMA Taken ==
  ASSUME ReaderSound, NEW p, Hears(p), Takable(Standing, p), p \notin {"chunk", "unit", "nul"}
  PROVE  Told /\ R!Dispatch(p) /\ ~R!Reject(p) /\ next_state \notin R!ResyncStates /\ status' = "running"
<1>1. next_state \notin R!ResyncStates
  BY TakablePlaces
<1>2. R!Byte(p) /\ status' = "running"
  BY DEF Hears, Takes
<1>3. R!Dispatch(p) /\ ~R!Reject(p) /\ UNCHANGED flags
  BY <1>1, <1>2, TakenByte DEF ReaderSound
<1> QED
  BY <1>1, <1>2, <1>3, Hearing

\* The lexer's own places: a piece that begins a token, or goes on with it.
LEMMA TakesHash ==
  ASSUME ReaderSound, Hears("hash"), Takable(Standing, "hash")
  PROVE  Sequel("hash")
<1>1. next_state = "first_bom"
  BY DEF Takable, Standing, Stand
<1>2. Told /\ R!Dispatch("hash") /\ ~R!Reject("hash") /\ next_state \notin R!ResyncStates
  BY Taken
<1>3. ~R!CommentByte("hash") /\ ~R!CopyByte("hash") /\ ~R!StringStep("hash") /\ ~R!ReferenceIndex("hash")
  BY <1>1, Copied DEF R!StringStep, R!ReferenceIndex, R!CommentByte, R!CommentStates
<1>4. R!CommentIntro("hash")
  BY <1>2, <1>3, Handlers
<1>5. R!Quiet /\ R!Unnested /\ next_state' = "first_comment" /\ token_type' = token_type
  BY <1>1, <1>4 DEF R!CommentIntro
<1>6. ReaderSound' /\ Standing' = To(Standing, next_state', Standing.fin, 0)
  BY <1>1, <1>2, <1>5, Steps DEF AtWidth
<1> QED
  BY <1>5, <1>6 DEF Sequel, After

\* The dot a key begins with.
LEMMA TakesDot ==
  ASSUME ReaderSound, Hears("dot"), Takable(Standing, "dot")
  PROVE  Sequel("dot")
<1>1. next_state \in KeyPlaces
  BY DEF Takable, Standing, Stand
<1>2. Told /\ R!Dispatch("dot") /\ ~R!Reject("dot") /\ next_state \notin R!ResyncStates
  BY Taken
<1>3. /\ ~R!CommentByte("dot") /\ ~R!CopyByte("dot") /\ ~R!StringStep("dot") /\ ~R!ReferenceIndex("dot")
      /\ ~R!ScalarIntro("dot")
  BY <1>1, Copied DEF R!StringStep, R!ReferenceIndex, R!CommentByte, R!CommentStates, R!ScalarIntro, R!ValueStates,
     R!ElementStates, KeyPlaces
<1>4. R!IdentifierIntro("dot")
  BY <1>2, <1>3, Handlers
<1>5. R!Quiet /\ R!Unnested /\ next_state' = "identifier" /\ token_type' = "identifier"
  BY <1>1, <1>4 DEF R!IdentifierIntro, R!Begins
<1>6. ReaderSound' /\ Standing' = To(Standing, next_state', Pending', 0)
  BY <1>1, <1>2, <1>5, LexerMoves DEF AtWidth, KeyPlaces
<1> QED
  BY <1>5, <1>6 DEF Sequel, After, Pending

\* The "=" after a key tells the assignment.
LEMMA TakesEq ==
  ASSUME ReaderSound, Hears("eq"), Takable(Standing, "eq")
  PROVE  Sequel("eq")
<1>1. next_state = "identifier"
  BY DEF Takable, Standing, Stand
<1>2. Told /\ R!Dispatch("eq") /\ ~R!Reject("eq") /\ next_state \notin R!ResyncStates /\ status' = "running"
  BY Taken
<1>3. ~R!CommentByte("eq") /\ ~R!CopyByte("eq") /\ ~R!StringStep("eq") /\ ~R!ReferenceIndex("eq")
  BY <1>1, Copied DEF R!StringStep, R!ReferenceIndex, R!CommentByte, R!CommentStates
<1>4. R!ValueIntro("eq")
  BY <1>2, <1>3, Handlers
<1>5. /\ UNCHANGED <<array_nesting_level, arr_frames, arr_used_max, curr_row_size, array_row_size, struct_nesting_level>>
      /\ next_state' = "value_intro" /\ token_type' = "null" /\ value_type' = Plain
      /\ sent' = <<R!Mark("assignment_start")>>
  BY <1>2, <1>4, Tells DEF R!ValueIntro
<1>6. Len(sent') = 1 /\ value_type' \in R!Types
  BY <1>5 DEF R!Types
<1>7. ReaderSound' /\ Standing' = To(Standing, next_state', Pending', Len(sent'))
  BY <1>1, <1>2, <1>5, <1>6, PlaceMoves DEF AtWidth
<1> QED
  BY <1>5, <1>6, <1>7 DEF Sequel, After, Pending

\* The "<" that opens an annotation.
LEMMA TakesLt ==
  ASSUME ReaderSound, Hears("lt"), Takable(Standing, "lt")
  PROVE  Sequel("lt")
<1>1. next_state \in ValuePlaces
  BY DEF Takable, Standing, Stand
<1>2. Told /\ R!Dispatch("lt") /\ ~R!Reject("lt") /\ next_state \notin R!ResyncStates
  BY Taken
<1>3. ~R!CommentByte("lt") /\ ~R!CopyByte("lt") /\ ~R!StringStep("lt") /\ ~R!ReferenceIndex("lt")
  BY <1>1, Copied DEF R!StringStep, R!ReferenceIndex, R!CommentByte, R!CommentStates, ValuePlaces
<1>4. R!TypeIntro("lt")
  BY <1>2, <1>3, Handlers
<1>5. R!Quiet /\ R!Unnested /\ next_state' = "type_body" /\ token_type' = "type"
  BY <1>4 DEF R!TypeIntro, R!Begins
<1>6. ReaderSound' /\ Standing' = To(Standing, next_state', Pending', 0)
  BY <1>1, <1>2, <1>5, LexerMoves DEF AtWidth, ValuePlaces
<1> QED
  BY <1>5, <1>6 DEF Sequel, After, Pending

\* The ">" that closes one tells the annotation.
LEMMA TakesGt ==
  ASSUME ReaderSound, Hears("gt"), Takable(Standing, "gt")
  PROVE  Sequel("gt")
<1>1. next_state = "type_body"
  BY DEF Takable, Standing, Stand
<1>2. Told /\ R!Dispatch("gt") /\ ~R!Reject("gt") /\ next_state \notin R!ResyncStates /\ status' = "running"
  BY Taken
<1>3. ~R!CommentByte("gt") /\ ~R!CopyByte("gt") /\ ~R!StringStep("gt") /\ ~R!ReferenceIndex("gt")
  BY <1>1, Copied DEF R!StringStep, R!ReferenceIndex, R!CommentByte, R!CommentStates
<1>4. R!TypeOutro("gt")
  BY <1>2, <1>3, Handlers
<1>5. PICK t \in Annotations : value_type' = t /\ R!Emit(<<R!Event("annotation", t)>>)
  BY <1>4 DEF R!TypeOutro
<1>6. /\ UNCHANGED <<array_nesting_level, arr_frames, arr_used_max, curr_row_size, array_row_size, struct_nesting_level>>
      /\ next_state' = "type_outro" /\ token_type' = "unknown"
  BY <1>4 DEF R!TypeOutro, R!arrays
<1>7. sent' = <<R!Event("annotation", t)>>
  BY <1>2, <1>5, Tells
<1>8. Len(sent') = 1 /\ value_type' \in R!Types
  BY <1>5, <1>7 DEF R!Types
<1>9. ReaderSound' /\ Standing' = To(Standing, next_state', Pending', Len(sent'))
  BY <1>1, <1>2, <1>6, <1>8, PlaceMoves DEF AtWidth
<1> QED
  BY <1>6, <1>8, <1>9 DEF Sequel, After, Pending

\* What "id" is begun by, or copied into.
LEMMA TakesId ==
  ASSUME ReaderSound, Hears("id"), Takable(Standing, "id")
  PROVE  Sequel("id")
<1>1. next_state \in ValuePlaces \cup {"first_comment", "identifier", "type_body"}
  BY DEF Takable, Standing, Stand
<1>2. Told /\ R!Dispatch("id") /\ ~R!Reject("id") /\ next_state \notin R!ResyncStates
  BY Taken
<1>3. ~R!StringStep("id") /\ ~R!ReferenceIndex("id") /\ ~R!InlineUnitIntro("id")
  BY <1>1 DEF R!StringStep, R!ReferenceIndex, R!InlineUnitIntro, ValuePlaces
<1>4. R!ScalarIntro("id") \/ R!CopyByte("id") \/ (next_state \in R!CommentStates /\ R!CommentByte("id"))
  BY <1>2, <1>3, Handlers
<1>5. CASE next_state \in ValuePlaces
  <2>1. R!ScalarIntro("id")
    BY <1>4, <1>5, Copied DEF ValuePlaces, R!CommentStates
  <2>2. R!Quiet /\ R!Unnested /\ next_state' = "scalar" /\ token_type' = "value"
    BY <2>1 DEF R!ScalarIntro, R!Begins
  <2>3. ReaderSound' /\ Standing' = To(Standing, next_state', Pending', 0)
    BY <1>2, <1>5, <2>2, LexerMoves DEF AtWidth, ValuePlaces
  <2> QED
    BY <1>5, <2>2, <2>3 DEF Sequel, After, Pending, Standing, Stand
<1>6. CASE next_state \notin ValuePlaces
  <2>1. ~R!ScalarIntro("id")
    BY <1>6 DEF R!ScalarIntro, R!ValueStates, R!ElementStates, ValuePlaces
  <2>2. R!Moves(next_state)
    BY <1>4, <2>1, Copied DEF R!CommentByte
  <2>3. R!Quiet /\ R!Unnested /\ next_state' = next_state /\ token_type' = token_type
    BY <2>2 DEF R!Moves
  <2>4. ~AtWidth
    BY <1>1 DEF AtWidth, ValuePlaces
  <2>5. ReaderSound' /\ Standing' = To(Standing, next_state, Standing.fin, 0)
    BY <1>2, <2>3, <2>4, Steps DEF AtWidth
  <2>6. To(Standing, next_state, Standing.fin, 0) = Standing
    <3>1. ClosedWidth = 0 /\ Len(due) - 0 = Len(due)
      BY <2>4 DEF ClosedWidth, ReaderSound
    <3> QED
      BY <3>1 DEF To, Standing, Stand
  <2> QED
    BY <1>6, <2>5, <2>6 DEF Sequel, After, Standing, Stand
<1> QED
  BY <1>5, <1>6

\* The unit behind a value, which is told with its value.
LEMMA TakesUnitName ==
  ASSUME ReaderSound, Hears("unit"), Takable(Standing, "unit")
  PROVE  Sequel("unit")
<1>1. next_state \in {"scalar", "string_outro"} /\ next_state \notin R!ResyncStates
  BY TakablePlaces DEF Takable, Standing, Stand
<1>2. R!Byte("id") /\ next_state' = "inline_unit" /\ status' = "running"
  BY DEF Hears, Takes
<1>3. R!Dispatch("id") /\ ~R!Reject("id") /\ Told
  BY <1>1, <1>2, TakenByte, Hearing DEF ReaderSound
<1>4. /\ ~R!StringStep("id") /\ ~R!ReferenceIndex("id") /\ ~R!ScalarIntro("id")
      /\ next_state \notin R!CommentStates
  BY <1>1 DEF R!StringStep, R!ReferenceIndex, R!ScalarIntro, R!ValueStates, R!ElementStates, R!CommentStates
<1>5. ~R!CopyByte("id")
  <2>1. R!CopyByte("id") => next_state' = next_state
    BY Copied DEF R!Moves
  <2> QED
    BY <1>1, <1>2, <2>1
<1>6. R!InlineUnitIntro("id")
  BY <1>1, <1>3, <1>4, <1>5, Handlers
<1>7. R!Quiet /\ R!Unnested /\ token_type' = token_type
  BY <1>6 DEF R!InlineUnitIntro, R!Moves
<1>8. ReaderSound' /\ Standing' = To(Standing, "inline_unit", Standing.fin, 0)
  BY <1>1, <1>2, <1>3, <1>7, Steps DEF AtWidth
<1> QED
  BY <1>8 DEF Sequel, After

\* A quote opens a string or closes it.
LEMMA TakesQuote ==
  ASSUME ReaderSound, Hears("quote"), Takable(Standing, "quote")
  PROVE  Sequel("quote")
<1>1. next_state \in ValuePlaces \cup {"string"}
  BY DEF Takable, Standing, Stand
<1>2. Told /\ R!Dispatch("quote") /\ ~R!Reject("quote") /\ next_state \notin R!ResyncStates
  BY Taken
<1>3. ~R!ReferenceIndex("quote") /\ ~R!CommentByte("quote") /\ ~R!CopyByte("quote")
  BY <1>1, Copied DEF R!ReferenceIndex, R!CommentByte, R!CommentStates, ValuePlaces
<1>4. R!StringIntro("quote") \/ R!StringStep("quote")
  BY <1>2, <1>3, Handlers
<1>5. CASE next_state = "string"
  <2>1. R!Moves("string_outro")
    BY <1>4, <1>5 DEF R!StringIntro, R!StringStep, R!ValueStates, R!ElementStates
  <2>2. R!Quiet /\ R!Unnested /\ next_state' = "string_outro" /\ token_type' = token_type
    BY <2>1 DEF R!Moves
  <2>3. ReaderSound' /\ Standing' = To(Standing, next_state', Standing.fin, 0)
    BY <1>2, <1>5, <2>2, Steps DEF AtWidth
  <2> QED
    BY <1>5, <2>2, <2>3 DEF Sequel, After, Standing, Stand
<1>6. CASE next_state # "string"
  <2>1. R!StringIntro("quote") /\ next_state \in ValuePlaces
    BY <1>1, <1>4, <1>6 DEF R!StringStep, ValuePlaces
  <2>2. R!Quiet /\ R!Unnested /\ next_state' = "string" /\ token_type' = "value"
    BY <2>1 DEF R!StringIntro, R!Begins
  <2>3. ReaderSound' /\ Standing' = To(Standing, next_state', Pending', 0)
    BY <1>2, <2>1, <2>2, LexerMoves DEF AtWidth, ValuePlaces
  <2> QED
    BY <1>6, <2>2, <2>3 DEF Sequel, After, Pending, Standing, Stand
<1> QED
  BY <1>5, <1>6

\* The "{" of a struct.
LEMMA TakesLcb ==
  ASSUME ReaderSound, Hears("lcb"), Takable(Standing, "lcb")
  PROVE  Sequel("lcb")
<1>1. next_state \in ValuePlaces
  BY DEF Takable, Standing, Stand
<1>2. Told /\ R!Dispatch("lcb") /\ ~R!Reject("lcb") /\ next_state \notin R!ResyncStates /\ status' = "running"
  BY Taken
<1>3. ~R!CommentByte("lcb") /\ ~R!CopyByte("lcb") /\ ~R!StringStep("lcb") /\ ~R!ReferenceIndex("lcb")
  BY <1>1, Copied DEF R!StringStep, R!ReferenceIndex, R!CommentByte, R!CommentStates, ValuePlaces
<1>4. R!StructIntro("lcb")
  BY <1>2, <1>3, Handlers
<1>5. /\ UNCHANGED <<array_nesting_level, arr_frames, arr_used_max, curr_row_size, array_row_size, value_type>>
      /\ next_state' = "struct_intro" /\ token_type' = "structure" /\ struct_nesting_level' = struct_nesting_level + 1
      /\ sent' = <<R!Mark("struct_start")>>
  BY <1>2, <1>4, Tells, ErrorEnds DEF R!StructIntro, R!arrays, ReaderSound
<1>6. Len(sent') = 1 /\ value_type' \in R!Types /\ struct_nesting_level' \in Nat
  BY <1>5 DEF ReaderSound
<1>7. /\ ReaderSound'
      /\ Standing' = Stand(next_state', Pending', struct_nesting_level', OpenRows, 0, Len(due) - Len(sent'))
  BY <1>1, <1>2, <1>5, <1>6, RowsStand DEF AtWidth, ValuePlaces
<1> QED
  BY <1>5, <1>6, <1>7 DEF Sequel, After, Pending, Standing, Stand

\* The "}" of a struct, which the reader stands beside a finished field of.
LEMMA TakesRcb ==
  ASSUME ReaderSound, Hears("rcb"), Takable(Standing, "rcb")
  PROVE  Sequel("rcb")
<1>1. next_state \in KeyPlaces
  BY DEF Takable, Standing, Stand
<1>2. Told /\ R!Dispatch("rcb") /\ ~R!Reject("rcb") /\ next_state \notin R!ResyncStates /\ status' = "running"
  BY Taken
<1>3. ~R!CommentByte("rcb") /\ ~R!CopyByte("rcb") /\ ~R!StringStep("rcb") /\ ~R!ReferenceIndex("rcb")
  BY <1>1, Copied DEF R!StringStep, R!ReferenceIndex, R!CommentByte, R!CommentStates, KeyPlaces
<1>4. R!StructOutro("rcb")
  BY <1>2, <1>3, Handlers
<1>5. /\ UNCHANGED <<array_nesting_level, arr_frames, arr_used_max, curr_row_size, array_row_size, value_type>>
      /\ next_state' = "struct_outro" /\ token_type' = token_type /\ struct_nesting_level' = struct_nesting_level - 1
      /\ struct_nesting_level # 0
      /\ sent' = <<R!Mark("struct_end")>>
  BY <1>2, <1>4, Tells, ErrorEnds DEF R!StructOutro, R!arrays, ReaderSound
<1>6. Len(sent') = 1 /\ value_type' \in R!Types /\ struct_nesting_level' \in Nat
  BY <1>5 DEF ReaderSound
<1>7. /\ ReaderSound'
      /\ Standing' = Stand(next_state', Pending', struct_nesting_level', OpenRows, 0, Len(due) - Len(sent'))
  BY <1>1, <1>2, <1>5, <1>6, RowsStand DEF AtWidth, KeyPlaces
<1> QED
  BY <1>5, <1>6, <1>7 DEF Sequel, After, Pending, Standing, Stand

\* An octet stream, its tags read by themselves.
LEMMA TakesNul ==
  ASSUME ReaderSound, Hears("nul"), Takable(Standing, "nul")
  PROVE  Sequel("nul")
<1>1. next_state \in ValuePlaces \cup {"octet_stream_intro"} /\ next_state \notin R!ResyncStates
  BY TakablePlaces DEF Takable, Standing, Stand
<1>2. status' = "running"
  BY DEF Hears, Takes
<1>3. CASE next_state = "octet_stream_intro"
  <2>1. R!OctetStreamEnd
    BY <1>3 DEF Hears, Takes
  <2>2. /\ UNCHANGED <<array_nesting_level, arr_frames, arr_used_max, curr_row_size, array_row_size, value_type,
                       struct_nesting_level, flags>>
        /\ next_state' = "octet_stream_outro" /\ token_type' = "unknown"
        /\ sent' = <<R!Mark("octets_end")>>
    BY <1>2, <2>1, Tells DEF R!OctetStreamEnd, R!Unnested, R!arrays
  <2>3. Len(sent') = 1 /\ value_type' \in R!Types /\ Told
    BY <2>2, Hearing DEF ReaderSound
  <2>4. ReaderSound' /\ Standing' = To(Standing, next_state', Pending', Len(sent'))
    BY <1>3, <2>2, <2>3, PlaceMoves DEF AtWidth
  <2> QED
    BY <1>3, <2>2, <2>3, <2>4 DEF Sequel, After, Pending, Standing, Stand
<1>4. CASE next_state # "octet_stream_intro"
  <2>1. R!Byte("nul") /\ next_state \in ValuePlaces
    BY <1>1, <1>4 DEF Hears, Takes
  <2>2. R!Dispatch("nul") /\ ~R!Reject("nul") /\ Told
    BY <1>1, <1>2, <2>1, TakenByte, Hearing DEF ReaderSound
  <2>3. ~R!CommentByte("nul") /\ ~R!CopyByte("nul") /\ ~R!StringStep("nul") /\ ~R!ReferenceIndex("nul")
    BY <2>1, Copied DEF R!StringStep, R!ReferenceIndex, R!CommentByte, R!CommentStates, ValuePlaces
  <2>4. R!OctetStreamIntro("nul")
    BY <1>1, <2>2, <2>3, Handlers
  <2>5. /\ UNCHANGED <<array_nesting_level, arr_frames, arr_used_max, curr_row_size, array_row_size, value_type,
                       struct_nesting_level>>
        /\ next_state' = "octet_stream_intro" /\ token_type' = "octet_stream"
        /\ sent' = <<R!Mark("octets_start")>>
    BY <1>2, <2>4, Tells, ErrorEnds DEF R!OctetStreamIntro, R!Unnested, R!arrays, ReaderSound
  <2>6. Len(sent') = 1 /\ value_type' \in R!Types
    BY <2>5 DEF ReaderSound
  <2>7. ReaderSound' /\ Standing' = To(Standing, next_state', Pending', Len(sent'))
    BY <2>1, <2>2, <2>5, <2>6, PlaceMoves DEF AtWidth, ValuePlaces
  <2> QED
    BY <1>4, <2>5, <2>6, <2>7 DEF Sequel, After, Pending, Standing, Stand
<1> QED
  BY <1>3, <1>4

\* A chunk of an octet stream, taken whole.
LEMMA TakesChunk ==
  ASSUME ReaderSound, Hears("chunk"), Takable(Standing, "chunk")
  PROVE  Sequel("chunk")
<1>1. next_state = "octet_stream_intro" /\ status' = "running" /\ R!OctetChunk
  BY DEF Takable, Standing, Stand, Hears, Takes
<1>2. /\ UNCHANGED <<array_nesting_level, arr_frames, arr_used_max, curr_row_size, array_row_size, value_type,
                     struct_nesting_level, flags>>
      /\ next_state' = next_state /\ token_type' = token_type
      /\ sent' = <<R!Mark("octets")>>
  BY <1>1, Tells DEF R!OctetChunk, R!Unnested, R!arrays, R!lexing
<1>3. Len(sent') = 1 /\ value_type' \in R!Types /\ Told
  BY <1>2, Hearing DEF ReaderSound
<1>4. ReaderSound' /\ Standing' = To(Standing, next_state', Pending', Len(sent'))
  BY <1>1, <1>2, <1>3, PlaceMoves DEF AtWidth
<1> QED
  BY <1>2, <1>3, <1>4 DEF Sequel, After, Pending, Standing, Stand

\* The open rows are the reader's frames, and its own test of the innermost is
\* the one that "semi", "comma" and "rbr" are taken by.
LEMMA RowsOpen ==
  ASSUME ReaderSound
  PROVE  /\ Len(OpenRows) = array_nesting_level /\ array_nesting_level \in Nat
         /\ Standing.rows = OpenRows /\ Standing.structs = struct_nesting_level
         /\ Standing.at = next_state /\ Standing.fin = Pending /\ Standing.dim = ClosedWidth
         /\ Standing.left = Len(due)
         /\ \A l \in 1..array_nesting_level : OpenRows[l] = OpenRow(l)
<1>1. array_nesting_level \in Nat
  BY DEF ReaderSound, R!Levels
<1> QED
  BY <1>1 DEF OpenRows, Standing, Stand

\* The reader's own test of whose row it stands in, read off the place.
LEMMA OwnRow ==
  ASSUME ReaderSound
  PROVE  Own(Standing) <=> R!OwnsArray
<1>1. array_nesting_level > 0 => OpenRows[array_nesting_level].open = arr_frames[array_nesting_level].open_struct_level
  BY RowsOpen DEF OpenRow
<1> QED
  BY <1>1, RowsOpen DEF Own, Innermost, R!OwnsArray

\* Finalising tells what the place or the token owes.
LEMMA FinalizedOwes ==
  ASSUME ReaderSound
  PROVE  Len(R!Finalized) = Owes(Standing) /\ Owes(Standing) \in {0, 1}
  BY RowsOpen DEF R!Finalized, Owes, Pending

\* While the reader runs, the token it finalised was a good one.
LEMMA NoFinalizeFailure ==
  ASSUME ReaderSound, status' = "running", NEW b
  PROVE  ~R!FinalizeFails(b)
  BY ErrorEnds DEF R!FinalizeFails, ReaderSound

\* What the frames of the rows are, of a frame's type.
LEMMA FramesTyped ==
  ASSUME ReaderSound, NEW l \in R!Levels
  PROVE  /\ arr_frames[l].saved_curr \in Nat /\ arr_frames[l].saved_row \in Nat \cup {R!Unset}
         /\ arr_frames[l].saved_vtype \in R!Types /\ arr_frames[l].dim_row_size \in Nat \cup {R!Unset}
         /\ arr_frames[l].in_dim_seq \in BOOLEAN /\ arr_frames[l].open_struct_level \in Nat
  BY DEF ReaderSound, R!Frame

\* The rows open are within the reader's arrays.
LEMMA LevelsUpTo ==
  ASSUME ReaderSound
  PROVE  /\ array_nesting_level \in Nat /\ array_nesting_level \in R!Levels /\ R!Levels \subseteq Nat
         /\ \A l \in 0..array_nesting_level : l \in R!Levels
  BY WriterLimits DEF ReaderSound, R!Levels

\* A ";" ends the assignment and tells what is owed of its value.
LEMMA TakesSemi ==
  ASSUME ReaderSound, Hears("semi"), Takable(Standing, "semi")
  PROVE  Sequel("semi")
<1>1. /\ next_state \in ValueEnds /\ ~R!OwnsArray
      /\ struct_nesting_level = 0 => array_nesting_level = 0
  BY OwnRow, RowsOpen DEF Takable
<1>2. Told /\ R!Dispatch("semi") /\ ~R!Reject("semi") /\ next_state \notin R!ResyncStates /\ status' = "running"
  BY Taken
<1>3. ~R!CommentByte("semi") /\ ~R!CopyByte("semi") /\ ~R!StringStep("semi") /\ ~R!ReferenceIndex("semi")
  BY <1>1, Copied DEF R!StringStep, R!ReferenceIndex, R!CommentByte, R!CommentStates, ValueEnds, ElementEnds
<1>4. R!ValueOutro("semi")
  BY <1>2, <1>3, Handlers
<1>5. /\ R!Emit(R!Finalized)
      /\ token_type' = "unknown" /\ value_type' = Plain
      /\ arr_frames' = R!Wiped(array_nesting_level)
      /\ arr_used_max' = array_nesting_level
      /\ array_nesting_level' = array_nesting_level
      /\ curr_row_size' = (IF struct_nesting_level = 0 THEN 0 ELSE curr_row_size)
      /\ array_row_size' = (IF struct_nesting_level = 0 THEN 0 ELSE array_row_size)
      /\ next_state' = "value_outro" /\ struct_nesting_level' = struct_nesting_level
  BY <1>1, <1>2, <1>4, NoFinalizeFailure DEF R!ValueOutro, R!Unterminated
<1>6. Len(sent') = Owes(Standing) /\ Len(sent') \in Nat
  BY <1>2, <1>5, Tells, FinalizedOwes
<1>7. due' \in Seq(Due) /\ Len(due') = Len(due) - Len(sent')
  BY <1>2, <1>6, ToldLeft DEF ReaderSound
<1>8. ASSUME NEW l \in R!Levels
      PROVE  /\ arr_frames'[l] \in R!Frame
             /\ l =< array_nesting_level => arr_frames'[l].open_struct_level = arr_frames[l].open_struct_level
             /\ l < array_nesting_level => arr_frames'[l] = arr_frames[l]
  <2>1. \A k \in Nat : R!BlankFrame(k) \in R!Frame /\ R!BlankFrame(k).open_struct_level = k
    BY DEF R!BlankFrame, R!Frame, R!Types, R!Unset
  <2>2. arr_frames[l] \in R!Frame /\ arr_frames[l].open_struct_level \in Nat
    BY FramesTyped DEF ReaderSound
  <2>3. array_nesting_level \in Nat /\ l \in Nat
    BY DEF ReaderSound, R!Levels
  <2>4. arr_frames'[l] = IF array_nesting_level =< l /\ l < arr_used_max
                         THEN R!BlankFrame(IF l = array_nesting_level THEN arr_frames[l].open_struct_level ELSE 0)
                         ELSE arr_frames[l]
    BY <1>5 DEF R!Wiped
  <2> QED
    BY <2>1, <2>2, <2>3, <2>4
<1>9. ~arr_frames'[array_nesting_level].in_dim_seq
  <2>1. CASE array_nesting_level < arr_used_max
    <3>1. arr_frames'[array_nesting_level] = R!BlankFrame(arr_frames[array_nesting_level].open_struct_level)
      BY <1>5, <2>1 DEF R!Wiped, ReaderSound, R!Levels
    <3> QED
      BY <3>1 DEF R!BlankFrame
  <2>2. CASE ~(array_nesting_level < arr_used_max)
    <3>1. arr_frames'[array_nesting_level] = arr_frames[array_nesting_level]
      BY <1>5, <2>2 DEF R!Wiped, ReaderSound
    <3> QED
      BY <2>2, <3>1 DEF ReaderSound
  <2> QED
    BY <2>1, <2>2
<1>10. ReaderSound'
  <2>1. arr_frames' \in [R!Levels -> R!Frame]
    <3>1. arr_frames' = [l \in R!Levels |-> arr_frames'[l]]
      BY <1>5 DEF R!Wiped
    <3> QED
      BY <1>8, <3>1
  <2>2. value_type' \in R!Types /\ curr_row_size' \in Nat /\ array_row_size' \in Nat \cup {R!Unset}
    BY <1>5 DEF R!Types, ReaderSound
  <2> QED
    BY <1>2, <1>5, <1>7, <1>9, <2>1, <2>2 DEF ReaderSound, AtWidth, Told, R!Levels
<1>11. OpenRows' = OpenRows
  <2>1. ASSUME NEW l \in 1..array_nesting_level PROVE OpenRow(l)' = OpenRow(l)
    <3>1. l \in R!Levels /\ array_nesting_level > 0 /\ struct_nesting_level # 0 /\ l =< array_nesting_level
      BY <1>1, LevelsUpTo
    <3>2. l # array_nesting_level => l < array_nesting_level
      BY <3>1 DEF ReaderSound, R!Levels
    <3> QED
      BY <1>5, <1>8, <3>1, <3>2 DEF OpenRow
  <2> QED
    BY <1>5, <2>1 DEF OpenRows
<1>12. ClosedWidth' = 0 /\ Pending' = 0
  BY <1>5 DEF ClosedWidth, AtWidth, Pending
<1>13. Standing' = Stand("value_outro", 0, struct_nesting_level, OpenRows, 0, Len(due) - Owes(Standing))
  BY <1>5, <1>6, <1>7, <1>11, <1>12 DEF Standing
<1> QED
  BY <1>10, <1>13, RowsOpen DEF Sequel, After, To

\* A "," ends one element of a row and begins the next.
LEMMA TakesComma ==
  ASSUME ReaderSound, Hears("comma"), Takable(Standing, "comma")
  PROVE  Sequel("comma")
<1>1. next_state \in ElementEnds \cup {"type_outro"} /\ R!OwnsArray
  BY OwnRow, RowsOpen DEF Takable
<1>2. Told /\ R!Dispatch("comma") /\ ~R!Reject("comma") /\ next_state \notin R!ResyncStates /\ status' = "running"
  BY Taken
<1>3. ~R!CommentByte("comma") /\ ~R!CopyByte("comma") /\ ~R!StringStep("comma") /\ ~R!ReferenceIndex("comma")
  BY <1>1, Copied DEF R!StringStep, R!ReferenceIndex, R!CommentByte, R!CommentStates, ElementEnds
<1>4. R!NewArrayValue("comma")
  BY <1>2, <1>3, Handlers
<1>5. /\ R!Emit(R!Finalized)
      /\ curr_row_size' = curr_row_size + 1
      /\ arr_frames' = [arr_frames EXCEPT ![array_nesting_level].in_dim_seq = FALSE]
      /\ value_type' = arr_frames[array_nesting_level - 1].saved_vtype
      /\ token_type' = "null" /\ next_state' = "new_array_value"
      /\ UNCHANGED <<struct_nesting_level, array_nesting_level, arr_used_max, array_row_size>>
  <2>1. \A evs, items : ~R!ErrorOn("comma", evs, items)
    BY <1>2, ErrorEnds DEF ReaderSound
  <2> QED
    BY <1>1, <1>2, <1>4, <2>1, NoFinalizeFailure DEF R!NewArrayValue
<1>6. Len(sent') = Owes(Standing) /\ Len(sent') \in Nat
  BY <1>2, <1>5, Tells, FinalizedOwes
<1>7. due' \in Seq(Due) /\ Len(due') = Len(due) - Len(sent')
  BY <1>2, <1>6, ToldLeft DEF ReaderSound
<1>8. array_nesting_level \in Nat \ {0} /\ array_nesting_level \in R!Levels /\ array_nesting_level - 1 \in R!Levels
  BY <1>1, LevelsUpTo DEF R!OwnsArray
<1>9. /\ arr_frames' \in [R!Levels -> R!Frame]
      /\ \A l \in R!Levels : l # array_nesting_level => arr_frames'[l] = arr_frames[l]
      /\ arr_frames'[array_nesting_level].open_struct_level = arr_frames[array_nesting_level].open_struct_level
      /\ ~arr_frames'[array_nesting_level].in_dim_seq
  BY <1>5, <1>8 DEF ReaderSound, R!Frame
<1>10. ReaderSound'
  <2>1. value_type' \in R!Types /\ curr_row_size' \in Nat
    BY <1>5, <1>8, FramesTyped DEF ReaderSound
  <2> QED
    BY <1>2, <1>5, <1>7, <1>9, <2>1 DEF ReaderSound, AtWidth, Told
<1>11. OpenRows' = [OpenRows EXCEPT ![array_nesting_level] =
                      [open |-> @.open, size |-> @.size + 1, width |-> @.width]]
  <2>1. \A l \in 1..array_nesting_level : l # array_nesting_level => OpenRow(l)' = OpenRow(l)
    <3>1. \A l \in 1..array_nesting_level : l \in R!Levels
      BY LevelsUpTo, <1>8
    <3> QED
      BY <1>5, <1>9, <3>1 DEF OpenRow
  <2>2. OpenRow(array_nesting_level)' =
          [open |-> OpenRow(array_nesting_level).open, size |-> OpenRow(array_nesting_level).size + 1,
           width |-> OpenRow(array_nesting_level).width]
    BY <1>5, <1>9 DEF OpenRow
  <2> QED
    BY <1>5, <1>8, <2>1, <2>2 DEF OpenRows
<1>12. ClosedWidth' = 0 /\ Pending' = 1
  BY <1>5 DEF ClosedWidth, AtWidth, Pending
<1>13. Standing' = Stand("new_array_value", 1, struct_nesting_level, OpenRows', 0, Len(due) - Owes(Standing))
  BY <1>5, <1>6, <1>7, <1>12 DEF Standing
<1>14. After(Standing, "comma") = AfterComma(Standing)
  BY DEF After
<1> QED
  BY <1>10, <1>11, <1>13, <1>14, RowsOpen DEF Sequel, AfterComma

\* One more at the end.
LEMMA Appended ==
  ASSUME NEW n \in Nat, NEW s, s = [i \in 1..n |-> s[i]], NEW e
  PROVE  Append(s, e) = [i \in 1..(n + 1) |-> IF i = n + 1 THEN e ELSE s[i]]
<1> DEFINE S == {s[i] : i \in 1..n} \cup {e}
<1>1. s \in Seq(S) /\ Len(s) = n /\ e \in S
  BY Z3
<1> HIDE DEF S
<1>2. /\ Append(s, e) \in Seq(S) /\ Len(Append(s, e)) = n + 1
      /\ \A i \in 1..n : Append(s, e)[i] = s[i]
      /\ Append(s, e)[n + 1] = e
  BY <1>1
<1>3. Append(s, e) = [i \in 1..(n + 1) |-> Append(s, e)[i]]
  BY <1>2
<1>4. \A i \in 1..(n + 1) : i # n + 1 => i \in 1..n
  OBVIOUS
<1> QED
  BY <1>2, <1>3, <1>4

\* A "]" ends a row: its last element is told, then its end, and its width is kept.
LEMMA TakesRbr ==
  ASSUME ReaderSound, Hears("rbr"), Takable(Standing, "rbr")
  PROVE  Sequel("rbr")
<1>1. next_state \in ElementEnds \cup {"type_outro", "array_intro"} /\ R!OwnsArray
  BY OwnRow, RowsOpen DEF Takable
<1>2. Told /\ R!Dispatch("rbr") /\ ~R!Reject("rbr") /\ next_state \notin R!ResyncStates /\ status' = "running"
  BY Taken
<1>3. ~R!CommentByte("rbr") /\ ~R!CopyByte("rbr") /\ ~R!StringStep("rbr") /\ ~R!ReferenceIndex("rbr")
  BY <1>1, Copied DEF R!StringStep, R!ReferenceIndex, R!CommentByte, R!CommentStates, ElementEnds
<1>4. R!ArrayOutro("rbr")
  BY <1>2, <1>3, Handlers
<1> DEFINE empty == next_state = "array_intro"
           below == array_nesting_level - 1
           width == IF empty THEN 0 ELSE curr_row_size
           tells == Append(IF empty THEN <<>> ELSE R!Finalized, R!Mark("row_end"))
<1>5. R!Emit(tells) /\ R!PopFrame(width) /\ token_type' = "unknown" /\ next_state' = "array_outro"
      /\ struct_nesting_level' = struct_nesting_level
  <2>1. \A evs, items : ~R!ErrorOn("rbr", evs, items)
    BY <1>2, ErrorEnds DEF ReaderSound
  <2> QED
    BY <1>1, <1>2, <1>4, <2>1, NoFinalizeFailure DEF R!ArrayOutro
<1>6. /\ array_nesting_level' = below
      /\ arr_frames' = [arr_frames EXCEPT ![below].dim_row_size = width]
      /\ curr_row_size' = arr_frames[below].saved_curr /\ array_row_size' = arr_frames[below].saved_row
      /\ value_type' = arr_frames[below].saved_vtype /\ arr_used_max' = arr_used_max
  BY <1>5 DEF R!PopFrame
<1>7. Len(sent') = (IF empty THEN 1 ELSE Owes(Standing) + 1) /\ Len(sent') \in Nat
  <2>1. sent' = tells
    BY <1>2, <1>5, Tells
  <2>2. R!Finalized = <<>> \/ R!Finalized = <<R!Data>>
    BY DEF R!Finalized
  <2>3. /\ Len(Append(<<>>, R!Mark("row_end"))) = 0 + 1 /\ Len(<<>>) = 0
        /\ Len(Append(<<R!Data>>, R!Mark("row_end"))) = 1 + 1 /\ Len(<<R!Data>>) = 1
    OBVIOUS
  <2>4. Len(tells) = (IF empty THEN 0 ELSE Len(R!Finalized)) + 1
    BY <2>2, <2>3
  <2> QED
    BY <2>1, <2>4, FinalizedOwes
<1>8. due' \in Seq(Due) /\ Len(due') = Len(due) - Len(sent')
  BY <1>2, <1>7, ToldLeft DEF ReaderSound
<1>9. array_nesting_level \in Nat \ {0} /\ array_nesting_level \in R!Levels /\ below \in R!Levels
  BY <1>1, LevelsUpTo DEF R!OwnsArray
<1>10. /\ arr_frames' \in [R!Levels -> R!Frame]
       /\ \A l \in R!Levels : l # below => arr_frames'[l] = arr_frames[l]
       /\ arr_frames'[below].open_struct_level = arr_frames[below].open_struct_level
       /\ arr_frames'[below].dim_row_size = width
  <2>1. width \in Nat
    BY DEF ReaderSound
  <2> HIDE DEF width, below
  <2> QED
    BY <1>6, <1>9, <2>1 DEF ReaderSound, R!Frame
<1>11. ReaderSound'
  <2>1. /\ value_type' \in R!Types /\ curr_row_size' \in Nat /\ array_row_size' \in Nat \cup {R!Unset}
        /\ below < arr_used_max /\ below =< arr_used_max
    BY <1>6, <1>9, FramesTyped DEF ReaderSound, R!Levels
  <2> HIDE DEF width, below
  <2> QED
    BY <1>2, <1>5, <1>6, <1>8, <1>9, <1>10, <2>1 DEF ReaderSound, AtWidth, Told
<1>12. OpenRows' = SubSeq(OpenRows, 1, below)
  <2>1. \A l \in 1..below : OpenRow(l)' = OpenRow(l) /\ l \in 1..array_nesting_level
    <3>1. \A l \in 1..below : l \in R!Levels /\ l # array_nesting_level /\ l \in 1..array_nesting_level
      BY <1>9, LevelsUpTo
    <3>2. \A l \in 1..below : l # below => arr_frames'[l] = arr_frames[l]
      BY <1>10, <3>1
    <3> HIDE DEF width, below
    <3> QED
      BY <1>6, <1>10, <3>1, <3>2 DEF OpenRow
  <2>2. below \in Nat
    BY <1>9
  <2> HIDE DEF width, below
  <2> QED
    BY <1>6, <2>1, <2>2 DEF OpenRows
<1>13. ClosedWidth' = width /\ Pending' = 0
  <2> HIDE DEF width, below
  <2> QED
    BY <1>5, <1>6, <1>10 DEF ClosedWidth, AtWidth, Pending
<1>14. Innermost(Standing).size = curr_row_size
  BY <1>9, RowsOpen DEF Innermost, OpenRow
<1>15. Standing' = Stand("array_outro", 0, struct_nesting_level, OpenRows', width, Len(due) - Len(sent'))
  <2> HIDE DEF width, below
  <2> QED
    BY <1>5, <1>8, <1>13 DEF Standing
<1>16. After(Standing, "rbr") = AfterRbr(Standing)
  BY DEF After
<1> QED
  BY <1>7, <1>11, <1>12, <1>14, <1>15, <1>16, RowsOpen DEF Sequel, AfterRbr

\* A "[" begins a row, of the width of the one before it where a "/" led here.
LEMMA TakesLbr ==
  ASSUME ReaderSound, Hears("lbr"), Takable(Standing, "lbr")
  PROVE  Sequel("lbr")
<1>1. next_state \in ValuePlaces \cup {"array_dim_sep"}
  BY DEF Takable, Standing, Stand
<1>2. Told /\ R!Dispatch("lbr") /\ ~R!Reject("lbr") /\ next_state \notin R!ResyncStates /\ status' = "running"
  BY Taken
<1>3. ~R!CommentByte("lbr") /\ ~R!CopyByte("lbr") /\ ~R!StringStep("lbr") /\ ~R!ReferenceIndex("lbr")
  BY <1>1, Copied DEF R!StringStep, R!ReferenceIndex, R!CommentByte, R!CommentStates, ValuePlaces
<1>4. R!ArrayIntro("lbr")
  BY <1>2, <1>3, Handlers
<1> DEFINE n == array_nesting_level
           f == arr_frames[n]
           closing == IF f.in_dim_seq THEN f.dim_row_size ELSE R!Unset
<1>5. /\ R!Emit(<<R!Event("row_start", value_type)>>)
      /\ curr_row_size' = 1
      /\ array_row_size' = closing
      /\ arr_frames' =
           [arr_frames EXCEPT
              ![n] = [@ EXCEPT !.saved_curr = curr_row_size, !.saved_row = array_row_size, !.saved_vtype = value_type],
              ![n + 1] = [@ EXCEPT !.in_dim_seq = FALSE, !.dim_row_size = 0,
                                   !.open_struct_level = struct_nesting_level]]
      /\ array_nesting_level' = n + 1
      /\ arr_used_max' = (IF n + 1 > arr_used_max THEN n + 1 ELSE arr_used_max)
      /\ token_type' = "null" /\ next_state' = "array_intro"
      /\ UNCHANGED <<struct_nesting_level, value_type>>
      /\ n # max_array_nesting
  <2>1. \A evs, items : ~R!ErrorOn("lbr", evs, items)
    BY <1>2, ErrorEnds DEF ReaderSound
  <2> QED
    BY <1>4, <2>1 DEF R!ArrayIntro
<1>6. Len(sent') = 1
  <2>1. sent' = <<R!Event("row_start", value_type)>>
    BY <1>2, <1>5, Tells
  <2> QED
    BY <2>1
<1>7. due' \in Seq(Due) /\ Len(due') = Len(due) - 1
  BY <1>2, <1>6, ToldLeft DEF ReaderSound
<1>8. n \in Nat /\ n \in R!Levels /\ n + 1 \in R!Levels /\ n + 1 # n
  BY <1>5, LevelsUpTo, WriterLimits DEF R!Levels
<1>9. /\ arr_frames' \in [R!Levels -> R!Frame]
      /\ \A l \in R!Levels : l # n /\ l # n + 1 => arr_frames'[l] = arr_frames[l]
      /\ arr_frames'[n].open_struct_level = f.open_struct_level
      /\ arr_frames'[n].saved_curr = curr_row_size /\ arr_frames'[n].saved_row = array_row_size
      /\ arr_frames'[n + 1].open_struct_level = struct_nesting_level
      /\ ~arr_frames'[n + 1].in_dim_seq
  <2> DEFINE saved == [f EXCEPT !.saved_curr = curr_row_size, !.saved_row = array_row_size, !.saved_vtype = value_type]
             fresh == [arr_frames[n + 1] EXCEPT !.in_dim_seq = FALSE, !.dim_row_size = 0,
                                                !.open_struct_level = struct_nesting_level]
  <2>1. f \in R!Frame /\ arr_frames[n + 1] \in R!Frame
    BY <1>8 DEF ReaderSound
  <2>2. saved \in R!Frame /\ fresh \in R!Frame
    BY <2>1 DEF R!Frame, ReaderSound
  <2>3. /\ saved.open_struct_level = f.open_struct_level
        /\ saved.saved_curr = curr_row_size /\ saved.saved_row = array_row_size
        /\ fresh.open_struct_level = struct_nesting_level /\ ~fresh.in_dim_seq
    BY <2>1 DEF R!Frame
  <2>4. arr_frames' = [arr_frames EXCEPT ![n] = saved, ![n + 1] = fresh]
    BY <1>5, <1>8
  <2> HIDE DEF saved, fresh, n
  <2> QED
    BY <1>8, <2>2, <2>3, <2>4 DEF ReaderSound
<1>10. closing \in Nat \cup {R!Unset} /\ closing = (IF next_state = "array_dim_sep" THEN ClosedWidth ELSE R!Unset)
  <2>1. f.dim_row_size \in Nat \cup {R!Unset}
    BY <1>8, FramesTyped
  <2>2. f.in_dim_seq <=> next_state = "array_dim_sep"
    BY <1>1 DEF ReaderSound, AtWidth, ValuePlaces
  <2> QED
    BY <2>1, <2>2 DEF ClosedWidth, AtWidth
<1>11. ReaderSound'
  <2>1. arr_used_max' \in R!Levels /\ n + 1 =< arr_used_max' /\ n \in Nat
    BY <1>5, <1>8 DEF ReaderSound, R!Levels
  <2>2. curr_row_size' \in Nat /\ array_row_size' \in Nat \cup {R!Unset}
    BY <1>5, <1>10
  <2> HIDE DEF closing, f
  <2> QED
    BY <1>2, <1>5, <1>7, <1>8, <1>9, <2>1, <2>2 DEF ReaderSound, AtWidth, Told
<1>12. OpenRows' = Append(OpenRows, [open |-> struct_nesting_level, size |-> 1, width |-> closing])
  <2> DEFINE last == [open |-> struct_nesting_level, size |-> 1, width |-> closing]
  <2>1. \A l \in 1..n : OpenRow(l)' = OpenRow(l)
    <3>1. \A l \in 1..n : l \in R!Levels /\ l # n + 1
      BY <1>8, LevelsUpTo
    <3>2. array_nesting_level' = n + 1
      BY <1>5
    <3>3. \A l \in 1..n : l # n => arr_frames'[l] = arr_frames[l]
      BY <1>9, <3>1
    <3> HIDE DEF closing
    <3> QED
      BY <1>9, <3>1, <3>2, <3>3 DEF OpenRow
  <2>2. \A l : l = n + 1 => OpenRow(l)' = last
    <3> HIDE DEF closing
    <3> QED
      BY <1>5, <1>8, <1>9 DEF OpenRow
  <2>3. OpenRows' = [l \in 1..(n + 1) |-> OpenRow(l)']
    BY <1>5 DEF OpenRows
  <2>4. Append(OpenRows, last) = [l \in 1..(n + 1) |-> IF l = n + 1 THEN last ELSE OpenRows[l]]
    <3>1. OpenRows = [l \in 1..n |-> OpenRows[l]] /\ n \in Nat
      BY <1>8 DEF OpenRows
    <3> HIDE DEF last, n
    <3> QED
      BY <3>1, Appended
  <2>5. \A l \in 1..(n + 1) : OpenRow(l)' = IF l = n + 1 THEN last ELSE OpenRows[l]
    <3>1. \A l \in 1..(n + 1) : l # n + 1 => l \in 1..n
      BY <1>8
    <3>2. \A l \in 1..n : OpenRows[l] = OpenRow(l)
      BY RowsOpen
    <3> HIDE DEF last, n
    <3> QED
      BY <2>1, <2>2, <3>1, <3>2
  <2> HIDE DEF last, n
  <2>6. OpenRows' = Append(OpenRows, last)
    BY <2>3, <2>4, <2>5
  <2> QED
    BY <2>6 DEF last
<1>13. ClosedWidth' = 0 /\ Pending' = 1
  BY <1>5 DEF ClosedWidth, AtWidth, Pending
<1>14. Standing' = Stand("array_intro", 1, struct_nesting_level, OpenRows', 0, Len(due) - 1)
  BY <1>5, <1>7, <1>13 DEF Standing
<1>15. After(Standing, "lbr") = AfterLbr(Standing)
  BY DEF After
<1> QED
  BY <1>10, <1>11, <1>12, <1>14, <1>15, RowsOpen DEF Sequel, AfterLbr

\* A "/" is a separator after a row, and text inside an inline unit; anywhere
\* else the reader refuses it.
LEMMA TakesSlash ==
  ASSUME ReaderSound, Hears("slash"), Takable(Standing, "slash")
  PROVE  Sequel("slash")
<1>1. next_state \in Settled
  BY DEF Takable, Standing, Stand
<1>2. Told /\ R!Dispatch("slash") /\ ~R!Reject("slash") /\ next_state \notin R!ResyncStates /\ status' = "running"
  BY Taken
<1>3. ~R!CommentByte("slash") /\ ~R!StringStep("slash") /\ ~R!ReferenceIndex("slash")
  BY <1>1 DEF R!StringStep, R!ReferenceIndex, R!CommentByte, R!CommentStates, Settled, KeyPlaces, ValuePlaces,
     ValueEnds, ElementEnds
<1>4. R!ArrayDimSep("slash") \/ R!CopyByte("slash")
  BY <1>2, <1>3, Handlers
<1>5. CASE next_state = "array_outro"
  <2>1. R!ArrayDimSep("slash")
    BY <1>4, <1>5, Copied
  <2>2. /\ arr_frames' = [arr_frames EXCEPT ![array_nesting_level].in_dim_seq = TRUE]
        /\ next_state' = "array_dim_sep" /\ token_type' = token_type
        /\ UNCHANGED <<struct_nesting_level, array_nesting_level, arr_used_max, curr_row_size, array_row_size, value_type>>
        /\ sent' = <<R!Mark("dim_start")>>
    BY <1>2, <2>1, Tells DEF R!ArrayDimSep
  <2>3. Len(sent') = 1
    BY <2>2
  <2>4. due' \in Seq(Due) /\ Len(due') = Len(due) - 1
    BY <1>2, <2>3, ToldLeft DEF ReaderSound
  <2>5. /\ arr_frames' \in [R!Levels -> R!Frame]
        /\ \A l \in R!Levels : l # array_nesting_level => arr_frames'[l] = arr_frames[l]
        /\ arr_frames'[array_nesting_level].open_struct_level = arr_frames[array_nesting_level].open_struct_level
        /\ arr_frames'[array_nesting_level].dim_row_size = arr_frames[array_nesting_level].dim_row_size
        /\ arr_frames'[array_nesting_level].in_dim_seq
    BY <2>2, LevelsUpTo DEF ReaderSound, R!Frame
  <2>6. ReaderSound'
    BY <1>2, <1>5, <2>2, <2>4, <2>5 DEF ReaderSound, AtWidth, Told
  <2>7. OpenRows' = OpenRows
    <3>1. \A l \in 1..array_nesting_level : l \in R!Levels
      BY LevelsUpTo
    <3>2. \A l \in 1..array_nesting_level : OpenRow(l)' = OpenRow(l)
      BY <2>2, <2>5, <3>1 DEF OpenRow
    <3> QED
      BY <2>2, <3>2 DEF OpenRows
  <2>8. ClosedWidth' = ClosedWidth /\ Pending' = Pending
    BY <1>5, <2>2, <2>5 DEF ClosedWidth, AtWidth, Pending
  <2>9. Standing' = Stand("array_dim_sep", Pending, struct_nesting_level, OpenRows, ClosedWidth, Len(due) - 1)
    BY <2>2, <2>4, <2>7, <2>8 DEF Standing
  <2> QED
    BY <1>5, <2>6, <2>9, RowsOpen DEF Sequel, After
<1>6. CASE next_state # "array_outro"
  <2>1. R!CopyByte("slash")
    BY <1>4, <1>6 DEF R!ArrayDimSep
  <2>2. R!Moves(next_state) /\ next_state = "inline_unit"
    BY <1>1, <2>1, Copied DEF Settled, KeyPlaces, ValuePlaces, ValueEnds, ElementEnds
  <2>3. R!Quiet /\ R!Unnested /\ next_state' = next_state /\ token_type' = token_type
    BY <2>2 DEF R!Moves
  <2>4. ReaderSound' /\ Standing' = To(Standing, next_state, Standing.fin, 0)
    BY <1>2, <2>2, <2>3, Steps DEF AtWidth
  <2>5. To(Standing, next_state, Standing.fin, 0) = Standing
    <3>1. ClosedWidth = 0 /\ Len(due) - 0 = Len(due)
      BY <2>2 DEF ClosedWidth, AtWidth, ReaderSound
    <3> QED
      BY <3>1 DEF To, Standing, Stand
  <2> QED
    BY <1>6, <2>4, <2>5 DEF Sequel, After, Standing, Stand
<1> QED
  BY <1>5, <1>6

\* A piece taken where it is for leads the reader where After says.
LEMMA TakesPiece ==
  ASSUME ReaderSound, NEW p, Hears(p), Takable(Standing, p)
  PROVE  Sequel(p)
<1>1. p \in Pieces
  BY DEF Takable, Pieces
<1> QED
  BY <1>1, TakesHash, TakesBlank, TakesDot, TakesId, TakesUnitName, TakesEq, TakesQuote, TakesLt, TakesGt, TakesSemi,
     TakesComma, TakesRbr, TakesLbr, TakesSlash, TakesLcb, TakesRcb, TakesNul, TakesChunk DEF Pieces

\* Read: what was ahead of the reader is ahead of it still.
LEMMA ReadLeads ==
  ASSUME ReaderSound, text \in Seq(Pieces), Read, NEW s, Leads(Standing, text, s)
  PROVE  ReaderSound' /\ Leads(Standing, text, s)' /\ text' \in Seq(Pieces)
<1>1. text # <<>> /\ Hears(text[1]) /\ text' = Tail(text)
  BY DEF Read, Hears
<1>2. Len(text) \in Nat /\ Len(text) >= 1 /\ Len(Tail(text)) = Len(text) - 1 /\ Tail(text) \in Seq(Pieces)
      /\ \A n \in 1..(Len(text) - 1) : Tail(text)[n] = text[n + 1]
  BY <1>1
<1>3. PICK f : /\ f[0] = Standing /\ f[Len(text)] = s
               /\ \A n \in 1..Len(text) : Takable(f[n - 1], text[n]) /\ f[n] = After(f[n - 1], text[n])
  BY DEF Leads
<1>4. Takable(Standing, text[1]) /\ f[1] = After(Standing, text[1])
  <2>1. 1 \in 1..Len(text) /\ 1 - 1 = 0
    BY <1>2
  <2> QED
    BY <1>3, <2>1
<1>5. ReaderSound' /\ Standing' = f[1]
  BY <1>1, <1>4, TakesPiece DEF Sequel
<1> DEFINE g == [n \in 0..(Len(text) - 1) |-> f[n + 1]]
<1>6. g[0] = Standing'
  BY <1>2, <1>5
<1>7. g[Len(text')] = s
  BY <1>1, <1>2, <1>3
<1>8. ASSUME NEW n \in 1..Len(text') PROVE Takable(g[n - 1], text'[n]) /\ g[n] = After(g[n - 1], text'[n])
  <2>1. n + 1 \in 1..Len(text) /\ n \in 0..(Len(text) - 1) /\ n - 1 \in 0..(Len(text) - 1) /\ (n - 1) + 1 = n
        /\ n \in 1..(Len(text) - 1) /\ (n + 1) - 1 = n
    BY <1>1, <1>2
  <2>2. g[n] = f[n + 1] /\ g[n - 1] = f[n] /\ text'[n] = text[n + 1]
    BY <1>1, <1>2, <2>1
  <2>3. Takable(f[n], text[n + 1]) /\ f[n + 1] = After(f[n], text[n + 1])
    BY <1>3, <2>1
  <2> QED
    BY <2>2, <2>3
<1> HIDE DEF g
<1>9. \E h : /\ h[0] = Standing' /\ h[Len(text')] = s
             /\ \A n \in 1..Len(text') : Takable(h[n - 1], text'[n]) /\ h[n] = After(h[n - 1], text'[n])
  BY <1>6, <1>7, <1>8
<1> QED
  BY <1>1, <1>2, <1>5, <1>9 DEF Leads

-----------------------------------------------------------------------------
(* Texts, one after the other.                                             *)

\* A sequence of one.
LEMMA OnePiece == ASSUME NEW S, NEW p \in S PROVE <<p>> \in Seq(S) /\ <<>> \in Seq(S)
  OBVIOUS

\* A text of one piece.
LEMMA PieceText == \A p \in Pieces : <<p>> \in Seq(Pieces)
  BY OnePiece

\* No text leads nowhere.
LEMMA LeadsNowhere == ASSUME NEW r PROVE Leads(r, <<>>, r)
<1> DEFINE f == [n \in {0} |-> r]
<1>1. f[0] = r /\ Len(<<>>) = 0
  OBVIOUS
<1> HIDE DEF f
<1> QED
  BY <1>1 DEF Leads

\* And nowhere else.
LEMMA StaysHere == ASSUME NEW r, NEW s, Leads(r, <<>>, s) PROVE s = r
<1>1. Len(<<>>) = 0
  OBVIOUS
<1> QED
  BY <1>1 DEF Leads

\* A text of one piece.
LEMMA LeadsOne == ASSUME NEW r, NEW p, Takable(r, p) PROVE Leads(r, <<p>>, After(r, p))
<1> DEFINE f == [n \in {0, 1} |-> IF n = 0 THEN r ELSE After(r, p)]
<1>1. f[0] = r /\ f[1] = After(r, p) /\ Len(<<p>>) = 1 /\ <<p>>[1] = p
  OBVIOUS
<1>2. \A n \in 1..1 : n = 1 /\ n - 1 = 0
  OBVIOUS
<1> HIDE DEF f
<1>3. \E g : /\ g[0] = r /\ g[Len(<<p>>)] = After(r, p)
             /\ \A n \in 1..Len(<<p>>) : Takable(g[n - 1], <<p>>[n]) /\ g[n] = After(g[n - 1], <<p>>[n])
  <2>1. \A n \in 1..Len(<<p>>) : Takable(f[n - 1], <<p>>[n]) /\ f[n] = After(f[n - 1], <<p>>[n])
    BY <1>1, <1>2
  <2> QED
    BY <1>1, <2>1
<1> QED
  BY <1>3 DEF Leads

\* One text after another.
LEMMA LeadsOn ==
  ASSUME NEW r, NEW s, NEW u, NEW t1 \in Seq(Pieces), NEW t2 \in Seq(Pieces), Leads(r, t1, s), Leads(s, t2, u)
  PROVE  Leads(r, t1 \o t2, u)
<1>1. PICK f : /\ f[0] = r /\ f[Len(t1)] = s
               /\ \A n \in 1..Len(t1) : Takable(f[n - 1], t1[n]) /\ f[n] = After(f[n - 1], t1[n])
  BY DEF Leads
<1>2. PICK g : /\ g[0] = s /\ g[Len(t2)] = u
               /\ \A n \in 1..Len(t2) : Takable(g[n - 1], t2[n]) /\ g[n] = After(g[n - 1], t2[n])
  BY DEF Leads
<1> DEFINE m == Len(t1)
           k == Len(t2)
           t == t1 \o t2
           h == [n \in 0..(m + k) |-> IF n =< m THEN f[n] ELSE g[n - m]]
<1>3. m \in Nat /\ k \in Nat /\ Len(t) = m + k
  OBVIOUS
<1>4. h[0] = r
  BY <1>1, <1>3
<1>5. h[Len(t)] = u
  <2>1. CASE k = 0
    BY <1>1, <1>2, <1>3, <2>1
  <2>2. CASE k # 0
    <3>1. ~(m + k =< m) /\ (m + k) - m = k /\ m + k \in 0..(m + k)
      BY <1>3, <2>2
    <3> QED
      BY <1>2, <1>3, <3>1
  <2> QED
    BY <2>1, <2>2
<1>6. ASSUME NEW n \in 1..Len(t) PROVE Takable(h[n - 1], t[n]) /\ h[n] = After(h[n - 1], t[n])
  <2>1. CASE n =< m
    <3>1. h[n] = f[n] /\ h[n - 1] = f[n - 1] /\ t[n] = t1[n] /\ n \in 1..Len(t1)
      BY <1>3, <2>1
    <3> QED
      BY <1>1, <3>1
  <2>2. CASE ~(n =< m)
    <3>1. n - m \in 1..Len(t2) /\ t[n] = t2[n - m] /\ h[n] = g[n - m]
      BY <1>3, <2>2
    <3>2. h[n - 1] = g[(n - m) - 1]
      <4>1. CASE n - 1 = m
        BY <1>1, <1>2, <1>3, <4>1
      <4>2. CASE n - 1 # m
        <5>1. ~(n - 1 =< m) /\ (n - 1) - m = (n - m) - 1 /\ n - 1 \in 0..(m + k)
          BY <1>3, <2>2, <4>2
        <5> QED
          BY <5>1
      <4> QED
        BY <4>1, <4>2
    <3> QED
      BY <1>2, <3>1, <3>2
  <2> QED
    BY <2>1, <2>2
<1> HIDE DEF h, t
<1>7. Leads(r, t, u)
  BY <1>4, <1>5, <1>6 DEF Leads
<1> QED
  BY <1>7 DEF t

\* Layout is for any settled place, and leaves it.
LEMMA LeadsBlank ==
  ASSUME NEW r, r.at \in Settled
  PROVE  /\ Leads(r, Blank, r) /\ Blank \in Seq(Pieces)
         /\ \A d : Leads(r, Indent(d), r) /\ Indent(d) \in Seq(Pieces)
<1>1. r.at # "first_comment"
  BY DEF Settled, KeyPlaces, ValuePlaces, ValueEnds, ElementEnds
<1>2. Takable(r, "nl") /\ After(r, "nl") = r
  BY <1>1 DEF Takable, After
<1>3. Leads(r, <<"nl">>, r)
  BY <1>2, LeadsOne
<1>4. Leads(r, <<>>, r)
  BY LeadsNowhere
<1>5. <<"nl">> \in Seq(Pieces) /\ <<>> \in Seq(Pieces)
  <2>1. "nl" \in Pieces
    BY DEF Pieces
  <2>2. <<"nl">> \in Seq(Pieces)
    BY <2>1, PieceText
  <2> QED
    BY <2>1, <2>2, OnePiece
<1> DEFINE line == <<"nl">>
           none == <<>>
<1> HIDE DEF line, none
<1>6. Blank = line \/ Blank = none
  BY DEF Blank, line, none
<1>7. \A d : Indent(d) = line \/ Indent(d) = none
  BY DEF Indent, line, none
<1> QED
  BY <1>3, <1>4, <1>5, <1>6, <1>7 DEF line, none

-----------------------------------------------------------------------------
(* The writer's flags.                                                     *)

\* An annotation waits for its value in a row or after a key.
LEMMA AnnotatingKept == IInv /\ Annotating /\ WriterNext => Annotating'
<1> SUFFICES ASSUME IInv, Annotating, WriterNext PROVE Annotating'
  OBVIOUS
<1> USE WriterLimits DEF IInv, Annotating, TypeOK, ValuePosition, Depths, InRow, DirectElement, Idle, Accepting,
                         NotAfterDim, Undangled, Otherwise, ForValue, KeyPosition
<1>1. CASE StreamStart \/ StreamEnd \/ WriteVersion \/ WriteFinish \/ CallFails
  BY <1>1, SMTT(30) DEF StreamStart, StreamEnd, WriteVersion, WriteFinish, CallFails, annotated, governed, rows,
                        nesting, commas
<1>2. CASE AssignmentStart
  BY <1>2 DEF AssignmentStart, annotated, rows, nesting
<1>3. CASE Annotate
  <2>1. ASSUME NEW f \in Families, NEW u \in Units \cup {NoUnit}, AnnotationStart(f, u) PROVE Annotating'
    BY <2>1 DEF AnnotationStart, rows, nesting
  <2>2. CASE AnnotationEnd
    BY <2>2 DEF AnnotationEnd, rows, nesting, commas
  <2>3. ASSUME NEW f \in Families, AnnotationFamily(f) PROVE Annotating'
    BY <2>3 DEF AnnotationFamily, rows, nesting, commas
  <2>4. CASE AnnotationWidth
    BY <2>4 DEF AnnotationWidth, rows, nesting, commas
  <2>5. ASSUME NEW u \in Units \cup {NoUnit}, NEW plain \in BOOLEAN, AnnotationUnit(u, plain) PROVE Annotating'
    BY <2>5 DEF AnnotationUnit, rows, nesting, commas
  <2> QED
    BY <1>3, <2>1, <2>2, <2>3, <2>4, <2>5 DEF Annotate
<1>4. CASE Values
  <2>1. ASSUME NEW v \in {"number", "string", "null", "symbol"}, NEW u \in Units \cup {NoUnit}, Value(v, u)
        PROVE  Annotating'
    BY <2>1 DEF Value, annotated, nesting
  <2>2. CASE OctetStreamStart
    BY <2>2 DEF OctetStreamStart, annotated
  <2>3. CASE OctetChunk
    BY <2>3 DEF OctetChunk, annotated, rows, nesting, commas
  <2>4. CASE OctetStreamEnd
    BY <2>4 DEF OctetStreamEnd, annotated, rows
  <2> QED
    BY <1>4, <2>1, <2>2, <2>3, <2>4 DEF Values
<1>5. CASE StructStart
  BY <1>5 DEF StructStart, annotated
<1>6. CASE StructEnd
  BY <1>6 DEF StructEnd, annotated, rows
<1>7. CASE RowStart
  BY <1>7 DEF RowStart, annotated
<1>8. CASE RowEnd
  BY <1>8 DEF RowEnd, annotated, RowsNested
<1>9. CASE DimStart
  BY <1>9 DEF DimStart, annotated, nesting
<1> QED
  BY <1>1, <1>2, <1>3, <1>4, <1>5, <1>6, <1>7, <1>8, <1>9 DEF WriterNext

\* A document is finished where nothing is under way, and before its first
\* event nothing is.
LEMMA EndsKept == IInv /\ Annotating /\ Ended /\ Fresh /\ WriterNext => Ended' /\ Fresh'
<1> SUFFICES ASSUME IInv, Annotating, Ended, Fresh, WriterNext PROVE Ended' /\ Fresh'
  OBVIOUS
<1>1. CASE finished
  <2>1. CallFails
    BY <1>1 DEF WriterNext, StreamStart, StreamEnd, AssignmentStart, Annotate, AnnotationStart, AnnotationFamily,
       AnnotationWidth, AnnotationUnit, AnnotationEnd, Values, Value, OctetStreamStart, OctetChunk, OctetStreamEnd,
       StructStart, StructEnd, RowStart, RowEnd, DimStart, WriteVersion, WriteFinish, Otherwise, ForValue, Accepting,
       InAnnotation
  <2> QED
    BY <1>1, <2>1 DEF CallFails, Ended, Fresh, Complete, annotated, rows, nesting, commas
<1>2. CASE ~finished
  <2>1. CASE WriteFinish
    <3>1. ~had_type_annotation
      BY <2>1 DEF WriteFinish, Complete, Annotating, InRow
    <3> QED
      BY <2>1, <3>1 DEF WriteFinish, Ended, Fresh, Complete, annotated, rows, nesting, commas
  <2>2. CASE WriteVersion \/ StreamEnd \/ CallFails
    BY <1>2, <2>2 DEF WriteVersion, StreamEnd, CallFails, Ended, Fresh, annotated, rows, nesting, commas
  <2>3. CASE ~(WriteFinish \/ WriteVersion \/ StreamEnd \/ CallFails)
    <3>1. stream_begun' /\ finished' = finished
      <4>1. \/ Begun
            \/ AnnotationEnd
        BY <2>3 DEF WriterNext, StreamStart, AssignmentStart, Annotate, AnnotationStart, AnnotationFamily,
           AnnotationWidth, AnnotationUnit, Values, Value, OctetStreamStart, OctetChunk, OctetStreamEnd,
           StructStart, StructEnd, RowStart, RowEnd, DimStart
      <4>2. CASE Begun
        BY <4>2 DEF Begun
      <4>3. CASE AnnotationEnd
        BY <4>3 DEF AnnotationEnd, stream, Fresh, Annotating
      <4> QED
        BY <4>1, <4>2, <4>3
    <3> QED
      BY <1>2, <3>1 DEF Ended, Fresh
  <2> QED
    BY <2>1, <2>2, <2>3
<1> QED
  BY <1>1, <1>2

\* What leaves the rows and their levels alone leaves them their elements.
LEMMA RowsLeave ==
  ASSUME ElementsHeld, UNCHANGED <<array_depth, struct_depth, struct_depth_at_array_start, arr_count>>,
         w_after_dim' => w_after_dim \/ w_after_row_end, w_after_row_end' => w_after_row_end,
         in_octet_stream' => in_octet_stream
  PROVE  ElementsHeld'
  BY DEF ElementsHeld, AnElementIn, InRow, DirectElement

\* An element begun where it is counted.
LEMMA BegunCounts ==
  ASSUME IInv, ElementsHeld, ElementBegins, NEW d \in 0..(array_depth - 1)
  PROVE  arr_count'[d] > 0
<1>1. d \in Depths /\ array_depth - 1 \in Depths /\ arr_count[d] \in Nat /\ (InRow => array_depth > 0)
  BY WriterLimits DEF IInv, TypeOK, Depths, InRow
<1>2. CASE InRow /\ d = array_depth - 1
  BY <1>1, <1>2 DEF ElementBegins, IInv, TypeOK
<1>3. CASE ~(InRow /\ d = array_depth - 1)
  <2>1. arr_count[d] > 0
    <3>1. AnElementIn(d)
      BY DEF ElementsHeld
    <3>2. d < array_depth - 1 \/ ~InRow
      BY <1>1, <1>3 DEF Depths
    <3> QED
      BY <3>1, <3>2 DEF AnElementIn
  <2> QED
    BY <1>1, <1>3, <2>1 DEF ElementBegins, IInv, TypeOK
<1> QED
  BY <1>2, <1>3

\* Every row that something was opened or closed in has an element.
LEMMA ElementsKept == IInv /\ ElementsHeld /\ WriterNext => ElementsHeld'
<1> SUFFICES ASSUME IInv, ElementsHeld, WriterNext PROVE ElementsHeld'
  OBVIOUS
<1>1. CASE StreamStart \/ StreamEnd \/ WriteVersion \/ WriteFinish \/ CallFails \/ AssignmentStart
  <2>1. UNCHANGED <<rows, nesting>>
    BY <1>1 DEF StreamStart, StreamEnd, WriteVersion, WriteFinish, CallFails, AssignmentStart
  <2> QED
    BY <2>1, RowsLeave DEF rows, nesting
<1>2. CASE Annotate
  <2>1. UNCHANGED <<rows, nesting>>
    BY <1>2 DEF Annotate, AnnotationStart, AnnotationFamily, AnnotationWidth, AnnotationUnit, AnnotationEnd
  <2> QED
    BY <2>1, RowsLeave DEF rows, nesting
<1>3. ASSUME NEW v \in {"number", "string", "null", "symbol"}, NEW u \in Units \cup {NoUnit}, Value(v, u)
      PROVE  ElementsHeld'
  <2>1. ElementBegins /\ array_depth' = array_depth
    BY <1>3 DEF Value, nesting
  <2>2. \A d \in 0..(array_depth - 1) : InRow /\ d = array_depth - 1 => arr_count'[d] > 0
    BY <2>1, BegunCounts
  <2>3. \A d \in 0..(array_depth - 1) : arr_count'[d] > 0
    BY <2>1, BegunCounts
  <2> QED
    BY <2>1, <2>3 DEF ElementsHeld, AnElementIn
<1>4. CASE OctetStreamStart \/ StructStart
  <2>1. ElementBegins /\ array_depth' = array_depth
    BY <1>4 DEF OctetStreamStart, StructStart
  <2>2. \A d \in 0..(array_depth - 1) : arr_count'[d] > 0
    BY <2>1, BegunCounts
  <2> QED
    BY <2>1, <2>2 DEF ElementsHeld, AnElementIn
<1>5. CASE OctetChunk \/ OctetStreamEnd
  <2>1. /\ UNCHANGED <<array_depth, struct_depth, struct_depth_at_array_start, rows>>
        /\ in_octet_stream' => in_octet_stream
    BY <1>5 DEF OctetChunk, OctetStreamEnd, nesting
  <2> QED
    BY <2>1, RowsLeave DEF rows
<1>6. CASE StructEnd
  <2>1. ~InRow /\ array_depth' = array_depth /\ arr_count' = arr_count
    BY <1>6 DEF StructEnd, ClosesNoRow, rows
  <2> QED
    BY <2>1 DEF ElementsHeld, AnElementIn
<1>7. CASE RowStart
  <2>1. /\ array_depth' = array_depth + 1 /\ struct_depth' = struct_depth /\ ~w_after_dim' /\ ~w_after_row_end'
        /\ in_octet_stream' = in_octet_stream /\ ~in_octet_stream
        /\ struct_depth_at_array_start' = [struct_depth_at_array_start EXCEPT ![array_depth] = struct_depth]
        /\ arr_count' = [i \in Depths |-> IF i = array_depth THEN 0
                                      ELSE arr_count[i] + (IF i = array_depth - 1 /\ ElementOfParent THEN 1 ELSE 0)]
        /\ array_depth \in Depths
    BY <1>7, WriterLimits DEF RowStart, Idle, RoomForRow, Depths, IInv, TypeOK
  <2>2. InRow'
    BY <2>1 DEF InRow, DirectElement, IInv, TypeOK, Depths
  <2>3. ASSUME NEW d \in 0..(array_depth' - 1), d # array_depth PROVE arr_count'[d] > 0
    <3>1. d \in 0..(array_depth - 1) /\ d \in Depths /\ arr_count[d] \in Nat
      BY <2>1, <2>3, WriterLimits DEF Depths, IInv, TypeOK
    <3>2. arr_count'[d] = arr_count[d] + (IF d = array_depth - 1 /\ ElementOfParent THEN 1 ELSE 0)
      BY <2>1, <2>3, <3>1
    <3>3. CASE d = array_depth - 1 /\ ElementOfParent
      BY <3>1, <3>2, <3>3
    <3>4. CASE ~(d = array_depth - 1 /\ ElementOfParent)
      <4>1. d < array_depth - 1 \/ ~InRow \/ w_after_dim
        BY <2>1, <3>1, <3>4 DEF ElementOfParent, Depths
      <4>2. arr_count[d] > 0
        BY <3>1, <4>1 DEF ElementsHeld, AnElementIn
      <4> QED
        BY <3>1, <3>2, <3>4, <4>2
    <3> QED
      BY <3>3, <3>4
  <2>4. \A d \in 0..(array_depth' - 1) : d = array_depth => d = array_depth' - 1
    BY <2>1 DEF Depths
  <2>5. ASSUME NEW d \in 0..(array_depth' - 1) PROVE AnElementIn(d)'
    <3>1. CASE d = array_depth
      BY <2>1, <2>2, <3>1 DEF AnElementIn, Depths
    <3>2. CASE d # array_depth
      BY <2>3, <3>2 DEF AnElementIn
    <3> QED
      BY <3>1, <3>2
  <2> QED
    BY <2>5 DEF ElementsHeld
<1>8. CASE RowEnd
  <2>1. array_depth' = array_depth - 1 /\ arr_count' = arr_count /\ array_depth \in Nat
    BY <1>8 DEF RowEnd, IInv, TypeOK
  <2>2. \A d \in 0..(array_depth' - 1) : d \in 0..(array_depth - 1) /\ d < array_depth - 1
    BY <2>1
  <2> QED
    BY <2>1, <2>2 DEF ElementsHeld, AnElementIn
<1>9. CASE DimStart
  <2>1. w_after_row_end /\ ~w_after_row_end' /\ UNCHANGED <<nesting, arr_count>>
    BY <1>9 DEF DimStart
  <2> QED
    BY <2>1, RowsLeave DEF nesting
<1> QED
  BY <1>1, <1>2, <1>3, <1>4, <1>5, <1>6, <1>7, <1>8, <1>9 DEF WriterNext, Values

\* A comma is due where an element is done, and only there.
LEMMA CommasKept == IInv /\ Annotating /\ ElementsHeld /\ CommasDue /\ WriterNext => CommasDue'
<1> SUFFICES ASSUME IInv, Annotating, ElementsHeld, CommasDue, WriterNext PROVE CommasDue'
  OBVIOUS
<1>0. /\ array_depth > 0 => array_depth - 1 \in Depths /\ array_depth - 1 \in 0..(array_depth - 1)
      /\ array_depth \in Nat /\ Depths \subseteq Nat
      /\ \A i \in Depths : arr_count[i] \in Nat /\ arr_need_comma[i] \in BOOLEAN
      /\ arr_need_comma \in [Depths -> BOOLEAN] /\ arr_count \in [Depths -> Nat]
  BY WriterLimits DEF IInv, TypeOK, Depths
<1>1. CASE StreamStart \/ StreamEnd \/ WriteVersion \/ WriteFinish \/ CallFails
  BY <1>1 DEF StreamStart, StreamEnd, WriteVersion, WriteFinish, CallFails, rows, nesting, commas, CommasDue, InRow,
              DirectElement
<1>2. CASE AssignmentStart
  BY <1>2 DEF AssignmentStart, KeyPosition, rows, nesting, CommasDue, InRow, DirectElement
<1>3. CASE Annotate
  <2>1. ASSUME NEW f \in Families, NEW u \in Units \cup {NoUnit}, AnnotationStart(f, u) PROVE CommasDue'
    BY <2>1 DEF AnnotationStart, Otherwise, NotAfterDim, rows, nesting, CommasDue, InRow, DirectElement
  <2>2. UNCHANGED <<rows, nesting, commas>> \/ \E f \in Families, u \in Units \cup {NoUnit} : AnnotationStart(f, u)
    BY <1>3 DEF Annotate, AnnotationFamily, AnnotationWidth, AnnotationUnit, AnnotationEnd
  <2>3. CASE UNCHANGED <<rows, nesting, commas>>
    BY <2>3 DEF rows, nesting, commas, CommasDue, InRow, DirectElement
  <2> QED
    BY <2>1, <2>2, <2>3
<1>4. ASSUME NEW v \in {"number", "string", "null", "symbol"}, NEW u \in Units \cup {NoUnit}, Value(v, u)
      PROVE  CommasDue'
  <2>1. /\ ElementBegins /\ ValueDone(struct_depth, CommaWritten) /\ ~w_after_dim' /\ ~had_type_annotation'
        /\ UNCHANGED <<array_depth, struct_depth, struct_depth_at_array_start>>
    BY <1>4 DEF Value, ForValue, NotAfterDim, nesting
  <2>2. InRow' <=> InRow
    BY <2>1 DEF InRow, DirectElement
  <2>3. CASE ~InRow
    BY <2>1, <2>2, <2>3 DEF CommasDue
  <2>4. CASE InRow
    <3>1. arr_count'[array_depth - 1] > 0
      BY <1>0, <2>1, <2>4, BegunCounts DEF InRow
    <3>2. arr_need_comma'[array_depth - 1]
      <4>1. arr_need_comma' = [CommaWritten EXCEPT ![array_depth - 1] = TRUE]
        BY <2>1, <2>4 DEF ValueDone, SerialiserDone, InRow
      <4>2. CommaWritten \in [Depths -> BOOLEAN]
        BY CommaWrittenTyped DEF IInv
      <4> QED
        BY <1>0, <2>4, <4>1, <4>2 DEF InRow
    <3> QED
      BY <2>1, <2>2, <3>1, <3>2 DEF CommasDue
  <2> QED
    BY <2>3, <2>4
<1>5. CASE OctetStreamStart
  BY <1>5 DEF OctetStreamStart, ForValue, NotAfterDim, CommasDue
<1>6. CASE OctetChunk
  BY <1>6 DEF OctetChunk, rows, nesting, commas, CommasDue, InRow, DirectElement
<1>7. CASE StructStart
  <2>1. ~InRow'
    BY <1>7 DEF StructStart, InRow, DirectElement, IInv, RowsNested, TypeOK, Depths
  <2> QED
    BY <2>1 DEF CommasDue
<1>8. ASSUME NEW d, ValueDone(d, arr_need_comma), struct_depth' = d,
             UNCHANGED <<array_depth, struct_depth_at_array_start, rows>>, ~w_after_dim,
             InRow' => arr_count[array_depth - 1] > 0
      PROVE  CommasDue'
  <2>1. CASE ~InRow'
    BY <1>8, <2>1 DEF CommasDue
  <2>2. CASE InRow'
    <3>1. arr_need_comma' = [arr_need_comma EXCEPT ![array_depth - 1] = TRUE] /\ array_depth > 0
      BY <1>8, <2>2 DEF ValueDone, SerialiserDone, InRow, DirectElement
    <3>2. arr_need_comma'[array_depth - 1] /\ arr_count'[array_depth' - 1] > 0
      BY <1>0, <1>8, <2>2, <3>1 DEF rows
    <3> QED
      BY <1>8, <3>2 DEF CommasDue, rows
  <2> QED
    BY <2>1, <2>2
<1>9. CASE OctetStreamEnd
  <2>1. /\ ValueDone(struct_depth, arr_need_comma) /\ struct_depth' = struct_depth
        /\ UNCHANGED <<array_depth, struct_depth_at_array_start, rows>> /\ ~w_after_dim /\ in_octet_stream
    BY <1>9 DEF OctetStreamEnd, Otherwise, NotAfterDim
  <2>2. InRow' => arr_count[array_depth - 1] > 0
    BY <1>0, <2>1 DEF ElementsHeld, AnElementIn, InRow, DirectElement
  <2> QED
    BY <1>8, <2>1, <2>2
<1>10. CASE StructEnd
  <2>1. /\ ValueDone(struct_depth - 1, arr_need_comma) /\ struct_depth' = struct_depth - 1
        /\ UNCHANGED <<array_depth, struct_depth_at_array_start, rows>> /\ ~w_after_dim /\ ~InRow
    BY <1>10 DEF StructEnd, Otherwise, NotAfterDim, ClosesNoRow
  <2>2. InRow' => arr_count[array_depth - 1] > 0
    BY <1>0, <2>1 DEF ElementsHeld, AnElementIn, InRow
  <2> QED
    BY <1>8, <2>1, <2>2
<1>11. CASE RowStart
  <2>1. /\ array_depth' = array_depth + 1 /\ ~w_after_dim' /\ array_depth \in Depths
        /\ arr_need_comma' = [CommaWritten EXCEPT ![array_depth] = FALSE]
        /\ arr_count' = [i \in Depths |-> IF i = array_depth THEN 0
                                      ELSE arr_count[i] + (IF i = array_depth - 1 /\ ElementOfParent THEN 1 ELSE 0)]
    BY <1>11, WriterLimits DEF RowStart, RoomForRow, Depths, IInv, TypeOK
  <2>2. CommaWritten \in [Depths -> BOOLEAN]
    BY CommaWrittenTyped DEF IInv
  <2>3. arr_count'[array_depth' - 1] = 0 /\ ~arr_need_comma'[array_depth' - 1]
    BY <1>0, <2>1, <2>2
  <2> QED
    BY <2>1, <2>3 DEF CommasDue
<1>12. CASE RowEnd
  <2>1. /\ array_depth' = array_depth - 1 /\ arr_count' = arr_count /\ struct_depth' = struct_depth
        /\ struct_depth_at_array_start' = struct_depth_at_array_start
        /\ w_after_dim' = w_after_dim /\ ~w_after_dim
        /\ arr_need_comma' = IF array_depth - 1 > 0 /\ DirectElement((array_depth - 1) - 1, struct_depth)
                             THEN [arr_need_comma EXCEPT ![(array_depth - 1) - 1] = TRUE] ELSE arr_need_comma
    BY <1>12 DEF RowEnd, Otherwise, NotAfterDim
  <2>2. InRow' <=> array_depth - 1 > 0 /\ DirectElement((array_depth - 1) - 1, struct_depth)
    BY <2>1 DEF InRow, DirectElement
  <2>3. CASE ~InRow'
    BY <2>1, <2>3 DEF CommasDue
  <2>4. CASE InRow'
    <3>0. array_depth \in 0..max_array_nesting /\ max_array_nesting \in Nat /\ array_depth - 1 > 0
      BY <2>2, <2>4, WriterLimits DEF IInv, TypeOK
    <3>1. (array_depth - 1) - 1 \in Depths /\ (array_depth - 1) - 1 \in 0..(array_depth - 1)
          /\ (array_depth - 1) - 1 < array_depth - 1
      BY <3>0 DEF Depths
    <3>2. arr_count[(array_depth - 1) - 1] > 0
      BY <3>1 DEF ElementsHeld, AnElementIn
    <3>3. arr_need_comma'[(array_depth - 1) - 1]
      BY <1>0, <2>1, <2>2, <2>4, <3>1
    <3> QED
      BY <2>1, <3>2, <3>3 DEF CommasDue
  <2> QED
    BY <2>3, <2>4
<1>13. CASE DimStart
  <2>1. /\ UNCHANGED nesting /\ w_after_dim'
        /\ InRow => arr_need_comma' = [arr_need_comma EXCEPT ![array_depth - 1] = FALSE]
    BY <1>13 DEF DimStart
  <2> QED
    BY <1>0, <2>1 DEF CommasDue, InRow, DirectElement, nesting
<1> QED
  BY <1>1, <1>2, <1>3, <1>4, <1>5, <1>6, <1>7, <1>9, <1>10, <1>11, <1>12, <1>13 DEF WriterNext, Values

\* What the flags say of each other survives every event.
LEMMA FlagsKept == IInv /\ Flagged /\ WriterNext => Flagged'
  BY AnnotatingKept, EndsKept, ElementsKept, CommasKept DEF Flagged

-----------------------------------------------------------------------------
(* What the writer writes, and where it takes the reader.                  *)

\* Where the reader is when the writer owes it k events more.
Behind(s, k) == Stand(s.at, s.fin, s.structs, s.rows, s.dim, s.left + k)

\* A text of the writer's that leads from r to s.
Goes(r, t, s) == t \in Seq(Pieces) /\ Leads(r, t, s)

\* What the reader is led to by the text of a call is where the writer is.
Follows(s) == \E r : Goes(Behind(s, Len(owed')), written', r) /\ Synced(r)'

\* The history of a call.
Noted ==
    /\ row_closed' = (IF owed' = <<>> THEN row_closed ELSE owed'[Len(owed')].ev = "row_end")
    /\ astray' = IF w_after_dim' /\ ~w_after_dim /\ ~row_closed THEN "separator"
                 ELSE IF w_in_annotation /\ ~w_in_annotation' /\ ~Legible THEN "annotation"
                 ELSE "no"

\* Both sides at rest, and a call made.
Meeting(s) ==
    /\ IInv /\ Flagged /\ Synced(s)
    /\ s.fin \in {0, 1} /\ s.left \in Nat
    /\ astray = "no" /\ row_closed \in BOOLEAN
    /\ ~stream_begun => ~row_closed
    /\ Noted

\* The elements begun, one more of them in the row at hand.
StartedRow(d) ==
    [open  |-> struct_depth_at_array_start[d],
     size  |-> IF InRow /\ d = array_depth - 1 THEN arr_count[d] + 1
               ELSE IF arr_count[d] = 0 THEN 1 ELSE arr_count[d],
     width |-> IF arr_dim_set[d] THEN arr_dim_count[d] ELSE R!Unset]

\* The rows with the element under way already begun.
StartedRows == [l \in 1..array_depth |-> StartedRow(l - 1)]

\* The fields of a place.
LEMMA StandFields ==
  ASSUME NEW place, NEW token, NEW structs, NEW stack, NEW dim, NEW left
  PROVE  /\ Stand(place, token, structs, stack, dim, left).at = place
         /\ Stand(place, token, structs, stack, dim, left).fin = token
         /\ Stand(place, token, structs, stack, dim, left).structs = structs
         /\ Stand(place, token, structs, stack, dim, left).rows = stack
         /\ Stand(place, token, structs, stack, dim, left).dim = dim
         /\ Stand(place, token, structs, stack, dim, left).left = left
  BY DEF Stand

\* Owing more moves the reader nowhere.
LEMMA BehindFields ==
  ASSUME NEW s, NEW k
  PROVE  /\ Behind(s, k).at = s.at /\ Behind(s, k).fin = s.fin /\ Behind(s, k).structs = s.structs
         /\ Behind(s, k).rows = s.rows /\ Behind(s, k).dim = s.dim /\ Behind(s, k).left = s.left + k
  BY StandFields DEF Behind

\* A move leaves the structs and the rows.
LEMMA ToPlace ==
  ASSUME NEW place, NEW token, NEW structs, NEW stack, NEW dim, NEW left, NEW p, NEW fin, NEW n
  PROVE  To(Stand(place, token, structs, stack, dim, left), p, fin, n) = Stand(p, fin, structs, stack, 0, left - n)
  BY StandFields DEF To

\* No text written.
LEMMA GoesNowhere == ASSUME NEW r PROVE Goes(r, <<>>, r)
<1>1. Leads(r, <<>>, r)
  BY LeadsNowhere
<1>2. <<>> \in Seq(Pieces)
  BY OnePiece DEF Pieces
<1> DEFINE none == <<>>
<1> HIDE DEF none
<1>3. none \in Seq(Pieces) /\ Leads(r, none, r)
  BY <1>1, <1>2 DEF none
<1>4. Goes(r, none, r)
  BY <1>3 DEF Goes
<1> QED
  BY <1>4 DEF none

\* The blanks of the layout lead a reader between two tokens nowhere.
LEMMA GoesBlank ==
  ASSUME NEW r, r.at \in Settled
  PROVE  Goes(r, Blank, r) /\ \A d : Goes(r, Indent(d), r)
<1>1. Leads(r, Blank, r) /\ Blank \in Seq(Pieces)
  BY LeadsBlank
<1>2. \A d : Leads(r, Indent(d), r) /\ Indent(d) \in Seq(Pieces)
  BY LeadsBlank
<1> QED
  BY <1>1, <1>2 DEF Goes

\* One piece written.
LEMMA GoesOne ==
  ASSUME NEW r, NEW p \in Pieces, Takable(r, p)
  PROVE  Goes(r, <<p>>, After(r, p))
<1>1. Leads(r, <<p>>, After(r, p)) /\ <<p>> \in Seq(Pieces)
  BY LeadsOne, OnePiece
<1> DEFINE one == <<p>>
           next == After(r, p)
<1> HIDE DEF one, next
<1>2. Goes(r, one, next)
  BY <1>1 DEF Goes, one, next
<1> QED
  BY <1>2 DEF one, next

\* One text written after another.
LEMMA GoesOn ==
  ASSUME NEW r, NEW s, NEW u, NEW t1, NEW t2, Goes(r, t1, s), Goes(s, t2, u)
  PROVE  Goes(r, t1 \o t2, u)
<1>1. t1 \in Seq(Pieces) /\ t2 \in Seq(Pieces) /\ Leads(r, t1, s) /\ Leads(s, t2, u)
  BY DEF Goes
<1>2. t1 \o t2 \in Seq(Pieces)
  BY <1>1
<1>3. Leads(r, t1 \o t2, u)
  BY <1>1, LeadsOn
<1> DEFINE t == t1 \o t2
<1> HIDE DEF t
<1>4. t \in Seq(Pieces) /\ Leads(r, t, u)
  BY <1>2, <1>3 DEF t
<1>5. Goes(r, t, u)
  BY <1>4 DEF Goes
<1> QED
  BY <1>5 DEF t

\* Two pieces written.
LEMMA GoesTwo ==
  ASSUME NEW r, NEW p \in Pieces, NEW q \in Pieces, Takable(r, p), Takable(After(r, p), q)
  PROVE  Goes(r, <<p, q>>, After(After(r, p), q))
<1>1. Goes(r, <<p>>, After(r, p)) /\ Goes(After(r, p), <<q>>, After(After(r, p), q))
  BY GoesOne
<1>2. <<p>> \o <<q>> = <<p, q>>
  <2> DEFINE t3 == <<p>> \o <<q>>
             t4 == <<p, q>>
  <2>1. t3 \in Seq(Pieces) /\ t4 \in Seq(Pieces) /\ Len(t3) = 2 /\ Len(t4) = 2
    OBVIOUS
  <2>2. t3[1] = t4[1] /\ t3[2] = t4[2]
    OBVIOUS
  <2> HIDE DEF t3, t4
  <2>3. \A i \in 1..2 : i = 1 \/ i = 2
    OBVIOUS
  <2>4. t3 = t4
    BY <2>1, <2>2, <2>3
  <2> QED
    BY <2>4 DEF t3, t4
<1> DEFINE t1 == <<p>>
           t2 == <<q>>
           t  == <<p, q>>
           a  == After(r, p)
           b  == After(After(r, p), q)
<1>3. Goes(r, t1, a) /\ Goes(a, t2, b) /\ t1 \o t2 = t
  BY <1>1, <1>2
<1> HIDE DEF t1, t2, t, a, b
<1>4. Goes(r, t, b)
  <2>1. Goes(r, t1 \o t2, b)
    BY <1>3, GoesOn
  <2> QED
    BY <1>3, <2>1
<1> QED
  BY <1>4 DEF t, b

\* A third piece written.
LEMMA GoesThree ==
  ASSUME NEW r, NEW s, NEW u, NEW p \in Pieces, NEW q \in Pieces, NEW w \in Pieces,
         Goes(r, <<p, q>>, s), Goes(s, <<w>>, u)
  PROVE  Goes(r, <<p, q, w>>, u)
<1> DEFINE t1 == <<p, q>>
           t2 == <<w>>
           t3 == t1 \o t2
           t4 == <<p, q, w>>
<1>1. t3 = t4
  <2>1. t3 \in Seq(Pieces) /\ t4 \in Seq(Pieces) /\ Len(t3) = 3 /\ Len(t4) = 3
    OBVIOUS
  <2>2. t3[1] = t4[1] /\ t3[2] = t4[2] /\ t3[3] = t4[3]
    OBVIOUS
  <2> HIDE DEF t3, t4
  <2>3. \A i \in 1..3 : i = 1 \/ i = 2 \/ i = 3
    OBVIOUS
  <2> QED
    BY <2>1, <2>2, <2>3
<1>2. Goes(r, t1, s) /\ Goes(s, t2, u)
  OBVIOUS
<1> HIDE DEF t1, t2, t4
<1>3. Goes(r, t1 \o t2, u)
  BY <1>2, GoesOn
<1>4. Goes(r, t4, u)
  BY <1>1, <1>3
<1> QED
  BY <1>4 DEF t4

\* The innermost row is the reader's own where it is the writer's.
LEMMA OwnInRow ==
  ASSUME NEW s, IInv, s.structs = struct_depth, s.rows = GateRows \/ s.rows = StartedRows
  PROVE  /\ Own(s) <=> InRow
         /\ Len(s.rows) = array_depth /\ array_depth \in Nat
<1>1. array_depth \in Nat /\ Len(GateRows) = array_depth /\ Len(StartedRows) = array_depth
  BY DEF IInv, TypeOK, GateRows, StartedRows
<1>2. array_depth > 0 => /\ GateRows[array_depth].open = struct_depth_at_array_start[array_depth - 1]
                         /\ StartedRows[array_depth].open = struct_depth_at_array_start[array_depth - 1]
  BY <1>1 DEF GateRows, GateRow, StartedRows, StartedRow
<1> QED
  BY <1>1, <1>2 DEF Own, Innermost, InRow, DirectElement

\* The rows as the next element begins: counted already if it is annotated or
\* the first.
LEMMA RowsStarted ==
  ASSUME IInv, had_type_annotation \/ ~InRow \/ arr_count[array_depth - 1] = 0
  PROVE  GateRows = StartedRows
<1>1. ASSUME NEW l \in 1..array_depth PROVE GateRow(l - 1) = StartedRow(l - 1)
  <2>1. l - 1 \in Depths /\ arr_count[l - 1] \in Nat
    BY WriterLimits DEF IInv, TypeOK, Depths
  <2>2. (IF BegunIn(l - 1) = 0 THEN 1 ELSE BegunIn(l - 1))
          = IF InRow /\ l - 1 = array_depth - 1 THEN arr_count[l - 1] + 1
            ELSE IF arr_count[l - 1] = 0 THEN 1 ELSE arr_count[l - 1]
    BY <2>1 DEF BegunIn
  <2> QED
    BY <2>2 DEF GateRow, StartedRow
<1> QED
  BY <1>1 DEF GateRows, StartedRows

\* The comma begins an element of a row that has some.
LEMMA CommaStarts ==
  ASSUME NEW s, IInv, s.structs = struct_depth, s.rows = GateRows, InRow, ~had_type_annotation,
         arr_count[array_depth - 1] > 0, NEW k, Owes(s) \in {0, 1}, k \in Nat, s.left = Owes(s)
  PROVE  AfterComma(Behind(s, k)) = Stand("new_array_value", 1, struct_depth, StartedRows, 0, k)
<1> DEFINE r == Behind(s, k)
           more == [r.rows EXCEPT ![Len(r.rows)] = [open |-> @.open, size |-> @.size + 1, width |-> @.width]]
<1>1. r.rows = GateRows /\ r.structs = struct_depth /\ r.left = s.left + k /\ Owes(r) = Owes(s)
  BY BehindFields DEF Owes
<1>2. array_depth \in Nat /\ array_depth > 0 /\ Len(GateRows) = array_depth
  BY DEF IInv, TypeOK, GateRows, InRow
<1>3. \A l \in 1..array_depth : GateRows[l] = GateRow(l - 1)
  BY DEF GateRows
<1>4. more = StartedRows
  <2>1. more = [GateRows EXCEPT ![array_depth] =
                   [open |-> GateRows[array_depth].open, size |-> GateRows[array_depth].size + 1,
                    width |-> GateRows[array_depth].width]]
    BY <1>1, <1>2
  <2>2. more = [l \in 1..array_depth |->
                  IF l = array_depth
                  THEN [open |-> GateRow(l - 1).open, size |-> GateRow(l - 1).size + 1, width |-> GateRow(l - 1).width]
                  ELSE GateRow(l - 1)]
    BY <1>2, <1>3, <2>1 DEF GateRows
  <2>3. ASSUME NEW l \in 1..array_depth, l # array_depth PROVE GateRow(l - 1) = StartedRow(l - 1)
    <3>1. l - 1 # array_depth - 1
      BY <1>2, <2>3
    <3>2. arr_count[l - 1] \in Nat
      BY WriterLimits DEF IInv, TypeOK, Depths
    <3>3. (IF BegunIn(l - 1) = 0 THEN 1 ELSE BegunIn(l - 1))
            = IF InRow /\ l - 1 = array_depth - 1 THEN arr_count[l - 1] + 1
              ELSE IF arr_count[l - 1] = 0 THEN 1 ELSE arr_count[l - 1]
      BY <3>1, <3>2 DEF BegunIn
    <3> QED
      BY <3>3 DEF GateRow, StartedRow
  <2>4. [open |-> GateRow(array_depth - 1).open, size |-> GateRow(array_depth - 1).size + 1,
         width |-> GateRow(array_depth - 1).width] = StartedRow(array_depth - 1)
    <3>1. arr_count[array_depth - 1] \in Nat
      BY <1>2, WriterLimits DEF IInv, TypeOK, Depths
    <3>2. GateRow(array_depth - 1).size = arr_count[array_depth - 1]
      BY <3>1 DEF GateRow, BegunIn
    <3> QED
      BY <3>2 DEF GateRow, StartedRow
  <2> HIDE DEF more
  <2> QED
    BY <2>2, <2>3, <2>4 DEF StartedRows
<1>5. r.left - Owes(r) = k
  BY <1>1
<1> HIDE DEF r
<1> QED
  BY <1>1, <1>4, <1>5 DEF AfterComma, r

\* Waiting for a value, of an element begun when a row is open.
ValueFrom(place, k) == Stand(place, IF place = "type_outro" THEN 0 ELSE 1, struct_depth, StartedRows, 0, k)

\* With nothing else under way, the writer's flags say where the reader is.
LEMMA IdlePlace ==
  ASSUME NEW s, Meeting(s), Idle, NotAfterDim
  PROVE  /\ s.structs = struct_depth /\ s.rows = GateRows
         /\ s.at \notin {"array_outro", "array_dim_sep"} => s.dim = 0
         /\ had_type_annotation => s.at = "type_outro" /\ s.fin = 0 /\ s.left = 0
         /\ ~had_type_annotation /\ w_awaiting_value => s.at = "value_intro" /\ s.fin = 1 /\ s.left = 0
         /\ ~had_type_annotation /\ ~w_awaiting_value /\ InRow /\ arr_count[array_depth - 1] = 0
              => s.at = "array_intro" /\ s.fin = 1 /\ s.left = 0
         /\ ~had_type_annotation /\ ~w_awaiting_value /\ InRow /\ arr_count[array_depth - 1] # 0
              => s.at \in ElementEnds /\ s.left = Owes(s)
         /\ ~had_type_annotation /\ ~w_awaiting_value /\ ~InRow /\ need_semi => s.at \in ValueEnds /\ s.left = Owes(s)
         /\ ~had_type_annotation /\ ~w_awaiting_value /\ ~InRow /\ ~need_semi
              => s.at \in KeyPlaces /\ s.fin = 0 /\ s.left = 0
  BY DEF Meeting, Synced, Placed, Idle, NotAfterDim

\* No text is due, and the reader waits for the value already.
LEMMA NoComma ==
  ASSUME NEW s, NEW k \in Nat, s.left = 0, s.dim = 0, s.structs = struct_depth, s.rows = StartedRows,
         s.at \in ValuePlaces, s.fin = IF s.at = "type_outro" THEN 0 ELSE 1, ~CommaDue
  PROVE  Goes(Behind(s, k), Comma, ValueFrom(s.at, k))
<1>1. Behind(s, k) = ValueFrom(s.at, k)
  <2>1. s.left + k = k
    OBVIOUS
  <2> QED
    BY <2>1 DEF Behind, ValueFrom
<1>2. Comma = <<>>
  BY DEF Comma
<1> DEFINE r == Behind(s, k)
<1>3. Goes(r, <<>>, r)
  BY GoesNowhere
<1> HIDE DEF r
<1>4. Goes(r, Comma, r)
  <2> DEFINE none == <<>>
  <2> HIDE DEF none
  <2>1. Goes(r, none, r) /\ Comma = none
    BY <1>2, <1>3 DEF none
  <2> QED
    BY <2>1
<1> QED
  BY <1>1, <1>4 DEF r

\* Where a value may begin, the comma that is due, if one is, takes the reader to a place for one.
LEMMA CommaGoes ==
  ASSUME NEW s, Meeting(s), Idle, ValuePosition, NotAfterDim, NEW k \in Nat
  PROVE  \E place \in ValuePlaces :
            /\ Goes(Behind(s, k), Comma, ValueFrom(place, k))
            /\ place = "type_outro" <=> had_type_annotation
            /\ ~InRow => place \in {"value_intro", "type_outro"}
<1>0. IInv /\ Flagged /\ s.fin \in {0, 1} /\ s.left \in Nat
  BY DEF Meeting
<1>1. s.structs = struct_depth /\ s.rows = GateRows
  BY IdlePlace
<1>2. CASE had_type_annotation
  <2>1. s.at = "type_outro" /\ s.fin = 0 /\ s.left = 0 /\ s.dim = 0
    BY <1>2, IdlePlace
  <2>2. s.rows = StartedRows /\ ~CommaDue
    BY <1>0, <1>1, <1>2, RowsStarted DEF CommaDue
  <2>3. Goes(Behind(s, k), Comma, ValueFrom("type_outro", k))
    <3>1. s.at \in ValuePlaces
      BY <2>1 DEF ValuePlaces
    <3>2. Goes(Behind(s, k), Comma, ValueFrom(s.at, k))
      BY <1>1, <2>1, <2>2, <3>1, NoComma
    <3> QED
      BY <2>1, <3>2
  <2> QED
    BY <1>2, <2>3 DEF ValuePlaces
<1>3. CASE ~had_type_annotation /\ w_awaiting_value
  <2>1. s.at = "value_intro" /\ s.fin = 1 /\ s.left = 0 /\ s.dim = 0
    BY <1>3, IdlePlace
  <2>2. ~InRow
    BY <1>0, <1>3 DEF IInv, RowsNested
  <2>3. s.rows = StartedRows /\ ~CommaDue
    BY <1>0, <1>1, <2>2, RowsStarted DEF CommaDue
  <2>4. Goes(Behind(s, k), Comma, ValueFrom("value_intro", k))
    <3>1. s.at \in ValuePlaces
      BY <2>1 DEF ValuePlaces
    <3>2. Goes(Behind(s, k), Comma, ValueFrom(s.at, k))
      BY <1>1, <2>1, <2>3, <3>1, NoComma
    <3> QED
      BY <2>1, <3>2
  <2> QED
    BY <1>3, <2>4 DEF ValuePlaces
<1>4. CASE ~had_type_annotation /\ ~w_awaiting_value
  <2>0. InRow
    BY <1>4 DEF ValuePosition, Idle
  <2>1. CASE arr_count[array_depth - 1] = 0
    <3>1. s.at = "array_intro" /\ s.fin = 1 /\ s.left = 0 /\ s.dim = 0
      BY <1>4, <2>0, <2>1, IdlePlace
    <3>2. ~CommaDue
      BY <1>0, <1>4, <2>0, <2>1 DEF Flagged, CommasDue, CommaDue, Idle, NotAfterDim
    <3>3. s.rows = StartedRows
      BY <1>0, <1>1, <2>1, RowsStarted
    <3>4. Goes(Behind(s, k), Comma, ValueFrom("array_intro", k))
      <4>1. s.at \in ValuePlaces
        BY <3>1 DEF ValuePlaces
      <4>2. Goes(Behind(s, k), Comma, ValueFrom(s.at, k))
        BY <1>1, <3>1, <3>2, <3>3, <4>1, NoComma
      <4> QED
        BY <3>1, <4>2
    <3> QED
      BY <1>4, <2>0, <3>4 DEF ValuePlaces
  <2>2. CASE arr_count[array_depth - 1] # 0
    <3>1. arr_count[array_depth - 1] > 0
      BY <1>0, <2>0, <2>2, WriterLimits DEF IInv, TypeOK, Depths, InRow
    <3>2. CommaDue
      BY <1>0, <1>4, <2>0, <3>1 DEF Flagged, CommasDue, CommaDue, Idle, NotAfterDim
    <3>3. s.at \in ElementEnds /\ s.left = Owes(s) /\ Owes(s) \in {0, 1}
      <4>1. s.at \in ElementEnds /\ s.left = Owes(s)
        BY <1>4, <2>0, <2>2, IdlePlace
      <4> QED
        BY <1>0, <4>1 DEF Owes
    <3>4. AfterComma(Behind(s, k)) = Stand("new_array_value", 1, struct_depth, StartedRows, 0, k)
      BY <1>0, <1>1, <1>4, <2>0, <3>1, <3>3, CommaStarts
    <3>5. Takable(Behind(s, k), "comma")
      <4>1. Own(Behind(s, k))
        <5>1. Behind(s, k).structs = struct_depth /\ Behind(s, k).rows = GateRows
          BY <1>1, BehindFields
        <5> QED
          BY <1>0, <2>0, <5>1, OwnInRow
      <4> QED
        BY <3>3, <4>1, BehindFields DEF Takable
    <3> DEFINE r == Behind(s, k)
               u == ValueFrom("new_array_value", k)
    <3>6. After(r, "comma") = u
      BY <3>4 DEF After, ValueFrom
    <3>7. u.at \in Settled
      BY StandFields DEF ValueFrom, Settled, ValuePlaces
    <3> HIDE DEF r, u
    <3>8. Goes(r, <<"comma">>, u)
      <4>1. "comma" \in Pieces /\ Takable(r, "comma")
        BY <3>5 DEF Pieces, r
      <4>2. Goes(r, <<"comma">>, After(r, "comma"))
        BY <4>1, GoesOne
      <4> QED
        BY <3>6, <4>2
    <3>9. Goes(u, Blank, u)
      BY <3>7, GoesBlank
    <3>10. Comma = <<"comma">> \o Blank
      BY <3>2 DEF Comma
    <3>11. Goes(r, Comma, u)
      BY <3>8, <3>9, <3>10, GoesOn
    <3> QED
      BY <1>4, <2>0, <3>11 DEF ValuePlaces, r, u
  <2> QED
    BY <2>1, <2>2
<1> QED
  BY <1>2, <1>3, <1>4

\* Before a key or the end of a struct, with the value done closed off.
LEMMA SemiGoes ==
  ASSUME NEW s, Meeting(s), Idle, NotAfterDim, ~had_type_annotation, ~w_awaiting_value, ~InRow, NEW k \in Nat
  PROVE  \E place \in KeyPlaces :
            /\ Goes(Behind(s, k), IF need_semi THEN <<"semi">> \o Blank ELSE <<>>,
                    Stand(place, 0, struct_depth, GateRows, 0, k))
            /\ need_semi => place = "value_outro"
            /\ ~need_semi => place = s.at
<1>0. IInv /\ Flagged /\ s.fin \in {0, 1} /\ s.left \in Nat /\ s.structs = struct_depth /\ s.rows = GateRows
  BY IdlePlace DEF Meeting
<1> DEFINE r == Behind(s, k)
<1>1. CASE need_semi
  <2>1. s.at \in ValueEnds /\ s.left = Owes(s) /\ Owes(s) \in {0, 1}
    <3>1. s.at \in ValueEnds /\ s.left = Owes(s)
      BY <1>1, IdlePlace
    <3> QED
      BY <1>0, <3>1 DEF Owes
  <2>2. r.structs = struct_depth /\ r.rows = GateRows /\ r.at = s.at /\ Owes(r) = Owes(s) /\ r.left = s.left + k
    BY <1>0, BehindFields DEF Owes
  <2>3. Takable(r, "semi")
    <3>1. ~Own(r)
      BY <1>0, <2>2, OwnInRow
    <3>2. struct_depth = 0 => Len(r.rows) = 0
      <4>1. SUFFICES ASSUME struct_depth = 0, array_depth # 0 PROVE FALSE
        BY <1>0, <2>2, OwnInRow
      <4>2. array_depth \in Nat /\ array_depth - 1 \in 0..(array_depth - 1) /\ array_depth - 1 \in Depths
        BY <1>0, <4>1, WriterLimits DEF IInv, TypeOK, Depths
      <4>3. struct_depth_at_array_start[array_depth - 1] = 0
        BY <1>0, <4>1, <4>2 DEF IInv, RowsNested, TypeOK
      <4> QED
        BY <4>1, <4>2, <4>3 DEF InRow, DirectElement
    <3> QED
      BY <2>1, <2>2, <3>1, <3>2 DEF Takable
  <2> DEFINE u == Stand("value_outro", 0, struct_depth, GateRows, 0, k)
  <2>4. After(r, "semi") = u
    <3>1. r.left - Owes(r) = k
      BY <2>1, <2>2
    <3> QED
      BY <2>2, <3>1 DEF After, To
  <2>5. u.at \in Settled
    BY StandFields DEF Settled, KeyPlaces
  <2> HIDE DEF r, u
  <2>6. Goes(r, <<"semi">>, u)
    BY <2>3, <2>4, GoesOne DEF Pieces
  <2>7. Goes(u, Blank, u)
    BY <2>5, GoesBlank
  <2>8. Goes(r, <<"semi">> \o Blank, u)
    BY <2>6, <2>7, GoesOn
  <2> QED
    BY <1>1, <2>8 DEF KeyPlaces, r, u
<1>2. CASE ~need_semi
  <2>1. s.at \in KeyPlaces /\ s.fin = 0 /\ s.left = 0 /\ s.dim = 0
    <3>1. s.at \in KeyPlaces /\ s.fin = 0 /\ s.left = 0
      BY <1>2, IdlePlace
    <3>2. s.at \notin {"array_outro", "array_dim_sep"}
      BY <3>1 DEF KeyPlaces
    <3> QED
      BY <3>1, <3>2, IdlePlace
  <2>2. r = Stand(s.at, 0, struct_depth, GateRows, 0, k)
    BY <1>0, <2>1 DEF Behind
  <2>3. Goes(r, <<>>, r)
    BY GoesNowhere
  <2> HIDE DEF r
  <2> QED
    BY <1>2, <2>1, <2>2, <2>3 DEF r
<1> QED
  BY <1>1, <1>2

\* The rows, where nothing begins in them.
LEMMA RowsSame ==
  ASSUME UNCHANGED <<array_depth, struct_depth_at_array_start, arr_dim_set, arr_dim_count, arr_count>>,
         \/ ~had_type_annotation /\ ~had_type_annotation'
         \/ UNCHANGED <<had_type_annotation, struct_depth>>
  PROVE  GateRows' = GateRows
<1>1. \A d : BegunIn(d)' = BegunIn(d)
  BY DEF BegunIn, InRow, DirectElement
<1>2. \A d : GateRow(d)' = GateRow(d)
  BY <1>1 DEF GateRow
<1> QED
  BY <1>2 DEF GateRows

\* An element begins.
LEMMA RowsBegin ==
  ASSUME IInv, UNCHANGED <<array_depth, struct_depth_at_array_start, arr_dim_set, arr_dim_count>>,
         \/ ElementBegins /\ ~had_type_annotation'
         \/ UNCHANGED <<arr_count, struct_depth>> /\ had_type_annotation'
  PROVE  GateRows' = StartedRows
<1>1. ASSUME NEW l \in 1..array_depth PROVE GateRow(l - 1)' = StartedRow(l - 1)
  <2>1. l - 1 \in Depths /\ arr_count[l - 1] \in Nat /\ array_depth \in Nat
    BY WriterLimits DEF IInv, TypeOK, Depths
  <2>2. (IF BegunIn(l - 1)' = 0 THEN 1 ELSE BegunIn(l - 1)')
          = IF InRow /\ l - 1 = array_depth - 1 THEN arr_count[l - 1] + 1
            ELSE IF arr_count[l - 1] = 0 THEN 1 ELSE arr_count[l - 1]
    <3>1. CASE ElementBegins /\ ~had_type_annotation'
      <4>1. BegunIn(l - 1)' = arr_count'[l - 1] + 0
        BY <3>1 DEF BegunIn
      <4>2. arr_count'[l - 1] = arr_count[l - 1] + (IF InRow /\ l - 1 = array_depth - 1 THEN 1 ELSE 0)
        <5>1. CASE InRow
          <6>1. arr_count' = [arr_count EXCEPT ![array_depth - 1] = arr_count[array_depth - 1] + 1]
            BY <3>1, <5>1 DEF ElementBegins
          <6> QED
            BY <2>1, <5>1, <6>1 DEF IInv, TypeOK
        <5>2. CASE ~InRow
          BY <2>1, <3>1, <5>2 DEF ElementBegins
        <5> QED
          BY <5>1, <5>2
      <4> QED
        BY <2>1, <4>1, <4>2
    <3>2. CASE UNCHANGED <<arr_count, struct_depth>> /\ had_type_annotation'
      <4>1. BegunIn(l - 1)' = arr_count[l - 1] + (IF InRow /\ l - 1 = array_depth - 1 THEN 1 ELSE 0)
        BY <3>2 DEF BegunIn, InRow, DirectElement
      <4> QED
        BY <2>1, <4>1
    <3> QED
      BY <3>1, <3>2
  <2>3. GateRow(l - 1)' = [open  |-> struct_depth_at_array_start[l - 1],
                           size  |-> IF BegunIn(l - 1)' = 0 THEN 1 ELSE BegunIn(l - 1)',
                           width |-> IF arr_dim_set[l - 1] THEN arr_dim_count[l - 1] ELSE R!Unset]
    BY DEF GateRow
  <2> QED
    BY <2>2, <2>3 DEF StartedRow
<1> QED
  BY <1>1 DEF GateRows, StartedRows

\* The history of a call that neither announces a row nor ends one.
LEMMA NotedTold ==
  ASSUME Noted, NEW e, owed' = <<e>>, e.ev # "row_end"
  PROVE  ~row_closed'
<1>1. owed' # <<>> /\ Len(owed') = 1 /\ owed'[1] = e
  OBVIOUS
<1> QED
  BY <1>1 DEF Noted

\* A step that begins no separator and leaves no annotation strays no caller.
LEMMA NotAstray ==
  ASSUME Noted, w_after_dim' => w_after_dim, w_in_annotation => w_in_annotation'
  PROVE  astray' = "no"
  BY DEF Noted

\* A call that writes nothing.
LEMMA NothingFollows ==
  ASSUME NEW s, Meeting(s), written' = <<>>, owed' = <<>>, UNCHANGED <<finished, need_semi, w_awaiting_value>>,
         UNCHANGED <<w_in_annotation, rows, nesting, had_type_annotation>>, stream_begun => stream_begun',
         stream_begun' \in BOOLEAN
  PROVE  Follows(s)
<1>1. PICK r : r = Behind(s, 0)
  OBVIOUS
<1>2. s.left + 0 = s.left
  BY DEF Meeting
<1>3. r.at = s.at /\ r.fin = s.fin /\ r.structs = s.structs /\ r.rows = s.rows /\ r.dim = s.dim /\ r.left = s.left
  BY <1>1, <1>2, BehindFields
<1>4. GateRows' = GateRows
  BY RowsSame DEF rows, nesting
<1>5. astray' = "no" /\ row_closed' = row_closed
  BY DEF Meeting, Noted, rows
<1>6. Synced(s) /\ Placed(s) /\ astray = "no"
  BY DEF Meeting, Synced
<1>7. Placed(r)'
  <2>1. Owes(r) = Owes(s)
    BY <1>3 DEF Owes
  <2> QED
    BY <1>3, <1>6, <2>1 DEF Placed, WidthKnown, InRow, DirectElement, rows, nesting
<1>8. Synced(r)'
  <2>1. Closed(r)'
    BY <1>3, <1>5, <1>6 DEF Closed, Synced
  <2>2. ~stream_begun' => r.at = "first_bom"
    BY <1>3, <1>6 DEF Synced
  <2> QED
    BY <1>3, <1>4, <1>6, <1>7, <2>1, <2>2 DEF Synced, nesting
<1>9. Goes(Behind(s, Len(owed')), written', r)
  <2>1. Len(owed') = 0
    OBVIOUS
  <2>2. Goes(r, <<>>, r)
    BY GoesNowhere
  <2> HIDE DEF Goes
  <2> QED
    BY <1>1, <2>1, <2>2
<1> QED
  BY <1>8, <1>9 DEF Follows

\* The stream's events and a call that fails write nothing, or the header's blank.
LEMMA StreamFollows == ASSUME NEW s, Meeting(s), StreamStart \/ StreamEnd \/ CallFails PROVE Follows(s)
<1>1. written' = <<>> /\ owed' = <<>> /\ UNCHANGED <<finished, need_semi, w_awaiting_value>>
      /\ UNCHANGED <<w_in_annotation, rows, nesting, had_type_annotation>>
  BY DEF StreamStart, StreamEnd, CallFails, Writes, Begun, annotated, commas
<1>2. (stream_begun => stream_begun') /\ stream_begun' \in BOOLEAN
  BY DEF StreamStart, StreamEnd, CallFails, Begun, Meeting, IInv, TypeOK
<1> QED
  BY <1>1, <1>2, NothingFollows

\* The version comment, before anything else.
LEMMA VersionFollows == ASSUME NEW s, Meeting(s), WriteVersion PROVE Follows(s)
<1>0. /\ IInv /\ Flagged /\ ~stream_begun /\ ~stream_begun' /\ ~row_closed
      /\ written' = <<"hash", "id", "nl">> /\ owed' = <<>>
  BY DEF Meeting, WriteVersion, Writes
<1>1. /\ array_depth = 0 /\ struct_depth = 0 /\ ~w_after_dim /\ ~w_awaiting_value /\ ~in_octet_stream
      /\ ~had_type_annotation /\ ~need_semi /\ ~w_in_annotation
  BY <1>0 DEF Flagged, Fresh, Annotating
<1>2. s.at = "first_bom" /\ s.fin = 0 /\ s.left = 0 /\ s.dim = 0 /\ s.structs = struct_depth /\ s.rows = GateRows
  BY <1>0, <1>1, IdlePlace DEF Meeting, Synced, Idle, NotAfterDim, InRow
<1>3. PICK r : r = Stand("first_bom", 0, struct_depth, GateRows, 0, 0)
  OBVIOUS
<1>4. Behind(s, 0) = r /\ Len(owed') = 0
  <2>1. Len(owed') = 0 /\ 0 + 0 = 0
    BY <1>0
  <2> QED
    BY <1>2, <1>3, <2>1 DEF Behind
<1> DEFINE c == Stand("first_comment", 0, struct_depth, GateRows, 0, 0)
<1>5. /\ Takable(r, "hash") /\ After(r, "hash") = c
      /\ Takable(c, "id") /\ After(c, "id") = c
      /\ Takable(c, "nl") /\ After(c, "nl") = r
  <2>1. r.at = "first_bom" /\ c.at = "first_comment" /\ r.fin = 0 /\ c.fin = 0
    BY <1>3, StandFields
  <2>2. To(r, "first_comment", 0, 0) = c /\ To(c, "first_bom", 0, 0) = r
    <3>1. 0 - 0 = 0
      OBVIOUS
    <3> QED
      BY <1>3, <3>1, ToPlace
  <2>3. "first_comment" \notin ValuePlaces
    BY DEF ValuePlaces
  <2> HIDE DEF c
  <2> QED
    BY <2>1, <2>2, <2>3 DEF Takable, After
<1>6. Goes(r, <<"hash", "id", "nl">>, r)
  <2> HIDE DEF c
  <2>1. "hash" \in Pieces /\ "id" \in Pieces /\ "nl" \in Pieces
    BY DEF Pieces
  <2>2. Goes(r, <<"hash", "id">>, After(After(r, "hash"), "id"))
    BY <1>5, <2>1, GoesTwo
  <2>3. Goes(r, <<"hash", "id">>, c)
    BY <1>5, <2>2
  <2>4. Goes(c, <<"nl">>, After(c, "nl"))
    BY <1>5, <2>1, GoesOne
  <2>5. Goes(c, <<"nl">>, r)
    BY <1>5, <2>4
  <2> QED
    BY <2>1, <2>3, <2>5, GoesThree
<1>7. Synced(r)'
  <2>1. UNCHANGED <<finished, need_semi, w_awaiting_value, w_in_annotation, rows, nesting, had_type_annotation>>
    BY DEF WriteVersion, annotated, commas
  <2>2. GateRows' = GateRows
    BY <2>1, RowsSame DEF rows, nesting
  <2>3. r.at = "first_bom" /\ r.fin = 0 /\ r.left = 0 /\ r.dim = 0 /\ r.structs = struct_depth /\ r.rows = GateRows
    BY <1>3, StandFields
  <2>4. ~row_closed'
    BY <1>0 DEF Meeting, Noted
  <2>5. Placed(r)'
    BY <1>1, <2>1, <2>3 DEF Placed, InRow, rows, nesting, KeyPlaces
  <2> QED
    BY <2>1, <2>2, <2>3, <2>4, <2>5 DEF Synced, Closed, nesting
<1>8. Goes(Behind(s, Len(owed')), written', r)
  <2> DEFINE t == <<"hash", "id", "nl">>
  <2>1. written' = t /\ Goes(r, t, r)
    BY <1>0, <1>6
  <2> HIDE DEF t
  <2> QED
    BY <1>4, <2>1
<1> QED
  BY <1>7, <1>8 DEF Follows

\* The end of the document: the last assignment's ';'.
LEMMA FinishFollows == ASSUME NEW s, Meeting(s), WriteFinish PROVE Follows(s)
<1>0. /\ IInv /\ Flagged /\ finished' /\ ~need_semi' /\ stream_begun' = stream_begun
      /\ written' = (IF need_semi THEN <<"semi">> \o Blank ELSE <<>>) /\ owed' = <<>>
      /\ UNCHANGED <<w_awaiting_value, w_in_annotation, rows, nesting, had_type_annotation>>
      /\ astray' = "no"
  BY DEF Meeting, WriteFinish, Writes, Noted, annotated, rows, commas
<1>1. /\ array_depth = 0 /\ struct_depth = 0 /\ ~w_awaiting_value /\ ~w_in_annotation /\ ~in_octet_stream /\ ~w_after_dim
      /\ ~InRow
  BY DEF WriteFinish, Complete, InRow
<1>2. ~had_type_annotation
  BY <1>0, <1>1 DEF Flagged, Annotating
<1>3. PICK place \in KeyPlaces :
            /\ Goes(Behind(s, 0), IF need_semi THEN <<"semi">> \o Blank ELSE <<>>,
                    Stand(place, 0, struct_depth, GateRows, 0, 0))
            /\ need_semi => place = "value_outro"
            /\ ~need_semi => place = s.at
  BY <1>1, <1>2, SemiGoes DEF Idle, NotAfterDim
<1>4. PICK r : r = Stand(place, 0, struct_depth, GateRows, 0, 0)
  OBVIOUS
<1>5. Goes(Behind(s, Len(owed')), written', r)
  <2>1. Len(owed') = 0
    BY <1>0
  <2> QED
    BY <1>0, <1>3, <1>4, <2>1
<1>6. Synced(r)'
  <2>1. GateRows' = GateRows
    BY <1>0, RowsSame DEF rows, nesting
  <2>2. r.at = place /\ r.fin = 0 /\ r.left = 0 /\ r.dim = 0 /\ r.structs = struct_depth /\ r.rows = GateRows
    BY <1>4, StandFields
  <2>3. ~stream_begun => r.at = "first_bom"
    BY <1>0, <1>3, <2>2 DEF Flagged, Fresh, Meeting, Synced
  <2>4. place = "struct_intro" => struct_depth > 0
    <3>1. CASE need_semi
      BY <1>3, <3>1
    <3>2. CASE ~need_semi
      BY <1>1, <1>2, <1>3, <3>2 DEF Meeting, Synced, Placed
    <3> QED
      BY <3>1, <3>2
  <2>5. Placed(r)'
    BY <1>0, <1>1, <1>2, <2>2, <2>4 DEF Placed, InRow, DirectElement, rows, nesting
  <2> QED
    BY <1>0, <2>1, <2>2, <2>3, <2>5 DEF Synced, Closed, nesting
<1> QED
  BY <1>5, <1>6 DEF Follows

\* A key, with the assignment before it closed off.
LEMMA AssignmentFollows == ASSUME NEW s, Meeting(s), AssignmentStart PROVE Follows(s)
<1> DEFINE semi == IF need_semi THEN <<"semi">> \o Blank ELSE <<>>
<1>0. /\ IInv /\ Flagged /\ Idle /\ NotAfterDim /\ ~w_awaiting_value /\ ~InRow /\ ~had_type_annotation
      /\ w_awaiting_value' /\ ~had_type_annotation' /\ stream_begun'
      /\ written' = semi \o Indent(struct_depth) \o <<"dot", "id">> \o Blank \o <<"eq">> \o Blank
      /\ owed' = <<Mark("assignment_start")>>
      /\ UNCHANGED <<w_in_annotation, rows, nesting>>
  BY DEF Meeting, AssignmentStart, Otherwise, Undangled, Idle, KeyPosition, Writes, Begun, annotated
<1>1. PICK place \in KeyPlaces : Goes(Behind(s, 1), semi, Stand(place, 0, struct_depth, GateRows, 0, 1))
  BY <1>0, SemiGoes
<1> DEFINE q == Stand(place, 0, struct_depth, GateRows, 0, 1)
           i == Stand("identifier", 0, struct_depth, GateRows, 0, 1)
<1>2. PICK r : r = Stand("value_intro", 1, struct_depth, GateRows, 0, 0)
  OBVIOUS
<1>3. /\ q.at \in Settled /\ i.at \in Settled /\ r.at \in Settled
      /\ Takable(q, "dot") /\ After(q, "dot") = i
      /\ Takable(i, "id") /\ After(i, "id") = i
      /\ Takable(i, "eq") /\ After(i, "eq") = r
  <2>1. q.at = place /\ i.at = "identifier" /\ r.at = "value_intro"
    BY <1>2, StandFields
  <2>2. To(q, "identifier", 0, 0) = i /\ To(i, "value_intro", 1, 1) = r
    <3>1. 1 - 0 = 1 /\ 1 - 1 = 0
      OBVIOUS
    <3> QED
      BY <1>2, <3>1, ToPlace
  <2>3. "identifier" \notin ValuePlaces
    BY DEF ValuePlaces
  <2> HIDE DEF q, i
  <2> QED
    BY <2>1, <2>2, <2>3 DEF Takable, After, Settled, ValuePlaces
<1> DEFINE b == Behind(s, 1)
<1>4. Goes(b, semi \o Indent(struct_depth) \o <<"dot", "id">> \o Blank \o <<"eq">> \o Blank, r)
  <2>1. Goes(b, semi, q)
    BY <1>1
  <2> DEFINE t1 == <<"dot", "id">>
             t2 == <<"eq">>
  <2> HIDE DEF semi, q, i, b
  <2>2. Goes(q, Indent(struct_depth), q) /\ Goes(i, Blank, i) /\ Goes(r, Blank, r)
    BY <1>3, GoesBlank
  <2>3. Goes(q, t1, i)
    <3>1. "dot" \in Pieces /\ "id" \in Pieces
      BY DEF Pieces
    <3>2. Goes(q, <<"dot", "id">>, After(After(q, "dot"), "id"))
      BY <1>3, <3>1, GoesTwo
    <3> QED
      BY <1>3, <3>2
  <2>4. Goes(i, t2, r)
    <3>1. "eq" \in Pieces
      BY DEF Pieces
    <3>2. Goes(i, <<"eq">>, After(i, "eq"))
      BY <1>3, <3>1, GoesOne
    <3> QED
      BY <1>3, <3>2
  <2> HIDE DEF t1, t2
  <2>5. Goes(b, semi \o Indent(struct_depth), q)
    BY <2>1, <2>2, GoesOn
  <2>6. Goes(b, semi \o Indent(struct_depth) \o t1, i)
    BY <2>3, <2>5, GoesOn
  <2>7. Goes(b, semi \o Indent(struct_depth) \o t1 \o Blank, i)
    BY <2>2, <2>6, GoesOn
  <2>8. Goes(b, semi \o Indent(struct_depth) \o t1 \o Blank \o t2, r)
    BY <2>4, <2>7, GoesOn
  <2>9. Goes(b, semi \o Indent(struct_depth) \o t1 \o Blank \o t2 \o Blank, r)
    BY <2>2, <2>8, GoesOn
  <2> QED
    BY <2>9 DEF t1, t2
<1>5. Goes(Behind(s, Len(owed')), written', r)
  <2>1. Len(owed') = 1
    BY <1>0
  <2> HIDE DEF semi
  <2> QED
    BY <1>0, <1>4, <2>1
<1> HIDE DEF semi, q, i, b
<1>6. Synced(r)'
  <2>1. GateRows' = GateRows
    BY <1>0, RowsSame DEF rows, nesting
  <2>2. r.at = "value_intro" /\ r.fin = 1 /\ r.left = 0 /\ r.dim = 0 /\ r.structs = struct_depth /\ r.rows = GateRows
    BY <1>2, StandFields
  <2>3. ~row_closed'
    BY <1>0, NotedTold DEF Meeting, Mark, Event
  <2>4. Placed(r)'
    BY <1>0, <2>2 DEF Placed, Idle, NotAfterDim, rows, nesting
  <2> QED
    BY <1>0, <2>1, <2>2, <2>3, <2>4 DEF Synced, Closed, nesting
<1> QED
  BY <1>5, <1>6 DEF Follows

\* The end of a struct, with its last assignment closed off.
LEMMA StructEndFollows == ASSUME NEW s, Meeting(s), StructEnd PROVE Follows(s)
<1> DEFINE semi == IF need_semi THEN <<"semi">> \o Blank ELSE <<>>
<1>0. /\ IInv /\ Flagged /\ Idle /\ NotAfterDim /\ ~w_awaiting_value /\ ~InRow /\ ~had_type_annotation
      /\ struct_depth > 0 /\ struct_depth \in Nat /\ struct_depth' = struct_depth - 1 /\ need_semi' /\ stream_begun'
      /\ written' = semi \o Indent(struct_depth - 1) \o <<"rcb">> /\ owed' = <<Mark("struct_end")>>
      /\ UNCHANGED <<w_awaiting_value, w_in_annotation, rows, had_type_annotation, array_depth,
                     struct_depth_at_array_start, in_octet_stream>>
  BY DEF Meeting, StructEnd, Otherwise, Undangled, Idle, ClosesNoRow, Writes, Begun, annotated, IInv, TypeOK
<1>1. PICK place \in KeyPlaces : Goes(Behind(s, 1), semi, Stand(place, 0, struct_depth, GateRows, 0, 1))
  BY <1>0, SemiGoes
<1> DEFINE q == Stand(place, 0, struct_depth, GateRows, 0, 1)
           b == Behind(s, 1)
<1>2. PICK r : r = Stand("struct_outro", 0, struct_depth - 1, GateRows, 0, 0)
  OBVIOUS
<1>3. q.at \in Settled /\ Takable(q, "rcb") /\ After(q, "rcb") = r
  <2>1. q.at = place /\ q.fin = 0 /\ q.structs = struct_depth /\ q.rows = GateRows /\ q.left = 1
    BY StandFields
  <2>2. q.left - 1 = 0 /\ q.structs > 0
    BY <1>0, <2>1
  <2> HIDE DEF q
  <2> QED
    BY <1>2, <2>1, <2>2 DEF Takable, After, Settled
<1>4. Goes(b, semi \o Indent(struct_depth - 1) \o <<"rcb">>, r)
  <2>1. Goes(b, semi, q)
    BY <1>1
  <2> HIDE DEF semi, q, b
  <2>2. Goes(q, Indent(struct_depth - 1), q)
    BY <1>3, GoesBlank
  <2>3. Goes(q, <<"rcb">>, r)
    <3>1. "rcb" \in Pieces
      BY DEF Pieces
    <3>2. Goes(q, <<"rcb">>, After(q, "rcb"))
      BY <1>3, <3>1, GoesOne
    <3> QED
      BY <1>3, <3>2
  <2> DEFINE t1 == <<"rcb">>
  <2>4. Goes(q, t1, r)
    BY <2>3
  <2> HIDE DEF t1
  <2>5. Goes(b, semi \o Indent(struct_depth - 1), q)
    BY <2>1, <2>2, GoesOn
  <2>6. Goes(b, semi \o Indent(struct_depth - 1) \o t1, r)
    BY <2>4, <2>5, GoesOn
  <2> QED
    BY <2>6 DEF t1
<1>5. Goes(Behind(s, Len(owed')), written', r)
  <2>1. Len(owed') = 1
    BY <1>0
  <2> HIDE DEF semi
  <2> QED
    BY <1>0, <1>4, <2>1
<1> HIDE DEF semi, q, b
<1>6. Synced(r)'
  <2>1. GateRows' = GateRows
    BY <1>0, RowsSame DEF rows
  <2>2. r.at = "struct_outro" /\ r.fin = 0 /\ r.left = 0 /\ r.dim = 0 /\ r.structs = struct_depth' /\ r.rows = GateRows
    BY <1>0, <1>2, StandFields
  <2>3. ~row_closed'
    BY <1>0, NotedTold DEF Meeting, Mark, Event
  <2>4. InRow' => arr_count[array_depth - 1] # 0
    <3>1. array_depth > 0 => array_depth - 1 \in 0..(array_depth - 1) /\ arr_count[array_depth - 1] \in Nat
      BY <1>0, WriterLimits DEF IInv, TypeOK, Depths
    <3>2. array_depth > 0 => arr_count[array_depth - 1] > 0
      BY <1>0, <3>1 DEF Flagged, ElementsHeld, AnElementIn
    <3> QED
      BY <1>0, <3>1, <3>2 DEF InRow
  <2>5. Owes(r) = 0 /\ r.at \in ElementEnds /\ r.at \in ValueEnds
    BY <2>2 DEF Owes, ElementEnds, ValueEnds
  <2>6. Placed(r)'
    BY <1>0, <2>2, <2>4, <2>5 DEF Placed, Idle, NotAfterDim, rows
  <2> QED
    BY <1>0, <2>1, <2>2, <2>3, <2>6 DEF Synced, Closed
<1> QED
  BY <1>5, <1>6 DEF Follows

\* The reader waits for a value, and its rows are as the element begins.
LEMMA ValueFromFields ==
  ASSUME NEW place, NEW k
  PROVE  /\ ValueFrom(place, k).at = place
         /\ ValueFrom(place, k).fin = IF place = "type_outro" THEN 0 ELSE 1
         /\ ValueFrom(place, k).structs = struct_depth /\ ValueFrom(place, k).rows = StartedRows
         /\ ValueFrom(place, k).dim = 0 /\ ValueFrom(place, k).left = k
  BY StandFields DEF ValueFrom

\* bvnr_w_annotation_begin: the comma due, and "<".
LEMMA AnnotationStartFollows ==
  ASSUME NEW s, Meeting(s), NEW f \in Families, NEW u \in Units \cup {NoUnit}, AnnotationStart(f, u)
  PROVE  Follows(s)
<1>0. /\ IInv /\ Flagged /\ Idle /\ NotAfterDim /\ ValuePosition /\ ~had_type_annotation
      /\ had_type_annotation' /\ w_in_annotation' /\ stream_begun'
      /\ written' = Comma \o <<"lt">> /\ owed' = <<>>
      /\ UNCHANGED <<w_awaiting_value, rows, nesting>>
  BY DEF Meeting, AnnotationStart, Otherwise, Undangled, Idle, Writes, Begun
<1>1. PICK place \in ValuePlaces : /\ Goes(Behind(s, 0), Comma, ValueFrom(place, 0))
                                   /\ place = "type_outro" <=> had_type_annotation
  BY <1>0, CommaGoes
<1> DEFINE q == ValueFrom(place, 0)
           b == Behind(s, 0)
<1>2. PICK r : r = Stand("type_body", 0, struct_depth, StartedRows, 0, 0)
  OBVIOUS
<1>3. Takable(q, "lt") /\ After(q, "lt") = r
  <2>1. q.at = place /\ place # "type_outro"
    BY <1>0, <1>1, ValueFromFields
  <2>2. To(q, "type_body", 0, 0) = r
    BY <1>2, ToPlace DEF ValueFrom
  <2> HIDE DEF q
  <2> QED
    BY <2>1, <2>2 DEF Takable, After
<1>4. Goes(b, Comma \o <<"lt">>, r)
  <2>1. Goes(b, Comma, q)
    BY <1>1
  <2> HIDE DEF q, b
  <2> DEFINE t1 == <<"lt">>
  <2>2. Goes(q, t1, r)
    <3>1. "lt" \in Pieces
      BY DEF Pieces
    <3>2. Goes(q, <<"lt">>, After(q, "lt"))
      BY <1>3, <3>1, GoesOne
    <3> QED
      BY <1>3, <3>2
  <2> HIDE DEF t1
  <2>3. Goes(b, Comma \o t1, r)
    BY <2>1, <2>2, GoesOn
  <2> QED
    BY <2>3 DEF t1
<1>5. Goes(Behind(s, Len(owed')), written', r)
  <2>1. Len(owed') = 0
    BY <1>0
  <2> QED
    BY <1>0, <1>4, <2>1
<1>6. Synced(r)'
  <2>1. GateRows' = StartedRows
    BY <1>0, RowsBegin DEF rows, nesting
  <2>2. r.at = "type_body" /\ r.fin = 0 /\ r.left = 0 /\ r.dim = 0 /\ r.structs = struct_depth /\ r.rows = StartedRows
    BY <1>2, StandFields
  <2>3. Placed(r)'
    BY <1>0, <2>2 DEF Placed
  <2> QED
    BY <1>0, <2>1, <2>2, <2>3 DEF Synced, Closed, nesting
<1> QED
  BY <1>5, <1>6 DEF Follows

\* Inside an annotation the reader is inside one, with nothing to tell.
LEMMA InsidePlace ==
  ASSUME NEW s, Meeting(s), w_in_annotation
  PROVE  /\ IInv /\ Flagged /\ had_type_annotation /\ ~in_octet_stream /\ ~w_after_dim /\ stream_begun
         /\ s.rows = GateRows /\ s.structs = struct_depth
         /\ Behind(s, 0) = Stand("type_body", 0, struct_depth, GateRows, 0, 0)
         /\ Behind(s, 1) = Stand("type_body", 0, struct_depth, GateRows, 0, 1)
<1>1. /\ IInv /\ Flagged /\ had_type_annotation /\ ~in_octet_stream /\ ~w_after_dim /\ stream_begun
  BY DEF Meeting, Flagged, Annotating, Fresh
<1>2. s.rows = GateRows /\ s.structs = struct_depth /\ s.at = "type_body" /\ s.fin = 0 /\ s.left = 0 /\ s.dim = 0
  BY DEF Meeting, Synced, Placed
<1>3. 0 + 0 = 0 /\ 0 + 1 = 1
  OBVIOUS
<1> QED
  BY <1>1, <1>2, <1>3 DEF Behind

\* A parameter is text there, or nothing.
LEMMA PartFollows ==
  ASSUME NEW s, Meeting(s), w_in_annotation, written' = <<"id">> \/ written' = <<>>, owed' = <<>>, stream_begun',
         UNCHANGED <<w_awaiting_value, need_semi, w_in_annotation, rows, commas, nesting>>
  PROVE  Follows(s)
<1>1. PICK r : r = Stand("type_body", 0, struct_depth, GateRows, 0, 0)
  OBVIOUS
<1>2. Takable(r, "id") /\ After(r, "id") = r
  <2>1. r.at = "type_body" /\ "type_body" \notin ValuePlaces
    BY <1>1, StandFields DEF ValuePlaces
  <2> QED
    BY <2>1 DEF Takable, After
<1>3. Goes(r, <<"id">>, r) /\ Goes(r, <<>>, r)
  <2>1. "id" \in Pieces
    BY DEF Pieces
  <2>2. Goes(r, <<"id">>, After(r, "id"))
    BY <1>2, <2>1, GoesOne
  <2> QED
    BY <1>2, <2>2, GoesNowhere
<1>4. Goes(Behind(s, Len(owed')), written', r)
  <2> DEFINE t1 == <<"id">>
             t2 == <<>>
  <2>1. Len(owed') = 0 /\ Behind(s, 0) = r
    BY <1>1, InsidePlace
  <2>2. Goes(r, t1, r) /\ Goes(r, t2, r) /\ (written' = t1 \/ written' = t2)
    BY <1>3
  <2> HIDE DEF t1, t2
  <2> QED
    BY <2>1, <2>2
<1>5. Synced(r)'
  <2>1. GateRows' = GateRows
    BY RowsSame DEF rows, nesting, commas
  <2>2. r.at = "type_body" /\ r.fin = 0 /\ r.left = 0 /\ r.dim = 0 /\ r.structs = struct_depth /\ r.rows = GateRows
    BY <1>1, StandFields
  <2>3. Placed(r)'
    BY <2>2 DEF Placed
  <2> QED
    BY <2>1, <2>2, <2>3 DEF Synced, Closed, nesting
<1> QED
  BY <1>4, <1>5 DEF Follows

\* The parts of an annotation, inside "<" and ">".
LEMMA PartsFollow ==
  ASSUME NEW s, Meeting(s),
         \/ \E f \in Families : AnnotationFamily(f)
         \/ AnnotationWidth
         \/ \E u \in Units \cup {NoUnit}, plain \in BOOLEAN : AnnotationUnit(u, plain)
  PROVE  Follows(s)
<1>1. /\ w_in_annotation /\ owed' = <<>> /\ stream_begun'
      /\ UNCHANGED <<w_awaiting_value, need_semi, w_in_annotation, rows, commas, nesting>>
  BY DEF AnnotationFamily, AnnotationWidth, AnnotationUnit, InAnnotation, Writes, Begun
<1>2. written' = <<"id">> \/ written' = <<>>
  BY DEF AnnotationFamily, AnnotationWidth, AnnotationUnit, Writes
<1> QED
  BY <1>1, <1>2, PartFollows

\* The end of an annotation, with its unit if that is still to be written.
LEMMA AnnotationEndFollows == ASSUME NEW s, Meeting(s), AnnotationEnd PROVE Follows(s)
<1> DEFINE unit == IF UnitLeftToWrite THEN <<"id">> ELSE <<>>
<1>0. /\ w_in_annotation /\ ~w_in_annotation' /\ written' = unit \o <<"gt">> \o Blank
      /\ Len(owed') = 1 /\ owed'[1].ev = "annotation" /\ owed' # <<>>
      /\ UNCHANGED <<stream, w_awaiting_value, need_semi, rows, commas, nesting>>
  BY DEF AnnotationEnd, Writes, Event
<1>1. /\ IInv /\ Flagged /\ had_type_annotation /\ ~in_octet_stream /\ ~w_after_dim /\ stream_begun
  BY <1>0, InsidePlace
<1> DEFINE b == Stand("type_body", 0, struct_depth, GateRows, 0, 1)
<1>2. PICK r : r = Stand("type_outro", 0, struct_depth, GateRows, 0, 0)
  OBVIOUS
<1>3. /\ Takable(b, "id") /\ After(b, "id") = b /\ Takable(b, "gt") /\ After(b, "gt") = r
      /\ r.at \in Settled
  <2>1. b.at = "type_body" /\ r.at = "type_outro" /\ "type_body" \notin ValuePlaces
    BY <1>2, StandFields DEF ValuePlaces
  <2>2. To(b, "type_outro", 0, 1) = r
    <3>1. 1 - 1 = 0
      OBVIOUS
    <3> QED
      BY <1>2, <3>1, ToPlace
  <2> HIDE DEF b
  <2> QED
    BY <2>1, <2>2 DEF Takable, After, Settled, ValuePlaces
<1>4. Goes(b, unit \o <<"gt">> \o Blank, r)
  <2> HIDE DEF b
  <2>1. Goes(b, unit, b)
    <3> DEFINE t1 == <<"id">>
               t2 == <<>>
    <3>1. "id" \in Pieces
      BY DEF Pieces
    <3>2. Goes(b, <<"id">>, After(b, "id"))
      BY <1>3, <3>1, GoesOne
    <3>3. Goes(b, t1, b) /\ Goes(b, t2, b) /\ (unit = t1 \/ unit = t2)
      BY <1>3, <3>2, GoesNowhere
    <3> HIDE DEF t1, t2, unit
    <3> QED
      BY <3>3
  <2> DEFINE t3 == <<"gt">>
  <2>2. Goes(b, t3, r)
    <3>1. "gt" \in Pieces
      BY DEF Pieces
    <3>2. Goes(b, <<"gt">>, After(b, "gt"))
      BY <1>3, <3>1, GoesOne
    <3> QED
      BY <1>3, <3>2
  <2>3. Goes(r, Blank, r)
    BY <1>3, GoesBlank
  <2> HIDE DEF t3, unit
  <2>4. Goes(b, unit \o t3, r)
    BY <2>1, <2>2, GoesOn
  <2>5. Goes(b, unit \o t3 \o Blank, r)
    BY <2>3, <2>4, GoesOn
  <2> QED
    BY <2>5 DEF t3
<1>5. Goes(Behind(s, Len(owed')), written', r)
  <2>1. Behind(s, Len(owed')) = b
    BY <1>0, InsidePlace
  <2> HIDE DEF unit, b
  <2> QED
    BY <1>0, <1>4, <2>1
<1> HIDE DEF unit, b
<1>6. Synced(r)'
  <2>1. GateRows' = GateRows
    BY <1>0, RowsSame DEF rows, nesting, commas
  <2>2. r.at = "type_outro" /\ r.fin = 0 /\ r.left = 0 /\ r.dim = 0 /\ r.structs = struct_depth /\ r.rows = GateRows
    BY <1>2, StandFields
  <2>3. ~row_closed'
    BY <1>0 DEF Meeting, Noted
  <2>4. Placed(r)'
    BY <1>0, <1>1, <2>2 DEF Placed, rows, nesting, commas
  <2> QED
    BY <1>0, <1>1, <2>1, <2>2, <2>3, <2>4 DEF Synced, Closed, nesting, stream
<1> QED
  BY <1>5, <1>6 DEF Follows

\* A literal ends its element: one event is owed for it.
LEMMA LiteralGoes ==
  ASSUME NEW place \in ValuePlaces, NEW v \in {"number", "string", "null", "symbol"}, NEW structs, NEW stack,
         ~InRow => place \in {"value_intro", "type_outro"}
  PROVE  \E p \in ValueEnds, token \in {0, 1} :
            LET q == Stand(place, IF place = "type_outro" THEN 0 ELSE 1, structs, stack, 0, 1)
                r == Stand(p, token, structs, stack, 0, 1)
            IN /\ Goes(q, Literal(v), r) /\ Owes(r) = 1
               /\ InRow => p \in ElementEnds
               /\ Carries(v) => p \in {"scalar", "string_outro"}
               /\ p # "array_outro"
<1> DEFINE q == Stand(place, IF place = "type_outro" THEN 0 ELSE 1, structs, stack, 0, 1)
           scalar == Stand("scalar", 1, structs, stack, 0, 1)
           inside == Stand("string", 1, structs, stack, 0, 1)
           string == Stand("string_outro", 1, structs, stack, 0, 1)
<1>1. q.at = place /\ scalar.at = "scalar" /\ inside.at = "string" /\ string.at = "string_outro"
      /\ scalar.fin = 1 /\ inside.fin = 1 /\ string.fin = 1 /\ q.fin = IF place = "type_outro" THEN 0 ELSE 1
  BY StandFields
<1>2. /\ To(q, "scalar", 1, 0) = scalar /\ To(q, "string", 1, 0) = inside /\ To(inside, "string_outro", 1, 0) = string
  <2>1. 1 - 0 = 1
    OBVIOUS
  <2> QED
    BY <2>1, ToPlace
<1>3. Owes(scalar) = 1 /\ Owes(string) = 1 /\ Owes(q) = IF place = "type_outro" THEN 1 ELSE q.fin
  BY <1>1 DEF Owes
<1>4. "id" \in Pieces /\ "quote" \in Pieces
  BY DEF Pieces
<1>5. CASE v = "string"
  <2>1. Takable(q, "quote") /\ After(q, "quote") = inside /\ Takable(inside, "quote") /\ After(inside, "quote") = string
    <3>1. "string" \notin ValuePlaces
      BY DEF ValuePlaces
    <3> HIDE DEF q, inside, string
    <3> QED
      BY <1>1, <1>2, <3>1 DEF Takable, After
  <2> HIDE DEF q, inside, string
  <2>2. Goes(q, <<"quote", "quote">>, After(After(q, "quote"), "quote"))
    BY <1>4, <2>1, GoesTwo
  <2>3. Goes(q, <<"quote", "quote">>, string)
    BY <2>1, <2>2
  <2>4. Literal(v) = <<"quote", "quote">>
    BY <1>5 DEF Literal
  <2> DEFINE t == <<"quote", "quote">>
  <2>5. Goes(q, t, string) /\ Literal(v) = t
    BY <2>3, <2>4
  <2> HIDE DEF t
  <2>6. Goes(q, Literal(v), string)
    BY <2>5
  <2>7. "string_outro" \in ValueEnds /\ "string_outro" \in ElementEnds
    BY DEF ValueEnds, ElementEnds
  <2> QED
    BY <1>3, <2>6, <2>7 DEF q, string
<1>6. CASE v = "null" /\ ~InRow
  <2>1. Literal(v) = <<>>
    BY <1>6 DEF Literal
  <2>2. Goes(q, <<>>, q)
    BY GoesNowhere
  <2>3. place \in ValueEnds /\ place # "array_outro" /\ ~Carries(v)
    BY <1>6 DEF ValueEnds, Carries
  <2>4. Owes(q) = 1
    BY <1>1, <1>3
  <2>5. \E token \in {0, 1} : token = IF place = "type_outro" THEN 0 ELSE 1
    OBVIOUS
  <2> DEFINE t == <<>>
  <2>6. Goes(q, t, q) /\ Literal(v) = t
    BY <2>1, <2>2
  <2> HIDE DEF t, q
  <2>7. Goes(q, Literal(v), q)
    BY <2>6
  <2> QED
    BY <1>6, <2>3, <2>4, <2>5, <2>7 DEF q
<1>7. CASE ~(v = "string") /\ ~(v = "null" /\ ~InRow)
  <2>1. Literal(v) = <<"id">>
    BY <1>7 DEF Literal
  <2>2. Takable(q, "id") /\ After(q, "id") = scalar
    <3> HIDE DEF q, scalar
    <3> QED
      BY <1>1, <1>2 DEF Takable, After
  <2> HIDE DEF q, scalar
  <2>3. Goes(q, <<"id">>, After(q, "id"))
    BY <1>4, <2>2, GoesOne
  <2> DEFINE t == <<"id">>
  <2>4. Goes(q, t, scalar) /\ Literal(v) = t
    BY <2>1, <2>2, <2>3
  <2> HIDE DEF t
  <2>5. Goes(q, Literal(v), scalar)
    BY <2>4
  <2>6. "scalar" \in ValueEnds /\ "scalar" \in ElementEnds
    BY DEF ValueEnds, ElementEnds
  <2> QED
    BY <1>3, <2>5, <2>6 DEF q, scalar
<1> QED
  BY <1>5, <1>6, <1>7

\* An inline unit, after a blank, where the value is no element.
LEMMA UnitGoes ==
  ASSUME NEW p \in {"scalar", "string_outro"}, NEW token \in {0, 1}, NEW structs, NEW stack,
         ~Own(Stand(p, token, structs, stack, 0, 1))
  PROVE  Goes(Stand(p, token, structs, stack, 0, 1), <<"nl", "unit">>, Stand("inline_unit", token, structs, stack, 0, 1))
<1> DEFINE q == Stand(p, token, structs, stack, 0, 1)
           r == Stand("inline_unit", token, structs, stack, 0, 1)
<1>1. q.at = p /\ q.fin = token
  BY StandFields
<1>2. To(q, "inline_unit", token, 0) = r
  <2>1. 1 - 0 = 1
    OBVIOUS
  <2> QED
    BY <2>1, ToPlace
<1>o. ~Own(q)
  OBVIOUS
<1> HIDE DEF q, r
<1>3. Takable(q, "nl") /\ After(q, "nl") = q /\ Takable(q, "unit") /\ After(q, "unit") = r
  BY <1>1, <1>2, <1>o DEF Takable, After, Settled, ValueEnds, ElementEnds
<1>4. "nl" \in Pieces /\ "unit" \in Pieces
  BY DEF Pieces
<1>5. Goes(q, <<"nl", "unit">>, After(After(q, "nl"), "unit"))
  BY <1>3, <1>4, GoesTwo
<1> QED
  BY <1>3, <1>5 DEF q, r

\* A scalar: the comma due, the value, and its unit where one is written inline.
LEMMA ValueFollows ==
  ASSUME NEW s, Meeting(s), NEW v \in {"number", "string", "null", "symbol"}, NEW u \in Units \cup {NoUnit}, Value(v, u)
  PROVE  Follows(s)
<1> DEFINE inline == ~emitted_unit /\ u # NoUnit
           unit   == IF inline THEN <<"nl", "unit">> ELSE <<>>
<1>0. /\ IInv /\ Flagged /\ Idle /\ NotAfterDim /\ ValuePosition
      /\ inline => Carries(v) /\ ~InRow
      /\ ~had_type_annotation' /\ ~w_awaiting_value' /\ need_semi' /\ stream_begun' /\ ElementBegins
      /\ written' = Comma \o Literal(v) \o unit
      /\ Len(owed') = 1 /\ owed' # <<>> /\ owed'[1].ev = "data"
      /\ UNCHANGED <<w_in_annotation, w_after_dim, arr_dim_set, arr_dim_count, nesting>>
  BY DEF Meeting, Value, ForValue, Writes, Begun, Event, annotated
<1>1. PICK place \in ValuePlaces : /\ Goes(Behind(s, 1), Comma, ValueFrom(place, 1))
                                   /\ ~InRow => place \in {"value_intro", "type_outro"}
  BY <1>0, CommaGoes
<1> DEFINE b == Behind(s, 1)
           q == ValueFrom(place, 1)
<1>2. PICK p \in ValueEnds, token \in {0, 1} :
            /\ Goes(q, Literal(v), Stand(p, token, struct_depth, StartedRows, 0, 1))
            /\ Owes(Stand(p, token, struct_depth, StartedRows, 0, 1)) = 1
            /\ InRow => p \in ElementEnds
            /\ Carries(v) => p \in {"scalar", "string_outro"}
            /\ p # "array_outro"
  BY <1>1, LiteralGoes DEF ValueFrom
<1> DEFINE m == Stand(p, token, struct_depth, StartedRows, 0, 1)
<1>3. PICK r : r = IF inline THEN Stand("inline_unit", token, struct_depth, StartedRows, 0, 1) ELSE m
  OBVIOUS
<1>4. Goes(m, unit, r)
  <2>1. CASE inline
    <3>1. Goes(m, <<"nl", "unit">>, Stand("inline_unit", token, struct_depth, StartedRows, 0, 1))
      <4>1. m.structs = struct_depth /\ m.rows = StartedRows
        BY StandFields
      <4>2. ~Own(m)
        BY <1>0, <2>1, <4>1, OwnInRow
      <4> QED
        BY <1>0, <1>2, <2>1, <4>2, UnitGoes
    <3> DEFINE t == <<"nl", "unit">>
    <3>2. Goes(m, t, r) /\ unit = t
      BY <1>3, <2>1, <3>1
    <3> HIDE DEF t, unit
    <3> QED
      BY <3>2
  <2>2. CASE ~inline
    <3> DEFINE t == <<>>
    <3>1. Goes(m, <<>>, m)
      BY GoesNowhere
    <3>2. Goes(m, t, r) /\ unit = t
      BY <1>3, <2>2, <3>1
    <3> HIDE DEF t, unit
    <3> QED
      BY <3>2
  <2> QED
    BY <2>1, <2>2
<1>5. Goes(Behind(s, Len(owed')), written', r)
  <2>1. Goes(b, Comma, q) /\ Goes(q, Literal(v), m)
    BY <1>1, <1>2
  <2> HIDE DEF b, q, m, unit
  <2>2. Goes(b, Comma \o Literal(v), m)
    BY <2>1, GoesOn
  <2>3. Goes(b, Comma \o Literal(v) \o unit, r)
    BY <1>4, <2>2, GoesOn
  <2> QED
    BY <1>0, <2>3 DEF b
<1>6. /\ r.at \in ValueEnds /\ (InRow => r.at \in ElementEnds) /\ Owes(r) = 1 /\ r.left = 1 /\ r.dim = 0
      /\ r.structs = struct_depth /\ r.rows = StartedRows /\ r.at \notin {"array_outro", "array_dim_sep"}
  <2>1. m.at = p /\ Owes(m) = 1 /\ m.left = 1 /\ m.dim = 0 /\ m.structs = struct_depth /\ m.rows = StartedRows
    BY <1>2, StandFields
  <2>2. p \notin {"array_outro", "array_dim_sep"} /\ "inline_unit" \in ValueEnds
    BY <1>2 DEF ValueEnds, ElementEnds
  <2>3. CASE inline
    <3>1. r = Stand("inline_unit", token, struct_depth, StartedRows, 0, 1)
      BY <1>3, <2>3
    <3>2. r.at = "inline_unit" /\ r.fin = m.fin /\ r.left = 1 /\ r.dim = 0 /\ r.structs = struct_depth /\ r.rows = StartedRows
      BY <3>1, StandFields
    <3>3. p # "type_outro"
      BY <1>0, <1>2, <2>3
    <3> HIDE DEF m
    <3> QED
      BY <1>0, <2>1, <2>2, <2>3, <3>2, <3>3 DEF Owes
  <2>4. CASE ~inline
    <3>1. r = m
      BY <1>3, <2>4
    <3> HIDE DEF m, inline
    <3> QED
      BY <1>2, <2>1, <2>2, <3>1
  <2> QED
    BY <2>3, <2>4
<1> HIDE DEF b, q, m, unit, inline
<1>7. Synced(r)'
  <2>1. GateRows' = StartedRows
    BY <1>0, RowsBegin DEF nesting
  <2>2. ~row_closed' /\ astray' = "no"
    BY <1>0, NotAstray DEF Meeting, Noted
  <2>3. InRow => arr_count'[array_depth - 1] # 0
    <3>1. InRow => array_depth - 1 \in 0..(array_depth - 1) /\ array_depth - 1 \in Depths
      BY <1>0, WriterLimits DEF InRow, IInv, TypeOK, Depths
    <3>2. InRow => arr_count'[array_depth - 1] > 0
      BY <1>0, <3>1, BegunCounts DEF Flagged
    <3>3. InRow => arr_count'[array_depth - 1] \in Nat
      BY <1>0, <3>1, ElementBeginsTyped DEF IInv
    <3> QED
      BY <3>2, <3>3
  <2>4. InRow' = InRow
    BY <1>0 DEF InRow, DirectElement, nesting
  <2>5. Placed(r)'
    BY <1>0, <1>6, <2>3, <2>4 DEF Placed, Idle, NotAfterDim, nesting
  <2> QED
    BY <1>0, <1>6, <2>1, <2>2, <2>5 DEF Synced, Closed, nesting
<1> QED
  BY <1>5, <1>7 DEF Follows

\* A struct begins.
LEMMA StructStartFollows == ASSUME NEW s, Meeting(s), StructStart PROVE Follows(s)
<1>0. /\ IInv /\ Flagged /\ Idle /\ NotAfterDim /\ ValuePosition
      /\ ~had_type_annotation' /\ ~w_awaiting_value' /\ ~need_semi' /\ stream_begun' /\ ElementBegins
      /\ written' = Comma \o <<"lcb">> \o Blank /\ owed' = <<Mark("struct_start")>>
      /\ struct_depth' = struct_depth + 1 /\ struct_depth \in Nat /\ struct_depth < max_struct_nesting
      /\ UNCHANGED <<w_in_annotation, w_after_dim, arr_dim_set, arr_dim_count, array_depth,
                     struct_depth_at_array_start, in_octet_stream>>
  BY DEF Meeting, StructStart, ForValue, Writes, Begun, annotated, IInv, TypeOK
<1>1. PICK place \in ValuePlaces : Goes(Behind(s, 1), Comma, ValueFrom(place, 1))
  BY <1>0, CommaGoes
<1> DEFINE b == Behind(s, 1)
           q == ValueFrom(place, 1)
           t == <<"lcb">>
<1>2. PICK r : r = Stand("struct_intro", 0, struct_depth + 1, StartedRows, 0, 0)
  OBVIOUS
<1>3. Takable(q, "lcb") /\ After(q, "lcb") = r /\ r.at \in Settled
  <2>1. q.at = place /\ q.structs = struct_depth /\ q.rows = StartedRows /\ q.left = 1 /\ q.left - 1 = 0
    BY ValueFromFields
  <2>2. r.at = "struct_intro"
    BY <1>2, StandFields
  <2>3. q.structs < max_struct_nesting
    BY <1>0, <2>1
  <2> HIDE DEF q
  <2> QED
    BY <1>2, <2>1, <2>2, <2>3 DEF Takable, After, Settled, KeyPlaces
<1>4. Goes(b, Comma, q) /\ Goes(r, Blank, r)
  BY <1>1, <1>3, GoesBlank
<1>5. Goes(q, t, r)
  <2> HIDE DEF q
  <2>1. "lcb" \in Pieces
    BY DEF Pieces
  <2>2. Goes(q, <<"lcb">>, After(q, "lcb"))
    BY <1>3, <2>1, GoesOne
  <2> QED
    BY <1>3, <2>2
<1>6. Goes(Behind(s, Len(owed')), written', r)
  <2>1. Len(owed') = 1 /\ written' = Comma \o t \o Blank
    BY <1>0
  <2> HIDE DEF b, q, t
  <2>2. Goes(b, Comma \o t, r)
    BY <1>4, <1>5, GoesOn
  <2>3. Goes(b, Comma \o t \o Blank, r)
    BY <1>4, <2>2, GoesOn
  <2> QED
    BY <2>1, <2>3 DEF b
<1> HIDE DEF b, q, t
<1>7. Synced(r)'
  <2>1. GateRows' = StartedRows
    BY <1>0, RowsBegin
  <2>2. r.at = "struct_intro" /\ r.fin = 0 /\ r.left = 0 /\ r.dim = 0 /\ r.structs = struct_depth' /\ r.rows = StartedRows
    BY <1>0, <1>2, StandFields
  <2>3. ~row_closed'
    BY <1>0, NotedTold DEF Meeting, Mark, Event
  <2>4. ~InRow'
    <3>1. array_depth > 0 => array_depth - 1 \in 0..(array_depth - 1) /\ array_depth - 1 \in Depths
      BY <1>0, WriterLimits DEF IInv, TypeOK, Depths
    <3>2. array_depth > 0 => /\ struct_depth_at_array_start[array_depth - 1] =< struct_depth
                             /\ struct_depth_at_array_start[array_depth - 1] \in Nat
      BY <1>0, <3>1 DEF IInv, TypeOK, RowsNested
    <3> QED
      BY <1>0, <3>2 DEF InRow, DirectElement
  <2>5. Placed(r)'
    BY <1>0, <2>2, <2>4 DEF Placed, Idle, NotAfterDim, KeyPlaces
  <2> QED
    BY <1>0, <2>1, <2>2, <2>3, <2>5 DEF Synced, Closed
<1> QED
  BY <1>6, <1>7 DEF Follows

\* An octet stream begins.
LEMMA OctetStartFollows == ASSUME NEW s, Meeting(s), OctetStreamStart PROVE Follows(s)
<1>0. /\ IInv /\ Flagged /\ Idle /\ NotAfterDim /\ ValuePosition
      /\ ~had_type_annotation' /\ stream_begun' /\ ElementBegins /\ in_octet_stream'
      /\ written' = Comma \o <<"nul">> /\ owed' = <<Mark("octets_start")>>
      /\ UNCHANGED <<w_in_annotation, w_after_dim, arr_dim_set, arr_dim_count, array_depth, struct_depth,
                     struct_depth_at_array_start>>
  BY DEF Meeting, OctetStreamStart, ForValue, Writes, Begun, annotated
<1>1. PICK place \in ValuePlaces : Goes(Behind(s, 1), Comma, ValueFrom(place, 1))
  BY <1>0, CommaGoes
<1> DEFINE b == Behind(s, 1)
           q == ValueFrom(place, 1)
           t == <<"nul">>
<1>2. PICK r : r = Stand("octet_stream_intro", 0, struct_depth, StartedRows, 0, 0)
  OBVIOUS
<1>3. Takable(q, "nul") /\ After(q, "nul") = r
  <2>1. q.at = place /\ "octet_stream_intro" \notin ValuePlaces
    BY ValueFromFields DEF ValuePlaces
  <2>2. To(q, "octet_stream_intro", 0, 1) = r
    <3>1. 1 - 1 = 0
      OBVIOUS
    <3> QED
      BY <1>2, <3>1, ToPlace DEF ValueFrom
  <2> HIDE DEF q
  <2> QED
    BY <2>1, <2>2 DEF Takable, After
<1>4. Goes(b, Comma, q)
  BY <1>1
<1>5. Goes(q, t, r)
  <2> HIDE DEF q
  <2>1. "nul" \in Pieces
    BY DEF Pieces
  <2>2. Goes(q, <<"nul">>, After(q, "nul"))
    BY <1>3, <2>1, GoesOne
  <2> QED
    BY <1>3, <2>2
<1>6. Goes(Behind(s, Len(owed')), written', r)
  <2>1. Len(owed') = 1 /\ written' = Comma \o t
    BY <1>0
  <2> HIDE DEF b, q, t
  <2>2. Goes(b, Comma \o t, r)
    BY <1>4, <1>5, GoesOn
  <2> QED
    BY <2>1, <2>2 DEF b
<1> HIDE DEF b, q, t
<1>7. Synced(r)'
  <2>1. GateRows' = StartedRows
    BY <1>0, RowsBegin
  <2>2. r.at = "octet_stream_intro" /\ r.fin = 0 /\ r.left = 0 /\ r.dim = 0 /\ r.structs = struct_depth
        /\ r.rows = StartedRows
    BY <1>2, StandFields
  <2>3. ~row_closed'
    BY <1>0, NotedTold DEF Meeting, Mark, Event
  <2>4. Placed(r)'
    BY <1>0, <2>2 DEF Placed, Idle
  <2> QED
    BY <1>0, <2>1, <2>2, <2>3, <2>4 DEF Synced, Closed
<1> QED
  BY <1>6, <1>7 DEF Follows

\* Between the two ends of an octet stream the reader is in it.
LEMMA OctetPlace ==
  ASSUME NEW s, Meeting(s), in_octet_stream
  PROVE  /\ IInv /\ Flagged /\ ~had_type_annotation /\ ~w_in_annotation
         /\ s.rows = GateRows /\ s.structs = struct_depth
         /\ Behind(s, 1) = Stand("octet_stream_intro", 0, struct_depth, GateRows, 0, 1)
<1>1. IInv /\ Flagged /\ ~had_type_annotation /\ ~w_in_annotation
  BY DEF Meeting, Flagged, Annotating
<1>2. s.rows = GateRows /\ s.structs = struct_depth /\ s.at = "octet_stream_intro" /\ s.fin = 0 /\ s.left = 0 /\ s.dim = 0
  BY <1>1 DEF Meeting, Synced, Placed
<1>3. 0 + 1 = 1
  OBVIOUS
<1> QED
  BY <1>1, <1>2, <1>3 DEF Behind

\* A chunk of an octet stream.
LEMMA OctetChunkFollows == ASSUME NEW s, Meeting(s), OctetChunk PROVE Follows(s)
<1>0. /\ in_octet_stream /\ stream_begun' /\ written' = <<"chunk">> /\ owed' = <<Mark("octets")>>
      /\ UNCHANGED <<w_in_annotation, rows, commas, nesting>>
  BY DEF OctetChunk, Writes, Begun, annotated
<1>1. IInv /\ Flagged /\ ~had_type_annotation /\ ~w_in_annotation
  BY <1>0, OctetPlace
<1> DEFINE b == Stand("octet_stream_intro", 0, struct_depth, GateRows, 0, 1)
<1>2. PICK r : r = Stand("octet_stream_intro", 0, struct_depth, GateRows, 0, 0)
  OBVIOUS
<1>3. Takable(b, "chunk") /\ After(b, "chunk") = r
  <2>1. b.at = "octet_stream_intro" /\ b.fin = 0
    BY StandFields
  <2>2. To(b, "octet_stream_intro", 0, 1) = r
    <3>1. 1 - 1 = 0
      OBVIOUS
    <3> QED
      BY <1>2, <3>1, ToPlace
  <2> HIDE DEF b
  <2> QED
    BY <2>1, <2>2 DEF Takable, After
<1>4. Goes(Behind(s, Len(owed')), written', r)
  <2>1. Behind(s, 1) = b /\ Len(owed') = 1
    BY <1>0, OctetPlace
  <2> HIDE DEF b
  <2>2. "chunk" \in Pieces
    BY DEF Pieces
  <2>3. Goes(b, <<"chunk">>, After(b, "chunk"))
    BY <1>3, <2>2, GoesOne
  <2> DEFINE t == <<"chunk">>
  <2>4. Goes(b, t, r) /\ written' = t
    BY <1>0, <1>3, <2>3
  <2> HIDE DEF t
  <2> QED
    BY <2>1, <2>4
<1>5. Synced(r)'
  <2>1. GateRows' = GateRows
    BY <1>0, RowsSame DEF rows, nesting, commas
  <2>2. r.at = "octet_stream_intro" /\ r.fin = 0 /\ r.left = 0 /\ r.dim = 0 /\ r.structs = struct_depth
        /\ r.rows = GateRows
    BY <1>2, StandFields
  <2>3. ~row_closed'
    BY <1>0, NotedTold DEF Meeting, Mark, Event
  <2>4. Placed(r)'
    BY <1>0, <1>1, <2>2 DEF Placed, nesting
  <2> QED
    BY <1>0, <2>1, <2>2, <2>3, <2>4 DEF Synced, Closed, nesting
<1> QED
  BY <1>4, <1>5 DEF Follows

\* An octet stream ends.
LEMMA OctetEndFollows == ASSUME NEW s, Meeting(s), OctetStreamEnd PROVE Follows(s)
<1>0. /\ in_octet_stream /\ ~in_octet_stream' /\ NotAfterDim /\ ~w_awaiting_value' /\ need_semi' /\ stream_begun'
      /\ written' = <<"nul">> /\ owed' = <<Mark("octets_end")>>
      /\ UNCHANGED <<w_in_annotation, rows, had_type_annotation, struct_depth, array_depth, struct_depth_at_array_start>>
  BY DEF OctetStreamEnd, Otherwise, Writes, Begun, annotated
<1>1. IInv /\ Flagged /\ ~had_type_annotation /\ ~w_in_annotation
  BY <1>0, OctetPlace
<1> DEFINE b == Stand("octet_stream_intro", 0, struct_depth, GateRows, 0, 1)
<1>2. PICK r : r = Stand("octet_stream_outro", 0, struct_depth, GateRows, 0, 0)
  OBVIOUS
<1>3. Takable(b, "nul") /\ After(b, "nul") = r
  <2>1. b.at = "octet_stream_intro"
    BY StandFields
  <2>2. To(b, "octet_stream_outro", 0, 1) = r
    <3>1. 1 - 1 = 0
      OBVIOUS
    <3> QED
      BY <1>2, <3>1, ToPlace
  <2> HIDE DEF b
  <2> QED
    BY <2>1, <2>2 DEF Takable, After
<1>4. Goes(Behind(s, Len(owed')), written', r)
  <2>1. Behind(s, 1) = b /\ Len(owed') = 1
    BY <1>0, OctetPlace
  <2> HIDE DEF b
  <2>2. "nul" \in Pieces
    BY DEF Pieces
  <2>3. Goes(b, <<"nul">>, After(b, "nul"))
    BY <1>3, <2>2, GoesOne
  <2> DEFINE t == <<"nul">>
  <2>4. Goes(b, t, r) /\ written' = t
    BY <1>0, <1>3, <2>3
  <2> HIDE DEF t
  <2> QED
    BY <2>1, <2>4
<1>5. Synced(r)'
  <2>1. GateRows' = GateRows
    BY <1>0, RowsSame DEF rows
  <2>2. r.at = "octet_stream_outro" /\ r.fin = 0 /\ r.left = 0 /\ r.dim = 0 /\ r.structs = struct_depth
        /\ r.rows = GateRows
    BY <1>2, StandFields
  <2>3. ~row_closed'
    BY <1>0, NotedTold DEF Meeting, Mark, Event
  <2>4. InRow => arr_count[array_depth - 1] # 0
    <3>1. InRow => array_depth - 1 \in 0..(array_depth - 1) /\ arr_count[array_depth - 1] \in Nat
      BY <1>1, WriterLimits DEF InRow, IInv, TypeOK, Depths
    <3>2. InRow => arr_count[array_depth - 1] > 0
      BY <1>0, <1>1, <3>1 DEF Flagged, ElementsHeld, AnElementIn
    <3> QED
      BY <3>1, <3>2
  <2>5. InRow' = InRow
    BY <1>0 DEF InRow, DirectElement
  <2>6. Owes(r) = 0 /\ r.at \in ElementEnds /\ r.at \in ValueEnds
    BY <2>2 DEF Owes, ElementEnds, ValueEnds
  <2>7. Placed(r)'
    BY <1>0, <1>1, <2>2, <2>4, <2>5, <2>6 DEF Placed, NotAfterDim, rows
  <2> QED
    BY <1>0, <2>1, <2>2, <2>3, <2>7 DEF Synced, Closed
<1> QED
  BY <1>4, <1>5 DEF Follows

\* A row opens below the others.
LEMMA RowsAppend ==
  ASSUME IInv, RowStart, NEW base, ~had_type_annotation \/ ~w_after_dim,
         base = IF w_after_dim THEN GateRows ELSE StartedRows
  PROVE  GateRows' = Append(base, [open  |-> struct_depth, size |-> 1,
                                   width |-> IF w_after_dim /\ arr_dim_set[array_depth]
                                             THEN arr_dim_count[array_depth] ELSE R!Unset])
<1>a. PICK new : new = [open  |-> struct_depth, size |-> 1,
                        width |-> IF w_after_dim /\ arr_dim_set[array_depth]
                                  THEN arr_dim_count[array_depth] ELSE R!Unset]
  OBVIOUS
<1>b. PICK n : n = array_depth
  OBVIOUS
<1>1. /\ n \in Nat /\ n \in Depths /\ array_depth' = n + 1 /\ ~had_type_annotation'
      /\ struct_depth_at_array_start' = [struct_depth_at_array_start EXCEPT ![n] = struct_depth]
      /\ arr_count' = [i \in Depths |-> IF i = n THEN 0
                                    ELSE arr_count[i] + (IF i = n - 1 /\ ElementOfParent THEN 1 ELSE 0)]
      /\ arr_dim_set' = (IF w_after_dim THEN arr_dim_set ELSE [arr_dim_set EXCEPT ![n] = FALSE])
      /\ arr_dim_count' = arr_dim_count /\ struct_depth' = struct_depth
      /\ struct_depth_at_array_start \in [Depths -> 0..max_struct_nesting]
      /\ arr_dim_set \in [Depths -> BOOLEAN] /\ arr_count \in [Depths -> Nat]
  BY <1>b, WriterLimits DEF RowStart, RoomForRow, IInv, TypeOK, Depths
<1>2. \A l \in 1..n : l - 1 \in Depths /\ l - 1 # n
  BY <1>1, WriterLimits DEF Depths
<1>3. ASSUME NEW d \in Depths PROVE arr_count'[d] \in Nat /\ BegunIn(d)' = arr_count'[d]
  <2>1. arr_count'[d] = IF d = n THEN 0 ELSE arr_count[d] + (IF d = n - 1 /\ ElementOfParent THEN 1 ELSE 0)
    BY <1>1
  <2>2. arr_count'[d] \in Nat
    BY <1>1, <2>1
  <2>3. BegunIn(d)' = arr_count'[d] + 0
    BY <1>1 DEF BegunIn
  <2> QED
    BY <2>2, <2>3
<1>4. ASSUME NEW l \in 1..n PROVE GateRow(l - 1)' = base[l]
  <2>1. base[l] = IF w_after_dim THEN GateRow(l - 1) ELSE StartedRow(l - 1)
    BY <1>b DEF GateRows, StartedRows
  <2>2. /\ struct_depth_at_array_start'[l - 1] = struct_depth_at_array_start[l - 1]
        /\ arr_dim_set'[l - 1] = arr_dim_set[l - 1] /\ arr_dim_count'[l - 1] = arr_dim_count[l - 1]
        /\ arr_count[l - 1] \in Nat
        /\ BegunIn(l - 1)' = arr_count[l - 1] + (IF l - 1 = n - 1 /\ ElementOfParent THEN 1 ELSE 0)
    BY <1>1, <1>2, <1>3
  <2>3. (IF BegunIn(l - 1)' = 0 THEN 1 ELSE BegunIn(l - 1)')
          = IF w_after_dim THEN (IF BegunIn(l - 1) = 0 THEN 1 ELSE BegunIn(l - 1))
            ELSE IF InRow /\ l - 1 = n - 1 THEN arr_count[l - 1] + 1
            ELSE IF arr_count[l - 1] = 0 THEN 1 ELSE arr_count[l - 1]
    BY <1>b, <2>2 DEF BegunIn, ElementOfParent
  <2> QED
    BY <1>b, <2>1, <2>2, <2>3 DEF GateRow, StartedRow
<1>5. GateRow(n)' = new
  <2>1. struct_depth_at_array_start'[n] = struct_depth /\ BegunIn(n)' = 0
    BY <1>1, <1>3
  <2>2. /\ arr_dim_set'[n] = (w_after_dim /\ arr_dim_set[n])
        /\ arr_dim_count'[n] = arr_dim_count[n]
    BY <1>1 DEF IInv, TypeOK
  <2> QED
    BY <1>a, <1>b, <2>1, <2>2 DEF GateRow
<1>6. GateRows' = [l \in 1..(n + 1) |-> GateRow(l - 1)']
  BY <1>1 DEF GateRows
<1>7. Append(base, new) = [l \in 1..(n + 1) |-> IF l = n + 1 THEN new ELSE base[l]]
  <2>1. base = [l \in 1..n |-> IF w_after_dim THEN GateRow(l - 1) ELSE StartedRow(l - 1)]
    BY <1>b DEF GateRows, StartedRows
  <2>2. base = [l \in 1..n |-> base[l]]
    BY <2>1
  <2> QED
    BY <1>1, <2>2, Appended
<1>8. \A l \in 1..(n + 1) : GateRow(l - 1)' = IF l = n + 1 THEN new ELSE base[l]
  <2>1. ASSUME NEW l \in 1..(n + 1), l = n + 1 PROVE l - 1 = n
    BY <1>1, <2>1
  <2>2. ASSUME NEW l \in 1..(n + 1), l # n + 1 PROVE l \in 1..n
    BY <1>1, <2>2
  <2> QED
    BY <1>4, <1>5, <2>1, <2>2
<1>9. GateRows' = Append(base, new)
  BY <1>6, <1>7, <1>8
<1> QED
  BY <1>9, <1>a

\* Where a row opens, the reader is before it: after a "/" with the width it
\* must have.
LEMMA RowStartFollows == ASSUME NEW s, Meeting(s), RowStart PROVE Follows(s)
<1>0. /\ IInv /\ Flagged /\ Idle
      /\ ~had_type_annotation' /\ ~w_awaiting_value' /\ ~w_after_dim' /\ stream_begun'
      /\ written' = Comma \o <<"lbr">> /\ Len(owed') = 1 /\ owed' # <<>> /\ owed'[1].ev = "row_start"
      /\ array_depth' = array_depth + 1 /\ array_depth \in Nat /\ array_depth \in Depths /\ array_depth < max_array_nesting
      /\ struct_depth_at_array_start' = [struct_depth_at_array_start EXCEPT ![array_depth] = struct_depth]
      /\ arr_count' = [i \in Depths |-> IF i = array_depth THEN 0
                                    ELSE arr_count[i] + (IF i = array_depth - 1 /\ ElementOfParent THEN 1 ELSE 0)]
      /\ UNCHANGED <<need_semi, w_in_annotation, struct_depth, in_octet_stream>>
  BY WriterLimits DEF Meeting, RowStart, RoomForRow, Writes, Begun, Event, annotated, IInv, TypeOK, Depths
<1>1. s.structs = struct_depth /\ s.rows = GateRows
  BY DEF Meeting, Synced
<1>2. PICK base : base = IF w_after_dim THEN GateRows ELSE StartedRows
  OBVIOUS
<1>3. PICK new : new = [open  |-> struct_depth, size |-> 1,
                        width |-> IF w_after_dim /\ arr_dim_set[array_depth]
                                  THEN arr_dim_count[array_depth] ELSE R!Unset]
  OBVIOUS
<1>a. PICK stack : stack = Append(base, new)
  OBVIOUS
<1>4. PICK r : r = Stand("array_intro", 1, struct_depth, stack, 0, 0)
  OBVIOUS
<1>b. Len(base) < max_array_nesting
  <2>1. Len(GateRows) = array_depth /\ Len(StartedRows) = array_depth
    BY <1>0 DEF GateRows, StartedRows
  <2> QED
    BY <1>0, <1>2, <2>1
<1> DEFINE b == Behind(s, 1)
<1>5. \E q : Goes(b, Comma, q) /\ Takable(q, "lbr") /\ AfterLbr(q) = r
  <2>1. CASE w_after_dim
    <3>1. s.at = "array_dim_sep" /\ s.left = 0 /\ arr_dim_set[array_depth] /\ s.dim = arr_dim_count[array_depth]
      BY <1>0, <2>1 DEF Meeting, Synced, Placed, WidthKnown, Idle
    <3>2. ~CommaDue
      BY <1>0, <2>1 DEF Flagged, CommasDue, CommaDue
    <3>3. Goes(b, Comma, b)
      <4> DEFINE none == <<>>
      <4>1. Goes(b, none, b) /\ Comma = none
        BY <3>2, GoesNowhere DEF Comma
      <4> HIDE DEF none, b
      <4> QED
        BY <4>1
    <3>4. b.at = "array_dim_sep" /\ b.structs = struct_depth /\ b.rows = base /\ b.dim = new.width /\ b.left = 1
      <4>1. b.at = s.at /\ b.structs = s.structs /\ b.rows = s.rows /\ b.dim = s.dim /\ b.left = s.left + 1
        BY BehindFields
      <4>2. new.width = arr_dim_count[array_depth]
        BY <1>3, <2>1, <3>1
      <4> HIDE DEF b
      <4> QED
        BY <1>1, <1>2, <2>1, <3>1, <4>1, <4>2
    <3> HIDE DEF b
    <3>5. Takable(b, "lbr")
      BY <1>b, <3>4 DEF Takable
    <3>6. AfterLbr(b) = r
      <4>1. new = [open |-> b.structs, size |-> 1, width |-> IF b.at = "array_dim_sep" THEN b.dim ELSE R!Unset]
        BY <1>3, <3>4
      <4>2. b.left - 1 = 0
        BY <3>4
      <4> QED
        BY <1>4, <1>a, <3>4, <4>1, <4>2 DEF AfterLbr
    <3> QED
      BY <3>3, <3>5, <3>6
  <2>2. CASE ~w_after_dim
    <3>1. PICK place \in ValuePlaces : Goes(b, Comma, ValueFrom(place, 1))
      BY <1>0, <2>2, CommaGoes DEF NotAfterDim, RowStart
    <3> DEFINE q == ValueFrom(place, 1)
    <3>2. q.at \in ValuePlaces /\ q.at # "array_dim_sep" /\ q.structs = struct_depth /\ q.rows = base /\ q.left = 1
      BY <1>2, <2>2, ValueFromFields DEF ValuePlaces
    <3>3. Goes(b, Comma, q)
      BY <3>1
    <3> HIDE DEF q, b
    <3>4. Takable(q, "lbr")
      BY <1>b, <3>2 DEF Takable
    <3>5. AfterLbr(q) = r
      <4>1. new = [open |-> q.structs, size |-> 1, width |-> IF q.at = "array_dim_sep" THEN q.dim ELSE R!Unset]
        BY <1>3, <2>2, <3>2
      <4>2. q.left - 1 = 0
        BY <3>2
      <4> QED
        BY <1>4, <1>a, <3>2, <4>1, <4>2 DEF AfterLbr
    <3> QED
      BY <3>3, <3>4, <3>5
  <2> QED
    BY <2>1, <2>2
<1>6. PICK q : Goes(b, Comma, q) /\ Takable(q, "lbr") /\ AfterLbr(q) = r
  BY <1>5
<1>7. Goes(Behind(s, Len(owed')), written', r)
  <2>1. "lbr" \in Pieces
    BY DEF Pieces
  <2>2. Goes(q, <<"lbr">>, After(q, "lbr"))
    BY <1>6, <2>1, GoesOne
  <2>3. After(q, "lbr") = r
    BY <1>6 DEF After
  <2> DEFINE t == <<"lbr">>
  <2>4. Goes(q, t, r) /\ written' = Comma \o t
    BY <1>0, <2>2, <2>3
  <2> HIDE DEF t, b
  <2>5. Goes(b, Comma \o t, r)
    BY <1>6, <2>4, GoesOn
  <2> QED
    BY <1>0, <2>4, <2>5 DEF b
<1> HIDE DEF b
<1>8. Synced(r)'
  <2>1. GateRows' = stack
    <3>1. ~had_type_annotation \/ ~w_after_dim
      BY <1>0 DEF Flagged, Annotating
    <3> QED
      BY <1>0, <1>2, <1>3, <1>a, <3>1, RowsAppend
  <2>2. r.at = "array_intro" /\ r.fin = 1 /\ r.left = 0 /\ r.dim = 0 /\ r.structs = struct_depth
        /\ r.rows = stack
    BY <1>4, StandFields
  <2>3. ~row_closed'
    BY <1>0 DEF Meeting, Noted
  <2>4. InRow' /\ arr_count'[array_depth' - 1] = 0
    <3>1. array_depth' - 1 = array_depth /\ array_depth' > 0
      BY <1>0
    <3>2. struct_depth_at_array_start'[array_depth] = struct_depth /\ arr_count'[array_depth] = 0
      BY <1>0 DEF IInv, TypeOK
    <3> QED
      BY <1>0, <3>1, <3>2 DEF InRow, DirectElement
  <2>5. Placed(r)'
    BY <1>0, <2>2, <2>4 DEF Placed, Idle
  <2> QED
    BY <1>0, <2>1, <2>2, <2>3, <2>5 DEF Synced, Closed
<1> QED
  BY <1>7, <1>8 DEF Follows

\* A row's end leaves the rows around it, and the width the next "/" row must
\* have.
LEMMA RowEndFollows == ASSUME NEW s, Meeting(s), RowEnd PROVE Follows(s)
<1>0. /\ IInv /\ Flagged /\ Idle /\ NotAfterDim /\ ~had_type_annotation /\ InRow /\ need_semi' /\ stream_begun'
      /\ RowFits(array_depth - 1)
      /\ written' = <<"rbr">> /\ owed' = <<Mark("row_end")>>
      /\ array_depth' = array_depth - 1
      /\ arr_dim_set' = [arr_dim_set EXCEPT ![array_depth - 1] = TRUE]
      /\ arr_dim_count' = [arr_dim_count EXCEPT ![array_depth - 1] = arr_count[array_depth - 1]]
      /\ UNCHANGED <<w_awaiting_value, w_in_annotation, w_after_dim, arr_count,
                   had_type_annotation, struct_depth, struct_depth_at_array_start, in_octet_stream>>
  BY DEF Meeting, RowEnd, Otherwise, Undangled, Idle, Writes, Begun, annotated
<1>1. PICK n : n = array_depth - 1
  OBVIOUS
<1>2. /\ n \in Nat /\ n \in Depths /\ array_depth = n + 1 /\ array_depth \in Nat /\ array_depth > 0
      /\ arr_count[n] \in Nat /\ ~w_awaiting_value
      /\ arr_dim_set \in [Depths -> BOOLEAN] /\ arr_dim_count \in [Depths -> Nat]
  BY <1>0, <1>1, WriterLimits DEF InRow, IInv, TypeOK, RowsNested, Depths
<1>3. s.structs = struct_depth /\ s.rows = GateRows
  BY DEF Meeting, Synced
<1>a. PICK stack : stack = SubSeq(GateRows, 1, n)
  OBVIOUS
<1>4. PICK r : r = Stand("array_outro", 0, struct_depth, stack, arr_count[n], 0)
  OBVIOUS
<1> DEFINE b == Behind(s, 1)
<1>5. Own(b) /\ Len(b.rows) = n + 1 /\ Innermost(b).size = (IF arr_count[n] = 0 THEN 1 ELSE arr_count[n])
      /\ Innermost(b).width \in {R!Unset, arr_count[n]}
      /\ b.rows = GateRows /\ b.structs = struct_depth /\ b.at = s.at /\ Owes(b) = Owes(s) /\ b.left = s.left + 1
  <2>1. b.rows = GateRows /\ b.structs = struct_depth /\ b.at = s.at /\ Owes(b) = Owes(s) /\ b.left = s.left + 1
    BY <1>3, BehindFields DEF Owes
  <2>2. Own(b) /\ Len(b.rows) = n + 1
    BY <1>0, <1>2, <2>1, OwnInRow
  <2>3. BegunIn(n) = arr_count[n]
    <3>1. BegunIn(n) = arr_count[n] + 0
      BY <1>0 DEF BegunIn
    <3> QED
      BY <1>2, <3>1
  <2>4. GateRows[n + 1] = GateRow(n)
    <3>1. n + 1 \in 1..array_depth /\ (n + 1) - 1 = n
      BY <1>2
    <3> QED
      BY <3>1 DEF GateRows
  <2>5. GateRow(n).width \in {R!Unset, arr_count[n]}
    BY <1>0, <1>1 DEF GateRow, RowFits
  <2> HIDE DEF b
  <2> QED
    BY <2>1, <2>2, <2>3, <2>4, <2>5 DEF Innermost, GateRow
<1>6. Takable(b, "rbr") /\ AfterRbr(b) = r
  <2> HIDE DEF b
  <2>1. CASE arr_count[n] = 0
    <3>1. s.at = "array_intro" /\ s.left = 0
      BY <1>0, <1>1, <1>2, <2>1, IdlePlace
    <3>2. Takable(b, "rbr")
      BY <1>5, <2>1, <3>1 DEF Takable, Even
    <3>3. b.left - 1 = 0 /\ Len(b.rows) - 1 = n
      BY <1>2, <1>5, <3>1
    <3> QED
      BY <1>4, <1>5, <1>a, <2>1, <3>1, <3>2, <3>3 DEF AfterRbr
  <2>2. CASE arr_count[n] # 0
    <3>1. s.at \in ElementEnds /\ s.left = Owes(s) /\ Owes(s) \in {0, 1}
      <4>1. s.at \in ElementEnds /\ s.left = Owes(s)
        BY <1>0, <1>1, <1>2, <2>2, IdlePlace
      <4> QED
        BY <4>1 DEF Meeting, Owes
    <3>2. Takable(b, "rbr") /\ b.at # "array_intro"
      BY <1>5, <2>2, <3>1 DEF Takable, Even, ElementEnds
    <3>3. b.left - (Owes(b) + 1) = 0 /\ Len(b.rows) - 1 = n
      BY <1>2, <1>5, <3>1
    <3> QED
      BY <1>4, <1>5, <1>a, <2>2, <3>2, <3>3 DEF AfterRbr
  <2> QED
    BY <2>1, <2>2
<1>7. Goes(Behind(s, Len(owed')), written', r)
  <2>1. "rbr" \in Pieces /\ Len(owed') = 1
    BY <1>0 DEF Pieces
  <2>2. Goes(b, <<"rbr">>, After(b, "rbr"))
    BY <1>6, <2>1, GoesOne
  <2>3. After(b, "rbr") = r
    BY <1>6 DEF After
  <2> DEFINE t == <<"rbr">>
  <2>4. Goes(b, t, r) /\ written' = t
    BY <1>0, <2>2, <2>3
  <2> HIDE DEF t, b
  <2> QED
    BY <2>1, <2>4 DEF b
<1> HIDE DEF b
<1>8. Synced(r)'
  <2>1. GateRows' = stack
    <3>1. ASSUME NEW l \in 1..n PROVE GateRow(l - 1)' = GateRow(l - 1)
      <4>1. l - 1 \in Depths /\ l - 1 # n
        BY <1>2, <3>1, WriterLimits DEF Depths
      <4>2. BegunIn(l - 1)' = BegunIn(l - 1)
        BY <1>0 DEF BegunIn
      <4>3. arr_dim_set'[l - 1] = arr_dim_set[l - 1] /\ arr_dim_count'[l - 1] = arr_dim_count[l - 1]
        BY <1>0, <1>1, <1>2, <4>1
      <4> QED
        BY <1>0, <4>2, <4>3 DEF GateRow
    <3>2. GateRows' = [l \in 1..n |-> GateRow(l - 1)]
      BY <1>0, <1>1, <3>1 DEF GateRows
    <3>3. GateRows = [l \in 1..(n + 1) |-> GateRow(l - 1)]
      BY <1>2 DEF GateRows
    <3>4. SubSeq(GateRows, 1, n) = [l \in 1..n |-> GateRow(l - 1)]
      <4> HIDE DEF GateRow
      <4> QED
        BY <1>2, <3>3
    <3> QED
      BY <1>a, <3>2, <3>4
  <2>2. r.at = "array_outro" /\ r.fin = 0 /\ r.left = 0 /\ r.dim = arr_count[n] /\ r.structs = struct_depth
        /\ r.rows = stack /\ Owes(r) = 0
    BY <1>4, StandFields DEF Owes
  <2>3. WidthKnown(r)'
    <3>1. arr_dim_set'[n] /\ arr_dim_count'[n] = arr_count[n]
      BY <1>0, <1>1, <1>2
    <3> QED
      BY <1>0, <1>1, <2>2, <3>1 DEF WidthKnown
  <2>4. InRow' => arr_count[array_depth' - 1] # 0
    <3>1. InRow' => n - 1 \in 0..(array_depth - 1) /\ n - 1 < array_depth - 1 /\ n - 1 \in Depths /\ array_depth' = n
      BY <1>0, <1>1, <1>2, WriterLimits DEF InRow, IInv, TypeOK, Depths
    <3>2. InRow' => arr_count[n - 1] > 0 /\ arr_count[n - 1] \in Nat
      BY <1>0, <3>1 DEF Flagged, ElementsHeld, AnElementIn, IInv, TypeOK
    <3> QED
      BY <3>1, <3>2
  <2>5. r.at \in ElementEnds /\ r.at \in ValueEnds
    BY <2>2 DEF ElementEnds, ValueEnds
  <2>6. Placed(r)'
    BY <1>0, <1>2, <2>2, <2>3, <2>4, <2>5 DEF Placed, Idle, NotAfterDim
  <2>7. ~(row_closed' /\ ~(r.at = "array_outro"))
    BY <2>2
  <2> QED
    BY <1>0, <2>1, <2>2, <2>6 DEF Synced, Closed
<1> QED
  BY <1>7, <1>8 DEF Follows

\* After a row the reader takes "/" for one, with the width it keeps; elsewhere
\* it passes over it, and the document has gone astray.
LEMMA DimStartFollows == ASSUME NEW s, Meeting(s), DimStart PROVE Follows(s)
<1>0. /\ IInv /\ Flagged /\ NotAfterDim /\ ~had_type_annotation /\ ~w_in_annotation /\ w_after_dim' /\ stream_begun'
      /\ ~finished
      /\ written' = Blank \o <<"slash">> \o Blank /\ owed' = <<Mark("dim_start")>> /\ Len(owed') = 1
      /\ UNCHANGED <<w_awaiting_value, w_in_annotation, arr_count, arr_dim_set, arr_dim_count, had_type_annotation,
                     nesting>>
  BY DEF Meeting, DimStart, Otherwise, Accepting, Undangled, Writes, Begun, annotated
<1>1. s.structs = struct_depth /\ s.rows = GateRows /\ s.left \in Nat
  BY DEF Meeting, Synced
<1>2. s.at \in Settled /\ (s.at = "array_outro" => s.left = 0 /\ s.fin = 0 /\ ~in_octet_stream /\ WidthKnown(s))
  <2>1. \/ s.at \in {"octet_stream_intro", "type_outro", "value_intro", "array_intro"}
        \/ Placed(s) /\ s.at \notin {"octet_stream_intro", "array_dim_sep", "type_outro", "value_intro", "array_intro"}
    BY <1>0 DEF Meeting, Synced, Placed, NotAfterDim, KeyPlaces, ElementEnds, ValueEnds
  <2>2. CASE s.at \in {"octet_stream_intro", "type_outro", "value_intro", "array_intro"}
    BY <2>2 DEF Settled, ValuePlaces
  <2>3. CASE Placed(s) /\ s.at \notin {"octet_stream_intro", "array_dim_sep", "type_outro", "value_intro", "array_intro"}
    <3>1. /\ ~in_octet_stream
          /\ \/ s.at \in KeyPlaces
             \/ s.at \in ValueEnds /\ s.left = Owes(s) /\ (s.at = "array_outro" => WidthKnown(s) /\ s.fin = 0)
      BY <1>0, <2>3 DEF Placed, NotAfterDim, ValueEnds
    <3> QED
      BY <3>1 DEF Settled, KeyPlaces, Owes
  <2> QED
    BY <2>1, <2>2, <2>3
<1> DEFINE b == Behind(s, 1)
<1>3. PICK r : r = After(b, "slash")
  OBVIOUS
<1>4. Takable(b, "slash") /\ b.at \in Settled
  BY <1>2, BehindFields DEF Takable
<1>5. /\ r.structs = struct_depth /\ r.rows = GateRows /\ r.at \in Settled
      /\ s.at # "array_outro" => r.at = s.at /\ r.dim = s.dim
      /\ s.at = "array_outro" => r.at = "array_dim_sep" /\ r.left = 0 /\ r.dim = s.dim
  <2>1. b.at = s.at /\ b.structs = struct_depth /\ b.rows = GateRows /\ b.dim = s.dim /\ b.left = s.left + 1
    BY <1>1, BehindFields
  <2>2. CASE s.at = "array_outro"
    <3>1. b.left - 1 = 0
      BY <1>2, <2>1, <2>2
    <3> DEFINE u == Stand("array_dim_sep", b.fin, b.structs, b.rows, b.dim, b.left - 1)
    <3>2. r = u
      BY <1>3, <2>1, <2>2 DEF After
    <3>3. u.structs = b.structs /\ u.rows = b.rows /\ u.at = "array_dim_sep" /\ u.left = b.left - 1 /\ u.dim = b.dim
      BY StandFields
    <3> HIDE DEF u, b
    <3> QED
      BY <2>1, <2>2, <3>1, <3>2, <3>3 DEF Settled
  <2>3. CASE s.at # "array_outro"
    <3>1. r = b
      BY <1>3, <2>1, <2>3 DEF After
    <3> HIDE DEF b
    <3> QED
      BY <1>2, <2>1, <2>3, <3>1
  <2> QED
    BY <2>2, <2>3
<1>6. Goes(Behind(s, Len(owed')), written', r)
  <2> DEFINE t == <<"slash">>
  <2>1. "slash" \in Pieces
    BY DEF Pieces
  <2>2. Goes(b, <<"slash">>, After(b, "slash"))
    BY <1>4, <2>1, GoesOne
  <2>3. Goes(b, t, r) /\ written' = Blank \o t \o Blank
    BY <1>0, <1>3, <2>2
  <2> HIDE DEF t, b
  <2>4. Goes(b, Blank, b) /\ Goes(r, Blank, r)
    BY <1>4, <1>5, GoesBlank
  <2>5. Goes(b, Blank \o t, r)
    BY <2>3, <2>4, GoesOn
  <2>6. Goes(b, Blank \o t \o Blank, r)
    BY <2>4, <2>5, GoesOn
  <2> QED
    BY <1>0, <2>3, <2>6 DEF b
<1> HIDE DEF b
<1>7. Synced(r)'
  <2>1. GateRows' = GateRows
    BY <1>0, RowsSame DEF nesting
  <2>2. ~row_closed'
    BY <1>0, NotedTold DEF Meeting, Mark, Event
  <2>3. astray' # "separator" => s.at = "array_outro"
    <3>1. astray' # "separator" => row_closed
      BY <1>0 DEF Meeting, Noted, NotAfterDim
    <3>2. row_closed => s.at = "array_outro"
      BY <1>0 DEF Meeting, Synced, Closed
    <3> QED
      BY <3>1, <3>2
  <2>4. astray' # "separator" => Placed(r)'
    <3>1. SUFFICES ASSUME s.at = "array_outro" PROVE Placed(r)'
      BY <2>3
    <3>2. r.at = "array_dim_sep" /\ r.left = 0 /\ ~in_octet_stream' /\ WidthKnown(r)'
      BY <1>0, <1>2, <1>5, <3>1 DEF WidthKnown, nesting
    <3> QED
      BY <1>0, <3>2 DEF Placed
  <2>5. r.at \notin {"array_outro", "array_dim_sep"} => r.dim = 0
    BY <1>5 DEF Meeting, Synced
  <2> QED
    BY <1>0, <1>5, <2>1, <2>2, <2>4, <2>5 DEF Synced, Closed, nesting
<1> QED
  BY <1>6, <1>7 DEF Follows

\* Every call takes the reader along.
LEMMA WriterFollows == ASSUME NEW s, Meeting(s), WriterNext PROVE Follows(s)
<1>1. CASE Annotate
  BY <1>1, AnnotationStartFollows, PartsFollow, AnnotationEndFollows DEF Annotate
<1>2. CASE Values
  BY <1>2, ValueFollows, OctetStartFollows, OctetChunkFollows, OctetEndFollows DEF Values
<1> QED
  BY <1>1, <1>2, StreamFollows, AssignmentFollows, StructStartFollows, StructEndFollows, RowStartFollows, RowEndFollows,
     DimStartFollows, VersionFollows, FinishFollows DEF WriterNext

-----------------------------------------------------------------------------
(* The invariant of the round trip.                                        *)

\* What the history says of the writer.
History ==
    /\ astray \in {"no", "separator", "annotation"} /\ row_closed \in BOOLEAN
    /\ finished => astray = "no"
    /\ ~stream_begun => ~row_closed

\* The invariant of the round trip.
TripInv ==
    /\ IInv /\ Flagged /\ History /\ ReaderSound
    /\ text \in Seq(Pieces)
    /\ \E s : Leads(Standing, text, s) /\ Synced(s)

\* One event owed.
LEMMA OneDue == ASSUME NEW e \in Due PROVE <<e>> \in Seq(Due) /\ <<>> \in Seq(Due)
  OBVIOUS

\* Every event the writer takes is one it may owe.
LEMMA MarksDue == ASSUME NEW ev \in Tellable, NEW t \in Annotations \cup {Plain} PROVE Event(ev, t) \in Due
  BY DEF Event, Due

\* What a call owes the reader is some events, of the kinds and types there are.
LEMMA OwedTyped == TypeOK /\ WriterNext => owed' \in Seq(Due)
<1> SUFFICES ASSUME TypeOK, WriterNext PROVE owed' \in Seq(Due)
  OBVIOUS
<1>1. \/ owed' = <<>>
      \/ \E ev \in Tellable : owed' = <<Mark(ev)>>
      \/ \E ev \in Tellable, t \in Annotations \cup {Plain} : owed' = <<Event(ev, t)>>
  <2>1. CASE StreamStart \/ StreamEnd \/ WriteVersion \/ WriteFinish \/ CallFails
    BY <2>1 DEF StreamStart, StreamEnd, WriteVersion, WriteFinish, CallFails, Writes
  <2>2. CASE Annotate
    <3>1. CASE AnnotationEnd
      <4>1. PICK t : /\ t = [family |-> ann.family,
                             unit |-> IF emitted_unit \/ UnitLeftToWrite THEN ann.unit ELSE NoUnit]
                     /\ owed' = <<Event("annotation", t)>>
        BY <3>1 DEF AnnotationEnd, Writes
      <4>2. t \in Annotations
        BY <4>1 DEF TypeOK, Annotations
      <4> QED
        BY <4>1, <4>2 DEF Tellable
    <3>2. CASE ~AnnotationEnd
      BY <2>2, <3>2 DEF Annotate, AnnotationStart, AnnotationFamily, AnnotationWidth, AnnotationUnit, Writes
    <3> QED
      BY <3>1, <3>2
  <2>3. CASE Values
    <3>1. gov \in Annotations \cup {Plain}
      BY DEF TypeOK
    <3> QED
      BY <2>3, <3>1 DEF Values, Value, OctetStreamStart, OctetChunk, OctetStreamEnd, Writes, Tellable
  <2>4. CASE RowStart
    BY <2>4 DEF RowStart, Writes, TypeOK, Tellable
  <2>5. CASE AssignmentStart \/ StructStart \/ StructEnd \/ RowEnd \/ DimStart
    BY <2>5 DEF AssignmentStart, StructStart, StructEnd, RowEnd, DimStart, Writes, Tellable
  <2> QED
    BY <2>1, <2>2, <2>3, <2>4, <2>5 DEF WriterNext
<1>2. \E e \in Due : TRUE
  BY MarksDue DEF Tellable
<1>3. CASE owed' = <<>>
  <2>1. <<>> \in Seq(Due)
    BY <1>2, OneDue
  <2> QED
    BY <1>3, <2>1
<1>4. CASE \E ev \in Tellable : owed' = <<Mark(ev)>>
  BY <1>4, MarksDue, OneDue DEF Mark
<1>5. CASE \E ev \in Tellable, t \in Annotations \cup {Plain} : owed' = <<Event(ev, t)>>
  BY <1>5, MarksDue, OneDue
<1> QED
  BY <1>1, <1>3, <1>4, <1>5

\* A call leaves the history true of the writer.
LEMMA HistoryKept ==
  ASSUME IInv, Flagged, History, astray = "no", WriterNext, Noted
  PROVE  History'
<1>1. astray' \in {"no", "separator", "annotation"}
  BY DEF Noted
<1>2. row_closed' \in BOOLEAN
  BY DEF Noted, History
<1>3. finished' => astray' = "no"
  <2>1. CASE finished
    <3>1. CallFails
      BY <2>1 DEF WriterNext, StreamStart, StreamEnd, AssignmentStart, Annotate, AnnotationStart, AnnotationFamily,
         AnnotationWidth, AnnotationUnit, AnnotationEnd, Values, Value, OctetStreamStart, OctetChunk, OctetStreamEnd,
         StructStart, StructEnd, RowStart, RowEnd, DimStart, WriteVersion, WriteFinish, Otherwise, ForValue, Accepting,
         InAnnotation
    <3> QED
      BY <3>1, NotAstray DEF CallFails, annotated, rows
  <2>2. CASE ~finished /\ finished'
    <3>1. WriteFinish
      BY <2>2 DEF WriterNext, StreamStart, StreamEnd, AssignmentStart, Annotate, AnnotationStart, AnnotationFamily,
         AnnotationWidth, AnnotationUnit, AnnotationEnd, Values, Value, OctetStreamStart, OctetChunk, OctetStreamEnd,
         StructStart, StructEnd, RowStart, RowEnd, DimStart, WriteVersion, CallFails, Begun, stream
    <3> QED
      BY <3>1, NotAstray DEF WriteFinish, annotated, rows
  <2> QED
    BY <2>1, <2>2 DEF IInv, TypeOK
<1>4. ~stream_begun' => ~row_closed'
  <2>1. \/ Begun
        \/ owed' = <<>> /\ stream_begun' = stream_begun
        \/ AnnotationEnd
    BY DEF WriterNext, StreamStart, StreamEnd, AssignmentStart, Annotate, AnnotationStart, AnnotationFamily,
       AnnotationWidth, AnnotationUnit, Values, Value, OctetStreamStart, OctetChunk, OctetStreamEnd,
       StructStart, StructEnd, RowStart, RowEnd, DimStart, WriteVersion, WriteFinish, CallFails, Writes
  <2>2. CASE Begun
    BY <2>2 DEF Begun
  <2>3. CASE owed' = <<>> /\ stream_begun' = stream_begun
    BY <2>3 DEF Noted, History
  <2>4. CASE AnnotationEnd
    BY <2>4 DEF AnnotationEnd, stream, Flagged, Fresh, Annotating
  <2> QED
    BY <2>1, <2>2, <2>3, <2>4
<1> QED
  BY <1>1, <1>2, <1>3, <1>4 DEF History

\* A call keeps both sides' invariant and puts the reader on its way to the
\* writer's new place.
LEMMA WriteKeeps == TripInv /\ Write => TripInv'
<1> SUFFICES ASSUME TripInv, Write PROVE TripInv'
  OBVIOUS
<1>1. /\ IInv /\ Flagged /\ History /\ ReaderSound /\ WriterNext /\ astray = "no" /\ Noted
      /\ text = <<>> /\ text' = written' /\ due' = due \o owed' /\ UNCHANGED readerVars
  BY DEF TripInv, Write, Noted
<1>2. PICK s : s = Standing /\ Synced(s)
  <2>1. PICK s : Leads(Standing, text, s) /\ Synced(s)
    BY DEF TripInv
  <2>2. Leads(Standing, <<>>, s)
    BY <1>1, <2>1
  <2>3. s = Standing
    BY <2>2, StaysHere
  <2> QED
    BY <2>1, <2>3
<1>3. Meeting(s)
  <2>1. s.fin \in {0, 1} /\ s.left \in Nat
    BY <1>1, <1>2, RowsOpen DEF Pending, ReaderSound
  <2> QED
    BY <1>1, <1>2, <2>1 DEF Meeting, History
<1>4. owed' \in Seq(Due) /\ due' \in Seq(Due) /\ Len(due') = Len(due) + Len(owed')
  <2>1. owed' \in Seq(Due)
    BY <1>1, OwedTyped DEF IInv
  <2> QED
    BY <1>1, <2>1 DEF ReaderSound
<1>5. Standing' = Behind(s, Len(owed'))
  <2>1. /\ OpenRows' = OpenRows /\ Pending' = Pending /\ ClosedWidth' = ClosedWidth
        /\ next_state' = next_state /\ struct_nesting_level' = struct_nesting_level
    BY <1>1 DEF readerVars, OpenRows, OpenRow, Pending, ClosedWidth, AtWidth
  <2> QED
    BY <1>1, <1>2, <1>4, <2>1, RowsOpen DEF Behind, Standing
<1>6. ReaderSound'
  BY <1>1, <1>4 DEF ReaderSound, readerVars, AtWidth
<1>7. PICK r : Goes(Behind(s, Len(owed')), written', r) /\ Synced(r)'
  BY <1>1, <1>3, WriterFollows DEF Follows
<1>8. text' \in Seq(Pieces) /\ \E u : (Leads(Standing, text, u) /\ Synced(u))'
  BY <1>1, <1>5, <1>7 DEF Goes
<1>9. IInv' /\ Flagged' /\ History'
  BY <1>1, TypeKept, NestingKept, UnitsKept, FlagsKept, HistoryKept DEF IInv
<1> QED
  BY <1>6, <1>8, <1>9 DEF TripInv

\* The reader takes a piece: what was ahead of it is, and no side's account
\* changes.
LEMMA ReadKeeps == TripInv /\ Read => TripInv'
<1> SUFFICES ASSUME TripInv, Read PROVE TripInv'
  OBVIOUS
<1>1. /\ IInv /\ Flagged /\ History /\ ReaderSound /\ text \in Seq(Pieces)
      /\ UNCHANGED <<writerVars, row_closed, astray>>
  BY DEF TripInv, Read
<1>2. PICK s : Leads(Standing, text, s) /\ Synced(s)
  BY DEF TripInv
<1>3. ReaderSound' /\ Leads(Standing, text, s)' /\ text' \in Seq(Pieces)
  BY <1>1, <1>2, ReadLeads
<1>4. IInv'
  BY <1>1, StutterKeeps
<1>5. UNCHANGED <<pretty, failed, finished, stream_begun, w_awaiting_value, w_in_annotation, w_after_row_end, w_after_dim,
                  arr_count, arr_dim_set, arr_dim_count, need_semi, had_type_annotation, arr_need_comma,
                  in_octet_stream, struct_depth, array_depth, struct_depth_at_array_start, row_closed, astray>>
  BY <1>1 DEF writerVars, stream, annotated, rows, commas, nesting
<1>6. Flagged' /\ History'
  BY <1>1, <1>5 DEF Flagged, Annotating, ElementsHeld, AnElementIn, CommasDue, Ended, Complete, Fresh, History, InRow,
                    DirectElement
<1>7. Synced(s)'
  BY <1>2, <1>5 DEF Synced, Placed, Closed, WidthKnown, GateRows, GateRow, BegunIn, InRow, DirectElement
<1> QED
  BY <1>3, <1>4, <1>6, <1>7 DEF TripInv

\* The read begins.
LEMMA OpenKeeps == TripInv /\ (Open \/ UNCHANGED tripVars) => TripInv'
<1> SUFFICES ASSUME TripInv, Open \/ UNCHANGED tripVars PROVE TripInv'
  OBVIOUS
<1>1. /\ IInv /\ Flagged /\ History /\ ReaderSound /\ text \in Seq(Pieces)
      /\ UNCHANGED <<writerVars, trip>>
  BY DEF TripInv, Open, tripVars
<1>2. UNCHANGED <<flags, next_state, token_type, struct_nesting_level, array_nesting_level, arr_frames, arr_used_max,
                  curr_row_size, array_row_size, value_type>>
  BY DEF Open, tripVars, readerVars, R!BeginRead, R!Unnested, R!arrays, R!lexing
<1>3. Standing' = Standing
  BY <1>1, <1>2 DEF Standing, Pending, OpenRows, OpenRow, ClosedWidth, AtWidth, trip
<1>4. ReaderSound'
  BY <1>1, <1>2 DEF ReaderSound, AtWidth, trip
<1>5. PICK s : Leads(Standing, text, s) /\ Synced(s)
  BY DEF TripInv
<1>6. Leads(Standing, text, s)'
  BY <1>1, <1>3, <1>5 DEF trip
<1>7. IInv'
  BY <1>1, StutterKeeps
<1>8. UNCHANGED <<pretty, failed, finished, stream_begun, w_awaiting_value, w_in_annotation, w_after_row_end, w_after_dim,
                  arr_count, arr_dim_set, arr_dim_count, need_semi, had_type_annotation, arr_need_comma,
                  in_octet_stream, struct_depth, array_depth, struct_depth_at_array_start, row_closed, astray, text>>
  BY <1>1 DEF writerVars, stream, annotated, rows, commas, nesting, trip
<1>9. Flagged' /\ History'
  BY <1>1, <1>8 DEF Flagged, Annotating, ElementsHeld, AnElementIn, CommasDue, Ended, Complete, Fresh, History, InRow,
                    DirectElement
<1>10. Synced(s)'
  BY <1>5, <1>8 DEF Synced, Placed, Closed, WidthKnown, GateRows, GateRow, BegunIn, InRow, DirectElement
<1> QED
  BY <1>1, <1>4, <1>6, <1>7, <1>8, <1>9, <1>10 DEF TripInv

\* Both sides begin before the first byte.
LEMMA TripStarts == TripInit => TripInv
<1> SUFFICES ASSUME TripInit PROVE TripInv
  OBVIOUS
<1>1. IInv
  BY InitIInv DEF TripInit
<1>2. Flagged /\ History
  <2>1. /\ array_depth = 0 /\ struct_depth = 0 /\ ~finished /\ ~stream_begun /\ ~w_in_annotation /\ ~w_after_dim
        /\ ~w_after_row_end /\ ~w_awaiting_value /\ ~in_octet_stream /\ ~had_type_annotation /\ ~need_semi
        /\ astray = "no" /\ row_closed = FALSE
    BY DEF TripInit, WriterInit
  <2>2. ~InRow /\ 0..(array_depth - 1) = {}
    BY <2>1 DEF InRow
  <2> QED
    BY <2>1, <2>2 DEF Flagged, Annotating, ElementsHeld, CommasDue, Ended, Fresh, History
<1>3. /\ ~flags.continue_on_error /\ struct_nesting_level = 0 /\ array_nesting_level = 0 /\ arr_used_max = 0
      /\ arr_frames = [i \in R!Levels |-> R!ZeroFrame] /\ curr_row_size = 0 /\ array_row_size = 0
      /\ value_type = Plain /\ next_state = "first_bom" /\ token_type = "unknown"
      /\ due = <<>> /\ text = <<>> /\ astray = "no" /\ row_closed = FALSE
  BY DEF TripInit, R!Init
<1>4. ReaderSound
  <2>1. 0 \in R!Levels
    BY WriterLimits DEF R!Levels
  <2>2. R!ZeroFrame \in R!Frame /\ ~R!ZeroFrame.in_dim_seq
    BY DEF R!ZeroFrame, R!BlankFrame, R!Frame, R!Types
  <2>3. due \in Seq(Due)
    BY <1>3
  <2> QED
    BY <1>3, <2>1, <2>2, <2>3 DEF ReaderSound, AtWidth, R!Types
<1>5. text \in Seq(Pieces)
  BY <1>3
<1>6. PICK s : s = Standing
  OBVIOUS
<1>7. Leads(Standing, text, s)
  <2>1. Leads(s, <<>>, s)
    BY LeadsNowhere
  <2> QED
    BY <1>3, <1>6, <2>1
<1>8. Synced(s)
  <2>1. s.at = "first_bom" /\ s.fin = 0 /\ s.structs = 0 /\ s.dim = 0 /\ s.left = 0 /\ s.rows = OpenRows
    <3>1. Len(due) = 0
      BY <1>3
    <3> QED
      BY <1>3, <1>4, <1>6, <3>1, RowsOpen DEF Pending, ClosedWidth, AtWidth
  <2>2. array_depth = 0 /\ struct_depth = 0
    BY DEF TripInit, WriterInit
  <2>3. OpenRows = GateRows
    BY <1>3, <2>2 DEF OpenRows, GateRows
  <2>4. Placed(s)
    BY <2>1 DEF TripInit, WriterInit, Placed, InRow, KeyPlaces
  <2> QED
    BY <1>3, <2>1, <2>2, <2>3, <2>4 DEF Synced, Closed
<1> QED
  BY <1>1, <1>2, <1>4, <1>5, <1>7, <1>8 DEF TripInv

-----------------------------------------------------------------------------
(* The theorems of the round trip.                                         *)

\* Whatever a caller writes, and however much of it the reader has taken, the
\* rest leads the reader to where the writer is: the same structs, the same
\* rows with the same widths, and in the place the writer's flags say.
THEOREM TripInvariance == TripSpec => []TripInv
<1>1. TripInv /\ [TripNext]_tripVars => TripInv'
  BY WriteKeeps, ReadKeeps, OpenKeeps DEF TripNext
<1> QED
  BY <1>1, TripStarts, PTL DEF TripSpec

\* When all is read the reader stands where the writer is.
LEMMA AllRead == TripInv /\ text = <<>> => Synced(Standing)
<1> SUFFICES ASSUME TripInv, text = <<>> PROVE Synced(Standing)
  OBVIOUS
<1>1. PICK s : Leads(Standing, text, s) /\ Synced(s)
  BY DEF TripInv
<1>2. Leads(Standing, <<>>, s)
  BY <1>1
<1>3. s = Standing
  BY <1>2, StaysHere
<1> QED
  BY <1>1, <1>3

\* The writer and the reader count the same levels, elements and widths
\* (bovnar_writer.c arr_count, bovnar_validator.c curr_row_size).
THEOREM SidesCountAlike == TripSpec => []SidesAgree
<1>1. TripInv => SidesAgree
  <2> SUFFICES ASSUME TripInv, text = <<>> PROVE
        /\ struct_depth = struct_nesting_level
        /\ array_depth = array_nesting_level
        /\ \A d \in 0..(array_depth - 1) : struct_depth_at_array_start[d] = arr_frames[d + 1].open_struct_level
        /\ InRow =>
             LET d == array_depth - 1
                 begun == arr_count[d] + (IF had_type_annotation THEN 1 ELSE 0)
             IN  /\ curr_row_size = IF begun = 0 THEN 1 ELSE begun
                 /\ array_row_size = IF arr_dim_set[d] THEN arr_dim_count[d] ELSE R!Unset
    BY DEF SidesAgree
  <2>1. ReaderSound /\ IInv /\ Synced(Standing)
    BY AllRead DEF TripInv
  <2>2. struct_nesting_level = struct_depth /\ OpenRows = GateRows
    BY <2>1, RowsOpen DEF Synced
  <2>3. array_nesting_level = array_depth /\ array_depth \in Nat
    <3>1. Len(GateRows) = array_depth /\ array_depth \in Nat
      BY <2>1 DEF IInv, TypeOK, GateRows
    <3> QED
      BY <2>1, <2>2, <3>1, RowsOpen
  <2>4. ASSUME NEW d \in 0..(array_depth - 1) PROVE OpenRow(d + 1) = GateRow(d)
    <3>1. d + 1 \in 1..array_depth /\ (d + 1) - 1 = d
      BY <2>3
    <3>2. OpenRows[d + 1] = OpenRow(d + 1) /\ GateRows[d + 1] = GateRow(d)
      BY <2>3, <3>1 DEF OpenRows, GateRows
    <3> QED
      BY <2>2, <3>2
  <2>5. \A d \in 0..(array_depth - 1) : struct_depth_at_array_start[d] = arr_frames[d + 1].open_struct_level
    BY <2>4 DEF OpenRow, GateRow
  <2>6. ASSUME InRow
        PROVE  LET d == array_depth - 1
                   begun == arr_count[d] + (IF had_type_annotation THEN 1 ELSE 0)
               IN  /\ curr_row_size = IF begun = 0 THEN 1 ELSE begun
                   /\ array_row_size = IF arr_dim_set[d] THEN arr_dim_count[d] ELSE R!Unset
    <3> DEFINE d == array_depth - 1
    <3>1. d \in 0..(array_depth - 1) /\ d + 1 = array_nesting_level
      BY <2>3, <2>6 DEF InRow
    <3>2. OpenRow(d + 1) = GateRow(d)
      BY <2>4, <3>1
    <3>3. OpenRow(d + 1).size = curr_row_size /\ OpenRow(d + 1).width = array_row_size
      BY <3>1 DEF OpenRow
    <3>4. /\ GateRow(d).size = IF BegunIn(d) = 0 THEN 1 ELSE BegunIn(d)
          /\ GateRow(d).width = IF arr_dim_set[d] THEN arr_dim_count[d] ELSE R!Unset
      BY DEF GateRow
    <3>5. BegunIn(d) = arr_count[d] + (IF had_type_annotation THEN 1 ELSE 0)
      BY <2>6 DEF BegunIn
    <3> QED
      BY <3>2, <3>3, <3>4, <3>5
  <2> QED
    BY <2>2, <2>3, <2>5, <2>6
<1> QED
  BY <1>1, TripInvariance, PTL

\* A finished document is whole (bvnr_write_finish): nothing written is left
\* untold, and the reader may stop there.
THEOREM FinishedDocumentsWhole == TripSpec => []FinishedIsWhole
<1>1. TripInv => FinishedIsWhole
  <2> SUFFICES ASSUME TripInv, finished, text = <<>> PROVE due = <<>> /\ R!Acceptable
    BY DEF FinishedIsWhole
  <2>1. ReaderSound /\ IInv /\ Synced(Standing) /\ astray = "no" /\ Complete /\ ~need_semi /\ ~had_type_annotation
    BY AllRead DEF TripInv, Flagged, Ended, History
  <2>2. Standing.at \in KeyPlaces /\ Standing.left = 0 /\ (Standing.at = "struct_intro" => struct_depth > 0)
        /\ Standing.structs = struct_depth /\ struct_depth = 0
    BY <2>1 DEF Synced, Placed, Complete, InRow
  <2>3. next_state \in {"first_bom", "value_outro"} /\ struct_nesting_level = 0 /\ Len(due) = 0
    BY <2>1, <2>2, RowsOpen DEF KeyPlaces
  <2>4. due = <<>>
    BY <2>1, <2>3 DEF ReaderSound
  <2> QED
    BY <2>3, <2>4 DEF R!Acceptable
<1> QED
  BY <1>1, TripInvariance, PTL

-----------------------------------------------------------------------------
(* What ReadsBack asks of the reader, as far as it can be said of a state. *)

ByteOf(piece) == IF piece = "unit" THEN "id" ELSE piece

\* What a reader must have to take the next piece: an entry for its byte in the
\* row of the state table, and what the handler then tests of the levels.
Welcome(piece) ==
    /\ status = "running" /\ again = "none" /\ utf8_need = 0
    /\ CASE piece = "chunk" -> next_state = "octet_stream_intro"
         [] piece = "nul" /\ next_state = "octet_stream_intro" -> TRUE
         [] OTHER -> next_state # "octet_stream_intro" /\ ByteOf(piece) \in R!Row(next_state)
    /\ piece = "semi" => ~R!Unterminated
    /\ piece \in {"comma", "rbr"} => R!OwnsArray
    /\ piece = "rbr" => array_row_size \in {R!Unset, IF next_state = "array_intro" THEN 0 ELSE curr_row_size}
    /\ piece = "lbr" => array_nesting_level < max_array_nesting
    /\ piece = "lcb" => struct_nesting_level < max_struct_nesting
    /\ piece = "rcb" => struct_nesting_level > 0
    /\ piece = "unit" => ~in_array_element
    /\ piece = "slash" => next_state = "array_outro"

Has(t, piece) == \E n \in 1..Len(t) : t[n] = piece

\* Where a literal may be begun, or stand: what in_array_element says there is
\* whether it is an element of the innermost row.
ElementPlaces == ValuePlaces \cup {"type_body", "scalar", "string", "string_outro"}

\* The writer's text has no half characters, and is written while the reader runs.
Steady ==
    /\ again = "none" /\ utf8_need = 0
    /\ text # <<>> => status = "running"
    /\ in_array_element /\ next_state \in ElementPlaces => Own(Standing)

\* Nothing but blanks before a "/" in the text t.
SlashFirst(t) == \A n \in 1..Len(t) : t[n] = "slash" => \A m \in 1..(n - 1) : t[m] = "nl"

\* A "/" stands behind a row, and no blank is written into an octet stream.
Separated ==
    /\ Has(text, "slash") => next_state = "array_outro" /\ SlashFirst(text)
    /\ next_state = "octet_stream_intro" => ~Has(text, "nl")
    /\ \A n, m \in 1..Len(text) : n < m /\ text[n] = "nul" => text[m] # "nl"

Aimed == Steady /\ (astray # "separator" => Separated)

\* A piece is a whole character, taken at once.
LEMMA WholeBytes ==
  ASSUME NEW p \in Pieces, Takes(p), again = "none", utf8_need = 0
  PROVE  again' = "none" /\ utf8_need' = 0
<1>1. CASE R!OctetChunk \/ R!OctetStreamEnd
  BY <1>1 DEF R!OctetChunk, R!OctetStreamEnd
<1>2. ASSUME NEW b, R!Byte(b), b \notin {"lead", "cont"} PROVE again' = "none" /\ utf8_need' = 0
  <2>1. ~R!IsMalformed(b)
    BY <1>2 DEF R!IsMalformed
  <2> QED
    BY <1>2, <2>1 DEF R!Byte, R!Fed
<1>3. p \notin {"lead", "cont"}
  BY DEF Pieces
<1>4. R!OctetChunk \/ R!OctetStreamEnd \/ R!Byte(p) \/ R!Byte("id") \/ R!Byte("gt")
  BY DEF Takes
<1> QED
  BY <1>1, <1>2, <1>3, <1>4

\* What begins or goes on with a literal, or an annotation of one, is about the
\* same element.
LEMMA SameElement ==
  ASSUME ReaderSound, NEW p \in {"nl", "id", "quote", "lt", "gt", "slash"}, Hears(p), Takable(Standing, p)
  PROVE  in_array_element' = in_array_element
<1>1. R!Dispatch(p) /\ ~R!Reject(p) /\ next_state \notin R!ResyncStates /\ status' = "running"
  BY Taken
<1>2. \/ R!Blank(p) \/ R!CommentOutro(p) \/ R!FirstCommentOutro(p) \/ R!CommentByte(p) \/ R!CopyByte(p)
      \/ R!TypeIntro(p) \/ R!TypeOutro(p) \/ R!ScalarIntro(p) \/ R!StringIntro(p) \/ R!StringStep(p)
      \/ R!ReferenceIndex(p) \/ R!InlineUnitIntro(p) \/ R!ArrayDimSep(p)
  BY <1>1, Handlers
<1>3. ~flags.continue_on_error
  BY DEF ReaderSound
<1>4. CASE R!FirstCommentOutro(p)
  BY <1>1, <1>3, <1>4, ErrorEnds DEF R!FirstCommentOutro
<1>5. CASE R!CopyByte(p)
  BY <1>5, Copied DEF R!Moves
<1>6. CASE R!Blank(p) \/ R!CommentByte(p) \/ R!StringStep(p) \/ R!ReferenceIndex(p) \/ R!InlineUnitIntro(p)
  BY <1>6 DEF R!Blank, R!CommentByte, R!StringStep, R!ReferenceIndex, R!InlineUnitIntro, R!Moves
<1>7. CASE R!TypeIntro(p) \/ R!ScalarIntro(p) \/ R!StringIntro(p) \/ R!TypeOutro(p) \/ R!ArrayDimSep(p) \/ R!CommentOutro(p)
  BY <1>7 DEF R!TypeIntro, R!ScalarIntro, R!StringIntro, R!Begins, R!TypeOutro, R!ArrayDimSep, R!CommentOutro
<1> QED
  BY <1>2, <1>4, <1>5, <1>6, <1>7

\* The "=" of an assignment begins a value that is none.
LEMMA NoElement ==
  ASSUME ReaderSound, Hears("eq"), Takable(Standing, "eq")
  PROVE  ~in_array_element'
<1>1. next_state = "identifier"
  BY RowsOpen DEF Takable
<1>2. R!Dispatch("eq") /\ ~R!Reject("eq") /\ next_state \notin R!ResyncStates
  BY Taken
<1>3. ~R!CommentByte("eq") /\ ~R!CopyByte("eq") /\ ~R!StringStep("eq") /\ ~R!ReferenceIndex("eq")
  BY <1>1, Copied DEF R!StringStep, R!ReferenceIndex, R!CommentByte, R!CommentStates
<1>4. R!ValueIntro("eq")
  BY <1>2, <1>3, Handlers
<1> QED
  BY <1>4 DEF R!ValueIntro

\* Where the reader stands after a piece, of those that lead to a literal.
LEMMA LiteralAhead ==
  ASSUME ReaderSound, NEW p, Takable(Standing, p), After(Standing, p).at \in ElementPlaces
  PROVE  \/ p = "eq"
         \/ /\ p \in {"nl", "id", "quote", "lt", "gt", "slash"} /\ Standing.at \in ElementPlaces
            /\ After(Standing, p).structs = Standing.structs /\ After(Standing, p).rows = Standing.rows
         \/ p \in {"comma", "lbr"} /\ Own(After(Standing, p))
<1>1. p \in Pieces
  BY DEF Takable, Pieces
<1>2. ElementPlaces = {"value_intro", "type_outro", "array_intro", "new_array_value", "type_body", "scalar", "string", "string_outro"}
  BY DEF ElementPlaces, ValuePlaces
<1>3. PICK r : r = Standing
  OBVIOUS
<1>4. \A place, token, told : /\ To(r, place, token, told).at = place /\ To(r, place, token, told).structs = r.structs
                              /\ To(r, place, token, told).rows = r.rows
  BY StandFields DEF To
<1>5. CASE p \in {"nl", "id", "quote", "lt", "gt", "slash"}
  <2>1. /\ After(r, p).structs = r.structs /\ After(r, p).rows = r.rows
    BY <1>4, <1>5, StandFields DEF After
  <2>2. r.at \in ElementPlaces
    <3>1. CASE p = "nl"
      BY <1>2, <1>3, <1>4, <3>1 DEF After
    <3>2. CASE p = "id"
      BY <1>2, <1>3, <1>4, <3>2 DEF After, ValuePlaces
    <3>3. CASE p = "quote"
      BY <1>2, <1>3, <1>4, <3>3 DEF Takable, ValuePlaces
    <3>4. CASE p = "lt"
      BY <1>2, <1>3, <1>4, <3>4 DEF Takable, ValuePlaces
    <3>5. CASE p = "gt"
      BY <1>2, <1>3, <1>4, <3>5 DEF Takable
    <3>6. CASE p = "slash"
      BY <1>2, <1>3, <3>6, StandFields DEF After
    <3> QED
      BY <1>5, <3>1, <3>2, <3>3, <3>4, <3>5, <3>6
  <2> QED
    BY <1>3, <1>5, <2>1, <2>2
<1>6. CASE p = "comma"
  <2>1. Own(r) /\ After(r, p) = AfterComma(r)
    BY <1>3, <1>6 DEF Takable, After
  <2>2. PICK n : n = array_nesting_level
    OBVIOUS
  <2>3. n \in Nat /\ n > 0 /\ Len(r.rows) = n /\ r.rows = [l \in 1..n |-> OpenRow(l)]
    BY <1>3, <2>1, <2>2, RowsOpen DEF Own, OpenRows
  <2>4. PICK stack : stack = [r.rows EXCEPT ![n] = [open |-> @.open, size |-> @.size + 1, width |-> @.width]]
    OBVIOUS
  <2>5. After(r, p).rows = stack /\ After(r, p).structs = r.structs
    BY <2>1, <2>3, <2>4, StandFields DEF AfterComma
  <2>6. Len(stack) = n /\ stack[n].open = r.rows[n].open
    <3>1. stack = [l \in 1..n |-> IF l = n THEN [open |-> r.rows[n].open, size |-> r.rows[n].size + 1,
                                                  width |-> r.rows[n].width] ELSE r.rows[l]]
      BY <2>3, <2>4
    <3> QED
      BY <2>3, <3>1
  <2> QED
    BY <1>3, <1>6, <2>1, <2>3, <2>5, <2>6 DEF Own, Innermost
<1>7. CASE p = "lbr"
  <2>1. PICK n : n = array_nesting_level
    OBVIOUS
  <2>2. n \in Nat /\ Len(r.rows) = n /\ r.rows = [l \in 1..n |-> r.rows[l]]
    BY <1>3, <2>1, RowsOpen DEF OpenRows
  <2>3. PICK new : new = [open |-> r.structs, size |-> 1, width |-> IF r.at = "array_dim_sep" THEN r.dim ELSE R!Unset]
    OBVIOUS
  <2>4. PICK stack : stack = Append(r.rows, new)
    OBVIOUS
  <2>5. After(r, p).rows = stack /\ After(r, p).structs = r.structs
    <3>1. After(r, p) = AfterLbr(r)
      BY <1>7 DEF After
    <3>2. PICK k : k = r.left - 1
      OBVIOUS
    <3>3. AfterLbr(r) = Stand("array_intro", 1, r.structs, stack, 0, k)
      BY <2>3, <2>4, <3>2 DEF AfterLbr
    <3> QED
      BY <3>1, <3>3, StandFields
  <2>6. Len(stack) = n + 1 /\ stack[n + 1].open = r.structs
    <3>1. stack = [l \in 1..(n + 1) |-> IF l = n + 1 THEN new ELSE r.rows[l]]
      BY <2>2, <2>4, Appended
    <3> QED
      BY <2>2, <2>3, <3>1
  <2> QED
    BY <1>3, <1>7, <2>2, <2>5, <2>6 DEF Own, Innermost
<1>8. CASE p \in {"hash", "dot", "unit", "semi", "rbr", "lcb", "rcb", "nul", "chunk"}
  <2>1. CASE p = "chunk"
    BY <1>2, <1>3, <1>4, <2>1 DEF After, Takable
  <2>2. CASE p \in {"hash", "dot", "unit", "semi", "lcb", "rcb", "nul"}
    BY <1>2, <1>3, <1>4, <2>2, StandFields DEF After
  <2>3. CASE p = "rbr"
    BY <1>2, <1>3, <2>3, StandFields DEF After, AfterRbr
  <2> QED
    BY <1>8, <2>1, <2>2, <2>3
<1> QED
  BY <1>1, <1>5, <1>6, <1>7, <1>8 DEF Pieces

\* What reads into an octet stream: its own pieces, or the nul that opens it.
LEMMA OctetsAhead ==
  ASSUME ReaderSound, NEW p, Takable(Standing, p), After(Standing, p).at = "octet_stream_intro"
  PROVE  Standing.at = "octet_stream_intro" \/ p = "nul"
<1>1. p \in Pieces
  BY DEF Takable, Pieces
<1>2. PICK r : r = Standing
  OBVIOUS
<1>3. \A place, token, told : To(r, place, token, told).at = place
  BY StandFields DEF To
<1>4. CASE p \in {"hash", "nl", "dot", "id", "unit", "eq"}
  BY <1>2, <1>3, <1>4 DEF After
<1>5. CASE p \in {"quote", "lt", "gt", "semi", "chunk"}
  BY <1>2, <1>3, <1>5 DEF After
<1>6. CASE p \in {"comma", "rbr", "lbr"}
  BY <1>2, <1>6, StandFields DEF After, AfterComma, AfterRbr, AfterLbr
<1>7. CASE p \in {"slash", "lcb", "rcb"}
  BY <1>2, <1>7, StandFields DEF After
<1> QED
  BY <1>1, <1>4, <1>5, <1>6, <1>7 DEF Pieces

\* The next piece is one for the place.
LEMMA NextTakable ==
  ASSUME TripInv, text # <<>>
  PROVE  /\ text[1] \in Pieces /\ Takable(Standing, text[1])
         /\ Len(text) \in Nat /\ Len(text) >= 1
         /\ Tail(text) \in Seq(Pieces) /\ Len(Tail(text)) = Len(text) - 1
         /\ \A n \in 1..(Len(text) - 1) : Tail(text)[n] = text[n + 1]
<1>1. text \in Seq(Pieces)
  BY DEF TripInv
<1>2. PICK f : /\ f[0] = Standing
               /\ \A n \in 1..Len(text) : Takable(f[n - 1], text[n]) /\ f[n] = After(f[n - 1], text[n])
  BY DEF TripInv, Leads
<1>3. 1 \in 1..Len(text) /\ 1 - 1 = 0
  BY <1>1
<1>4. Takable(f[1 - 1], text[1])
  BY <1>2, <1>3
<1>5. Takable(Standing, text[1])
  BY <1>2, <1>3, <1>4
<1>6. text[1] \in Pieces
  BY <1>1, <1>3
<1> QED
  BY <1>1, <1>5, <1>6

\* What is left of a text has no piece the text had not.
LEMMA HasLess ==
  ASSUME TripInv, text # <<>>, NEW p, Has(Tail(text), p)
  PROVE  Has(text, p)
<1>1. PICK n \in 1..Len(Tail(text)) : Tail(text)[n] = p
  BY DEF Has
<1>2. n + 1 \in 1..Len(text) /\ text[n + 1] = p
  BY <1>1, NextTakable
<1> QED
  BY <1>2 DEF Has

\* Before a "/" that is not next there is a blank.
LEMMA SlashRead ==
  ASSUME TripInv, text # <<>>, SlashFirst(text), Has(Tail(text), "slash")
  PROVE  text[1] = "nl" /\ SlashFirst(Tail(text))
<1>1. PICK n \in 1..Len(Tail(text)) : Tail(text)[n] = "slash"
  BY DEF Has
<1>2. n + 1 \in 1..Len(text) /\ text[n + 1] = "slash" /\ 1 \in 1..((n + 1) - 1)
  BY <1>1, NextTakable
<1>3. text[1] = "nl"
  BY <1>2 DEF SlashFirst
<1>4. ASSUME NEW m \in 1..Len(Tail(text)), Tail(text)[m] = "slash", NEW k \in 1..(m - 1) PROVE Tail(text)[k] = "nl"
  <2>1. /\ m + 1 \in 1..Len(text) /\ text[m + 1] = "slash" /\ k + 1 \in 1..((m + 1) - 1)
        /\ k \in 1..(Len(text) - 1) /\ Tail(text)[k] = text[k + 1]
    BY <1>4, NextTakable
  <2> QED
    BY <2>1 DEF SlashFirst
<1> QED
  BY <1>3, <1>4 DEF SlashFirst

\* Read keeps to it.
LEMMA ReadAims ==
  ASSUME TripInv, Aimed, Read
  PROVE  Aimed'
<1> DEFINE p == text[1]
<1>1. /\ text # <<>> /\ Hears(p) /\ Takes(p) /\ text' = Tail(text) /\ ReaderSound /\ UNCHANGED astray
      /\ status' = "running"
  BY DEF Read, Hears, Takes, TripInv
<1>2. p \in Pieces /\ Takable(Standing, p)
  BY <1>1, NextTakable
<1>3. Standing' = After(Standing, p) /\ ReaderSound'
  BY <1>1, <1>2, TakesPiece DEF Sequel
<1>4. Standing.at = next_state /\ Standing'.at = next_state'
  BY <1>1, <1>3, StandFields DEF Standing
<1> HIDE DEF p
<1>5. Steady'
  <2>1. again' = "none" /\ utf8_need' = 0
    BY <1>1, <1>2, WholeBytes DEF Aimed, Steady
  <2>2. ASSUME in_array_element', next_state' \in ElementPlaces PROVE Own(Standing)'
    <3>1. After(Standing, p).at \in ElementPlaces
      BY <1>3, <1>4, <2>2
    <3>2. CASE p = "eq"
      BY <1>1, <1>2, <2>2, <3>2, NoElement
    <3>3. CASE /\ p \in {"nl", "id", "quote", "lt", "gt", "slash"} /\ Standing.at \in ElementPlaces
               /\ After(Standing, p).structs = Standing.structs /\ After(Standing, p).rows = Standing.rows
      <4>1. in_array_element
        BY <1>1, <1>2, <2>2, <3>3, SameElement
      <4>2. Own(Standing)
        BY <1>4, <3>3, <4>1 DEF Aimed, Steady
      <4>3. Own(After(Standing, p))
        BY <3>3, <4>2 DEF Own, Innermost
      <4> QED
        BY <1>3, <4>3
    <3>4. CASE p \in {"comma", "lbr"} /\ Own(After(Standing, p))
      BY <1>3, <3>4
    <3> QED
      BY <1>1, <1>2, <3>1, <3>2, <3>3, <3>4, LiteralAhead
  <2> QED
    BY <1>1, <2>1, <2>2 DEF Steady
<1>6. ASSUME astray' # "separator" PROVE Separated'
  <2>1. Separated
    BY <1>1, <1>6 DEF Aimed
  <2>2. Has(text', "slash") => next_state' = "array_outro" /\ SlashFirst(text')
    <3> SUFFICES ASSUME Has(Tail(text), "slash") PROVE next_state' = "array_outro" /\ SlashFirst(Tail(text))
      BY <1>1 DEF Has, SlashFirst
    <3>1. next_state = "array_outro" /\ SlashFirst(text)
      BY <1>1, <2>1, HasLess DEF Separated
    <3>2. p = "nl" /\ SlashFirst(Tail(text))
      BY <1>1, <3>1, SlashRead DEF p
    <3>3. After(Standing, p).at = "array_outro"
      BY <1>4, <3>1, <3>2 DEF After
    <3> QED
      BY <1>3, <1>4, <3>2, <3>3
  <2>3. next_state' = "octet_stream_intro" => ~Has(text', "nl")
    <3> SUFFICES ASSUME next_state' = "octet_stream_intro", Has(Tail(text), "nl") PROVE FALSE
      BY <1>1
    <3>1. Standing.at = "octet_stream_intro" \/ p = "nul"
      BY <1>1, <1>2, <1>3, <1>4, OctetsAhead
    <3>2. Has(text, "nl")
      BY <1>1, HasLess
    <3>3. PICK n \in 1..Len(Tail(text)) : Tail(text)[n] = "nl"
      BY DEF Has
    <3>4. n + 1 \in 1..Len(text) /\ text[n + 1] = "nl" /\ 1 \in 1..Len(text) /\ 1 < n + 1
      BY <1>1, <3>3, NextTakable
    <3>5. p # "nul"
      BY <2>1, <3>4 DEF Separated, p
    <3> QED
      BY <1>4, <2>1, <3>1, <3>2, <3>5 DEF Separated
  <2>4. \A n, m \in 1..Len(text') : n < m /\ text'[n] = "nul" => text'[m] # "nl"
    <3> SUFFICES ASSUME NEW n \in 1..Len(Tail(text)), NEW m \in 1..Len(Tail(text)), n < m, Tail(text)[n] = "nul"
                 PROVE  Tail(text)[m] # "nl"
      BY <1>1
    <3>1. /\ n + 1 \in 1..Len(text) /\ m + 1 \in 1..Len(text) /\ n + 1 < m + 1
          /\ text[n + 1] = "nul" /\ Tail(text)[m] = text[m + 1]
      BY <1>1, NextTakable
    <3> QED
      BY <2>1, <3>1 DEF Separated
  <2> QED
    BY <2>2, <2>3, <2>4 DEF Separated
<1> QED
  BY <1>5, <1>6 DEF Aimed

\* The pieces of which a text may have any, anywhere.
Unmarked == Pieces \ {"slash", "nul"}

\* Two texts of them joined are one.
LEMMA JoinUnmarked ==
  ASSUME NEW t \in Seq(Unmarked), NEW u \in Seq(Unmarked)
  PROVE  t \o u \in Seq(Unmarked)
  OBVIOUS

\* The blanks and the comma before what an event writes.
LEMMA BlanksUnmarked ==
  /\ <<>> \in Seq(Unmarked) /\ Blank \in Seq(Unmarked) /\ Comma \in Seq(Unmarked)
  /\ \A d : Indent(d) \in Seq(Unmarked)
<1>1. <<>> \in Seq(Unmarked) /\ <<"nl">> \in Seq(Unmarked) /\ <<"comma">> \in Seq(Unmarked)
  BY DEF Unmarked, Pieces
<1>2. Blank \in Seq(Unmarked) /\ \A d : Indent(d) \in Seq(Unmarked)
  BY <1>1 DEF Blank, Indent
<1>3. Comma \in Seq(Unmarked)
  BY <1>1, <1>2, JoinUnmarked DEF Comma
<1> QED
  BY <1>1, <1>2, <1>3

\* What a value writes.
LEMMA ValueUnmarked ==
  ASSUME NEW v \in {"number", "string", "null", "symbol"}, NEW u, Value(v, u)
  PROVE  written' \in Seq(Unmarked)
<1>1. Literal(v) \in Seq(Unmarked) /\ <<"nl", "unit">> \in Seq(Unmarked)
  <2>1. <<"quote", "quote">> \in Seq(Unmarked) /\ <<"id">> \in Seq(Unmarked) /\ <<"nl", "unit">> \in Seq(Unmarked)
    BY DEF Unmarked, Pieces
  <2> QED
    BY <2>1, BlanksUnmarked DEF Literal
<1>2. PICK c : c = Comma
  OBVIOUS
<1>3. PICK l : l = Literal(v)
  OBVIOUS
<1>4. PICK i : i = (IF ~emitted_unit /\ u # NoUnit THEN <<"nl", "unit">> ELSE <<>>)
  OBVIOUS
<1>5. written' = c \o l \o i
  BY <1>2, <1>3, <1>4 DEF Value, Writes
<1>6. c \in Seq(Unmarked) /\ l \in Seq(Unmarked) /\ i \in Seq(Unmarked)
  BY <1>1, <1>2, <1>3, <1>4, BlanksUnmarked
<1>7. c \o l \in Seq(Unmarked)
  BY <1>6, JoinUnmarked
<1>8. (c \o l) \o i \in Seq(Unmarked)
  BY <1>6, <1>7, JoinUnmarked
<1> QED
  BY <1>5, <1>8

\* What an annotation's events write.
LEMMA AnnotateUnmarked ==
  ASSUME Annotate
  PROVE  written' \in Seq(Unmarked)
<1>1. <<"lt">> \in Seq(Unmarked) /\ <<"gt">> \in Seq(Unmarked) /\ <<"id">> \in Seq(Unmarked)
  BY DEF Unmarked, Pieces
<1>2. ASSUME NEW f, NEW u, AnnotationStart(f, u) PROVE written' \in Seq(Unmarked)
  BY <1>1, <1>2, BlanksUnmarked, JoinUnmarked DEF AnnotationStart, Writes
<1>3. ASSUME NEW f, AnnotationFamily(f) PROVE written' \in Seq(Unmarked)
  BY <1>1, <1>3 DEF AnnotationFamily, Writes
<1>4. CASE AnnotationWidth
  BY <1>1, <1>4 DEF AnnotationWidth, Writes
<1>5. ASSUME NEW u, NEW named, AnnotationUnit(u, named) PROVE written' \in Seq(Unmarked)
  BY <1>1, <1>5, BlanksUnmarked DEF AnnotationUnit, Writes
<1>6. CASE AnnotationEnd
  <2>1. PICK i : i = (IF UnitLeftToWrite THEN <<"id">> ELSE <<>>)
    OBVIOUS
  <2>2. written' = i \o <<"gt">> \o Blank
    BY <1>6, <2>1 DEF AnnotationEnd, Writes
  <2>3. i \in Seq(Unmarked)
    BY <1>1, <2>1, BlanksUnmarked
  <2>4. i \o <<"gt">> \in Seq(Unmarked)
    BY <1>1, <2>3, JoinUnmarked
  <2>5. (i \o <<"gt">>) \o Blank \in Seq(Unmarked)
    BY <2>4, BlanksUnmarked, JoinUnmarked
  <2> QED
    BY <2>2, <2>5
<1> QED
  BY <1>2, <1>3, <1>4, <1>5, <1>6 DEF Annotate

\* What opens or closes a key, a struct or a row, or ends the document, writes.
LEMMA BracketsUnmarked ==
  ASSUME AssignmentStart \/ StructStart \/ StructEnd \/ RowStart \/ RowEnd \/ WriteFinish \/ WriteVersion
  PROVE  written' \in Seq(Unmarked)
<1>1. /\ <<"semi">> \in Seq(Unmarked) /\ <<"dot", "id">> \in Seq(Unmarked) /\ <<"eq">> \in Seq(Unmarked)
      /\ <<"lcb">> \in Seq(Unmarked) /\ <<"rcb">> \in Seq(Unmarked) /\ <<"lbr">> \in Seq(Unmarked)
      /\ <<"rbr">> \in Seq(Unmarked) /\ <<"hash", "id", "nl">> \in Seq(Unmarked)
  BY DEF Unmarked, Pieces
<1>2. PICK ended : ended = (IF need_semi THEN <<"semi">> \o Blank ELSE <<>>)
  OBVIOUS
<1>3. ended \in Seq(Unmarked)
  BY <1>1, <1>2, BlanksUnmarked, JoinUnmarked
<1>4. CASE AssignmentStart
  <2>1. PICK i : i = Indent(struct_depth)
    OBVIOUS
  <2>2. PICK k : k = <<"dot", "id">>
    OBVIOUS
  <2>3. PICK e : e = <<"eq">>
    OBVIOUS
  <2>4. PICK n : n = Blank
    OBVIOUS
  <2>5. written' = ended \o i \o k \o n \o e \o n
    BY <1>2, <1>4, <2>1, <2>2, <2>3, <2>4 DEF AssignmentStart, Writes
  <2>6. i \in Seq(Unmarked) /\ k \in Seq(Unmarked) /\ e \in Seq(Unmarked) /\ n \in Seq(Unmarked)
    BY <1>1, <2>1, <2>2, <2>3, <2>4, BlanksUnmarked
  <2>7. ended \o i \o k \in Seq(Unmarked)
    BY <1>3, <2>6, JoinUnmarked
  <2>8. (ended \o i \o k) \o n \in Seq(Unmarked)
    BY <2>6, <2>7, JoinUnmarked
  <2>9. ((ended \o i \o k) \o n) \o e \in Seq(Unmarked)
    BY <2>6, <2>8, JoinUnmarked
  <2>10. (((ended \o i \o k) \o n) \o e) \o n \in Seq(Unmarked)
    BY <2>6, <2>9, JoinUnmarked
  <2> QED
    BY <2>5, <2>10
<1>5. CASE StructStart
  <2>1. Comma \o <<"lcb">> \in Seq(Unmarked)
    BY <1>1, BlanksUnmarked, JoinUnmarked
  <2>2. (Comma \o <<"lcb">>) \o Blank \in Seq(Unmarked)
    BY <2>1, BlanksUnmarked, JoinUnmarked
  <2> QED
    BY <1>5, <2>2 DEF StructStart, Writes
<1>6. CASE StructEnd
  <2>1. PICK i : i = Indent(struct_depth - 1)
    OBVIOUS
  <2>2. ended \o i \in Seq(Unmarked)
    BY <1>3, <2>1, BlanksUnmarked, JoinUnmarked
  <2>3. (ended \o i) \o <<"rcb">> \in Seq(Unmarked)
    BY <1>1, <2>2, JoinUnmarked
  <2> QED
    BY <1>2, <1>6, <2>1, <2>3 DEF StructEnd, Writes
<1>7. CASE RowStart
  BY <1>1, <1>7, BlanksUnmarked, JoinUnmarked DEF RowStart, Writes
<1>8. CASE RowEnd
  BY <1>1, <1>8 DEF RowEnd, Writes
<1>9. CASE WriteFinish
  BY <1>2, <1>3, <1>9 DEF WriteFinish, Writes
<1>10. CASE WriteVersion
  BY <1>1, <1>10 DEF WriteVersion, Writes
<1> QED
  BY <1>4, <1>5, <1>6, <1>7, <1>8, <1>9, <1>10

\* A "/" and a nul are each written by an event of their own.
LEMMA WritesUnmarked ==
  ASSUME WriterNext, ~DimStart, ~OctetStreamStart, ~OctetStreamEnd
  PROVE  written' \in Seq(Unmarked)
<1>1. CASE StreamStart \/ StreamEnd \/ CallFails
  BY <1>1, BlanksUnmarked DEF StreamStart, StreamEnd, CallFails, Writes
<1>2. CASE OctetChunk
  BY <1>2 DEF OctetChunk, Writes, Unmarked, Pieces
<1> QED
  BY <1>1, <1>2, BracketsUnmarked, AnnotateUnmarked, ValueUnmarked DEF WriterNext, Values

\* Within an octet stream only its own events write.
LEMMA OctetText ==
  ASSUME WriterNext, Flagged, in_octet_stream, ~DimStart
  PROVE  written' \in {<<>>, <<"chunk">>, <<"nul">>}
<1>1. ~Idle /\ ~w_in_annotation /\ stream_begun /\ ~Complete
  BY DEF Idle, Flagged, Annotating, Fresh, Complete
<1>2. CASE Annotate
  BY <1>1, <1>2 DEF Annotate, AnnotationStart, AnnotationFamily, AnnotationWidth, AnnotationUnit, AnnotationEnd,
                    InAnnotation
<1>3. CASE Values
  BY <1>1, <1>3 DEF Values, Value, OctetStreamStart, OctetChunk, OctetStreamEnd, Writes
<1>4. CASE StreamStart \/ StreamEnd \/ CallFails
  BY <1>4 DEF StreamStart, StreamEnd, CallFails, Writes
<1>5. CASE AssignmentStart \/ StructStart \/ StructEnd \/ RowStart \/ RowEnd \/ WriteVersion \/ WriteFinish
  BY <1>1, <1>5 DEF AssignmentStart, StructStart, StructEnd, RowStart, RowEnd, WriteVersion, WriteFinish
<1> QED
  BY <1>2, <1>3, <1>4, <1>5 DEF WriterNext

\* Where the pieces of two texts are in the two joined.
LEMMA JoinedAt ==
  ASSUME NEW S, NEW t \in Seq(S), NEW u \in Seq(S)
  PROVE  /\ t \o u \in Seq(S) /\ Len(t \o u) = Len(t) + Len(u) /\ Len(t) \in Nat /\ Len(u) \in Nat
         /\ \A n \in 1..Len(t) : (t \o u)[n] = t[n]
         /\ \A n \in 1..Len(u) : (t \o u)[Len(t) + n] = u[n]
  OBVIOUS

\* A row separator's text.
LEMMA SlashText ==
  ASSUME NEW t, t = Blank \o <<"slash">> \o Blank
  PROVE  SlashFirst(t) /\ \A n \in 1..Len(t) : t[n] # "nul"
<1>1. PICK b : b = Blank
  OBVIOUS
<1>2. PICK s : s = <<"slash">>
  OBVIOUS
<1>3. b \in Seq(Pieces) /\ s \in Seq(Pieces) /\ Len(s) = 1 /\ s[1] = "slash" /\ \A n \in 1..Len(b) : b[n] = "nl"
  <2>1. b = <<"nl">> \/ b = <<>>
    BY <1>1 DEF Blank
  <2>2. b \in Seq(Pieces) /\ \A n \in 1..Len(b) : b[n] = "nl"
    <3>1. CASE b = <<>>
      BY ONLY <3>1 DEF Pieces
    <3>2. CASE b = <<"nl">>
      BY ONLY <3>2 DEF Pieces
    <3> QED
      BY ONLY <2>1, <3>1, <3>2
  <2>3. s \in Seq(Pieces) /\ Len(s) = 1 /\ s[1] = "slash"
    BY <1>2 DEF Pieces
  <2> QED
    BY <2>2, <2>3
<1>4. PICK u : u = b \o s
  OBVIOUS
<1>5. /\ u \in Seq(Pieces) /\ Len(u) = Len(b) + 1 /\ u[Len(b) + 1] = "slash" /\ Len(b) \in Nat
      /\ \A n \in 1..Len(b) : u[n] = b[n]
  <2>1. /\ b \o s \in Seq(Pieces) /\ Len(b \o s) = Len(b) + Len(s) /\ Len(b) \in Nat
        /\ \A n \in 1..Len(b) : (b \o s)[n] = b[n]
        /\ \A n \in 1..Len(s) : (b \o s)[Len(b) + n] = s[n]
    <3>1. b \in Seq(Pieces) /\ s \in Seq(Pieces)
      BY ONLY <1>3
    <3> QED
      BY ONLY <3>1, JoinedAt
  <2>2. 1 \in 1..Len(s)
    BY ONLY <1>3
  <2> QED
    BY ONLY <1>3, <1>4, <2>1, <2>2
<1>6. t = u \o b
  BY <1>1, <1>2, <1>4
<1>7. /\ Len(t) = Len(u) + Len(b)
      /\ \A n \in 1..Len(u) : t[n] = u[n]
      /\ \A n \in 1..Len(b) : t[Len(u) + n] = b[n]
  <2>1. u \in Seq(Pieces) /\ b \in Seq(Pieces)
    BY ONLY <1>3, <1>5
  <2>2. /\ Len(u \o b) = Len(u) + Len(b)
        /\ \A n \in 1..Len(u) : (u \o b)[n] = u[n]
        /\ \A n \in 1..Len(b) : (u \o b)[Len(u) + n] = b[n]
    BY ONLY <2>1, JoinedAt
  <2> QED
    BY ONLY <1>6, <2>2
<1>8. ASSUME NEW n \in 1..Len(t) PROVE t[n] = IF n = Len(b) + 1 THEN "slash" ELSE "nl"
  <2>1. CASE n \in 1..Len(u)
    BY <1>3, <1>5, <1>7, <2>1
  <2>2. CASE n \notin 1..Len(u)
    <3>1. n - Len(u) \in 1..Len(b) /\ Len(u) + (n - Len(u)) = n
      BY <1>5, <1>7, <2>2
    <3>2. t[Len(u) + (n - Len(u))] = "nl"
      BY <1>3, <1>7, <3>1
    <3> QED
      BY <1>5, <2>2, <3>1, <3>2
  <2> QED
    BY <2>1, <2>2
<1>9. ASSUME NEW n \in 1..Len(t), t[n] = "slash", NEW m \in 1..(n - 1) PROVE t[m] = "nl"
  <2>1. n = Len(b) + 1 /\ m \in 1..Len(t) /\ m # n
    BY <1>5, <1>7, <1>8, <1>9
  <2> QED
    BY <1>8, <2>1
<1> QED
  BY <1>8, <1>9 DEF SlashFirst

\* A nul is the last piece of its text.
LEMMA NulText ==
  ASSUME NEW t, t = Comma \o <<"nul">>
  PROVE  ~Has(t, "slash") /\ \A n, m \in 1..Len(t) : n < m => t[n] # "nul"
<1>1. PICK c : c = Comma
  OBVIOUS
<1>2. PICK s : s = <<"nul">>
  OBVIOUS
<1>3. c \in Seq(Unmarked) /\ s \in Seq(Pieces) /\ Len(s) = 1 /\ s[1] = "nul"
  BY <1>1, <1>2, BlanksUnmarked DEF Pieces
<1>4. /\ t = c \o s /\ c \in Seq(Pieces)
      /\ \A n \in 1..Len(c) : c[n] # "slash" /\ c[n] # "nul"
  BY <1>1, <1>2, <1>3 DEF Unmarked
<1>5. Len(t) = Len(c) + 1 /\ t[Len(c) + 1] = "nul" /\ Len(c) \in Nat /\ \A n \in 1..Len(c) : t[n] = c[n]
  <2>1. /\ Len(c \o s) = Len(c) + Len(s) /\ Len(c) \in Nat
        /\ \A n \in 1..Len(c) : (c \o s)[n] = c[n]
        /\ \A n \in 1..Len(s) : (c \o s)[Len(c) + n] = s[n]
    <3>1. c \in Seq(Pieces) /\ s \in Seq(Pieces)
      BY ONLY <1>3, <1>4
    <3> QED
      BY ONLY <3>1, JoinedAt
  <2>2. 1 \in 1..Len(s)
    BY ONLY <1>3
  <2> QED
    BY ONLY <1>3, <1>4, <2>1, <2>2
<1> QED
  BY <1>4, <1>5 DEF Has

\* A call's text keeps to it: the one text with a "/" is the row separator's,
\* written behind a row, and only a stream's own pieces go into an octet stream.
LEMMA WriteAims ==
  ASSUME TripInv, Aimed, Write
  PROVE  Aimed'
<1>1. /\ IInv /\ Flagged /\ ReaderSound /\ WriterNext /\ astray = "no" /\ status = "running"
      /\ text = <<>> /\ text' = written' /\ UNCHANGED readerVars
  BY DEF TripInv, Write
<1>2. UNCHANGED <<status, next_state, again, utf8_need, in_array_element, struct_nesting_level, OpenRows>>
  BY <1>1 DEF readerVars, OpenRows, OpenRow
<1>3. Steady'
  <2>1. Own(Standing)' <=> Own(Standing)
    BY <1>2, StandFields DEF Own, Innermost, Standing
  <2> QED
    BY <1>1, <1>2, <2>1 DEF Aimed, Steady
<1>4. ASSUME astray' # "separator" PROVE Separated'
  <2>1. /\ Synced(Standing) /\ Placed(Standing) /\ Closed(Standing) /\ Standing.at = next_state
    BY <1>1, AllRead, RowsOpen DEF Synced
  <2>2. CASE DimStart
    <3>1. /\ ~w_in_annotation /\ ~finished /\ ~w_after_dim /\ w_after_dim'
          /\ written' = Blank \o <<"slash">> \o Blank
      BY <2>2 DEF DimStart, Otherwise, Accepting, NotAfterDim, Writes
    <3>2. row_closed
      BY <1>4, <3>1 DEF Write
    <3>3. next_state' = "array_outro"
      BY <1>1, <1>2, <2>1, <3>1, <3>2 DEF Closed
    <3>4. SlashFirst(text') /\ \A n \in 1..Len(text') : text'[n] # "nul"
      BY <1>1, <3>1, SlashText
    <3> QED
      BY <3>3, <3>4 DEF Separated
  <2>3. CASE OctetStreamStart
    <3>1. ~in_octet_stream /\ ~w_in_annotation /\ ~w_after_dim /\ written' = Comma \o <<"nul">>
      BY <2>3 DEF OctetStreamStart, ForValue, NotAfterDim, Idle, Writes
    <3>2. next_state # "octet_stream_intro"
      BY <2>1, <3>1 DEF Placed, ElementEnds, ValueEnds, KeyPlaces
    <3>3. ~Has(text', "slash") /\ \A n, m \in 1..Len(text') : n < m => text'[n] # "nul"
      BY <1>1, <3>1, NulText
    <3> QED
      BY <1>2, <3>2, <3>3 DEF Separated
  <2>4. CASE OctetStreamEnd
    <3>1. text' = <<"nul">>
      BY <1>1, <2>4 DEF OctetStreamEnd, Writes
    <3> QED
      BY <3>1 DEF Separated, Has
  <2>5. CASE ~DimStart /\ ~OctetStreamStart /\ ~OctetStreamEnd
    <3>1. text' \in Seq(Unmarked)
      BY <1>1, <2>5, WritesUnmarked
    <3>2. ~Has(text', "slash") /\ \A n \in 1..Len(text') : text'[n] # "nul"
      BY <3>1 DEF Unmarked, Has
    <3>3. ASSUME next_state' = "octet_stream_intro" PROVE ~Has(text', "nl")
      <4>1. in_octet_stream
        BY <1>2, <2>1, <3>3 DEF Placed, ElementEnds, ValueEnds, KeyPlaces
      <4>2. text' \in {<<>>, <<"chunk">>, <<"nul">>}
        BY <1>1, <2>5, <4>1, OctetText
      <4> QED
        BY <4>2 DEF Has
    <3> QED
      BY <3>2, <3>3 DEF Separated
  <2> QED
    BY <2>2, <2>3, <2>4, <2>5
<1> QED
  BY <1>3, <1>4 DEF Aimed

\* The read begins, or nothing happens.
LEMMA OpenAims ==
  ASSUME TripInv, Aimed, Open \/ UNCHANGED tripVars
  PROVE  Aimed'
<1>1. UNCHANGED <<next_state, again, utf8_need, in_array_element, text, astray, struct_nesting_level, OpenRows>>
  BY DEF Open, tripVars, readerVars, trip, R!BeginRead, R!Unnested, R!arrays, R!lexing, OpenRows, OpenRow
<1>2. status' = "running" \/ status' = status
  BY DEF Open, tripVars, readerVars
<1>3. Own(Standing)' <=> Own(Standing)
  BY <1>1, StandFields DEF Own, Innermost, Standing
<1>4. Steady'
  BY <1>1, <1>2, <1>3 DEF Aimed, Steady
<1>5. Separated' <=> Separated
  BY <1>1 DEF Separated, Has, SlashFirst
<1> QED
  BY <1>1, <1>4, <1>5 DEF Aimed

\* Before the first byte there is nothing to be aimed at.
LEMMA TripAims == TripInit => Aimed
<1> SUFFICES ASSUME TripInit PROVE Aimed
  OBVIOUS
<1>1. text = <<>> /\ again = "none" /\ utf8_need = 0 /\ next_state = "first_bom"
  BY DEF TripInit, R!Init
<1>2. Steady
  BY <1>1 DEF Steady, ElementPlaces, ValuePlaces
<1>3. Separated
  BY <1>1 DEF Separated, Has
<1> QED
  BY <1>2, <1>3 DEF Aimed

\* Wherever the two sides are, the rest of the text is one the reader is aimed at.
THEOREM AimInvariance == TripSpec => [](TripInv /\ Aimed)
<1>1. TripInit => TripInv /\ Aimed
  BY TripStarts, TripAims
<1>2. TripInv /\ Aimed /\ [TripNext]_tripVars => (TripInv /\ Aimed)'
  <2> SUFFICES ASSUME TripInv, Aimed, [TripNext]_tripVars PROVE (TripInv /\ Aimed)'
    OBVIOUS
  <2>1. TripInv'
    BY WriteKeeps, ReadKeeps, OpenKeeps DEF TripNext
  <2>2. Aimed'
    BY WriteAims, ReadAims, OpenAims DEF TripNext
  <2> QED
    BY <2>1, <2>2
<1> QED
  BY <1>1, <1>2, PTL DEF TripSpec

\* The rows of the state table the writer's text is read in.
LEMMA RowsRead ==
  /\ \A s \in {"first_bom", "struct_intro", "value_outro", "first_comment", "identifier"} : R!Row(s) = R!BoundaryRow(s)
  /\ \A s \in ValuePlaces : R!Row(s) = R!ValueRow(s)
  /\ R!Row("type_body") = R!TypeRow /\ R!Row("scalar") = R!ScalarRow("scalar")
  /\ R!Row("inline_unit") = R!InlineUnitRow
  /\ \A s \in {"string", "string_outro"} : R!Row(s) = R!StringRow(s)
  /\ \A s \in {"octet_stream_outro", "struct_outro", "array_outro", "array_dim_sep"} : R!Row(s) = R!OutroRow(s)
<1> USE DEF R!StringStates, R!CommentStates, R!ResyncStates, R!KeyStates, R!ValueStates, R!ElementStates, R!OutroStates
<1>1. \A s \in {"first_bom", "struct_intro", "value_outro", "first_comment", "identifier"} : R!Row(s) = R!BoundaryRow(s)
  BY DEF R!Row
<1>2. \A s \in ValuePlaces : R!Row(s) = R!ValueRow(s)
  BY DEF R!Row, ValuePlaces
<1>3. /\ R!Row("type_body") = R!TypeRow /\ R!Row("scalar") = R!ScalarRow("scalar")
      /\ R!Row("inline_unit") = R!InlineUnitRow
  BY DEF R!Row
<1>4. \A s \in {"string", "string_outro"} : R!Row(s) = R!StringRow(s)
  BY DEF R!Row
<1>5. \A s \in {"octet_stream_outro", "struct_outro", "array_outro", "array_dim_sep"} : R!Row(s) = R!OutroRow(s)
  BY DEF R!Row
<1> QED
  BY <1>1, <1>2, <1>3, <1>4, <1>5

\* No row of them is without an entry for the piece.
LEMMA RowTakes ==
  ASSUME NEW r, NEW p, Takable(r, p), r.at # "octet_stream_intro", p # "chunk", p = "slash" => r.at = "array_outro"
  PROVE  ByteOf(p) \in R!Row(r.at)
<1>1. p \in Pieces
  BY DEF Takable, Pieces
<1>2. PICK at : at = r.at
  OBVIOUS
<1>3. CASE at \in {"first_bom", "struct_intro", "value_outro", "first_comment", "identifier"}
  <2>1. p \in {"hash", "nl", "dot", "id", "eq", "rcb"} /\ (p = "hash" => at = "first_bom") /\ (p = "eq" => at = "identifier")
        /\ (p \in {"dot", "rcb"} => at \in KeyPlaces) /\ (p = "id" => at \in {"first_comment", "identifier"})
    BY <1>1, <1>2, <1>3 DEF Takable, Pieces, ValuePlaces, ValueEnds, ElementEnds, KeyPlaces
  <2>2. ByteOf(p) \in R!BoundaryRow(at)
    BY <1>3, <2>1 DEF ByteOf, KeyPlaces, R!BoundaryRow, R!Bytes
  <2> QED
    BY <1>2, <1>3, <2>2, RowsRead
<1>4. CASE at \in ValuePlaces
  <2>1. /\ p \in {"nl", "id", "quote", "lt", "semi", "comma", "rbr", "lbr", "lcb", "nul"}
        /\ p = "lt" => at # "type_outro"
        /\ p = "semi" => at \in {"value_intro", "type_outro"}
        /\ p = "comma" => at = "type_outro"
        /\ p = "rbr" => at \in {"array_intro", "type_outro"}
    BY <1>1, <1>2, <1>4 DEF Takable, Pieces, ValuePlaces, ValueEnds, ElementEnds, KeyPlaces
  <2>2. ByteOf(p) \in R!ValueRow(at)
    BY <1>4, <2>1 DEF ByteOf, ValuePlaces, R!ValueRow
  <2> QED
    BY <1>2, <1>4, <2>2, RowsRead
<1>5. CASE at \in {"type_body", "scalar", "inline_unit"}
  <2>1. CASE at = "type_body"
    <3>1. p \in {"id", "gt"}
      BY <1>1, <1>2, <2>1 DEF Takable, Pieces, ValuePlaces, ValueEnds, ElementEnds, KeyPlaces, Settled
    <3> QED
      BY <1>2, <2>1, <3>1, RowsRead DEF ByteOf, R!TypeRow, R!Bytes
  <2>2. CASE at = "scalar"
    <3>1. p \in {"nl", "unit", "semi", "comma", "rbr"}
      BY <1>1, <1>2, <2>2 DEF Takable, Pieces, ValuePlaces, ValueEnds, ElementEnds, KeyPlaces
    <3> QED
      BY <1>2, <2>2, <3>1, RowsRead DEF ByteOf, R!ScalarRow
  <2>3. CASE at = "inline_unit"
    <3>1. p \in {"nl", "semi"}
      BY <1>1, <1>2, <2>3 DEF Takable, Pieces, ValuePlaces, ValueEnds, ElementEnds, KeyPlaces
    <3> QED
      BY <1>2, <2>3, <3>1, RowsRead DEF ByteOf, R!InlineUnitRow
  <2> QED
    BY <1>5, <2>1, <2>2, <2>3
<1>6. CASE at \in {"string", "string_outro"}
  <2>1. IF at = "string" THEN p = "quote" ELSE p \in {"nl", "unit", "semi", "comma", "rbr"}
    BY <1>1, <1>2, <1>6 DEF Takable, Pieces, ValuePlaces, ValueEnds, ElementEnds, KeyPlaces, Settled
  <2>2. ByteOf(p) \in R!StringRow(at)
    BY <1>6, <2>1 DEF ByteOf, R!StringRow, R!Bytes
  <2> QED
    BY <1>2, <1>6, <2>2, RowsRead
<1>7. CASE at \in {"octet_stream_outro", "struct_outro", "array_outro", "array_dim_sep"}
  <2>1. /\ p \in {"nl", "semi", "comma", "rbr", "lbr", "slash"}
        /\ p \in {"semi", "comma", "rbr"} => at # "array_dim_sep"
        /\ p = "lbr" => at = "array_dim_sep"
        /\ p = "slash" => at = "array_outro"
    BY <1>1, <1>2, <1>7 DEF Takable, Pieces, ValuePlaces, ValueEnds, ElementEnds, KeyPlaces
  <2>2. ByteOf(p) \in R!OutroRow(at)
    BY <1>7, <2>1 DEF ByteOf, R!OutroRow
  <2> QED
    BY <1>2, <1>7, <2>2, RowsRead
<1>8. at \in Settled \cup {"first_comment", "type_body", "string"}
  BY <1>1, <1>2 DEF Takable, Pieces, Settled, KeyPlaces, ValuePlaces, ValueEnds, ElementEnds
<1> QED
  BY <1>2, <1>3, <1>4, <1>5, <1>6, <1>7, <1>8 DEF Settled, KeyPlaces, ValuePlaces, ValueEnds, ElementEnds

\* Nothing the writer reported as written is turned away by where its reader
\* stands (bovnar_writer.c's event gate against bovnar_scanner.c's state table
\* and the tests of bovnar_validator.c): the next piece has an entry in the row
\* of the state table, the levels it opens or closes are there, the row it ends
\* is its own and of the width the one before it fixed, a ';' leaves no array
\* open, a "/" stands behind a row and a unit behind a scalar outside "[...]".
\* Only a caller whose "/" no row precedes is excepted.
THEOREM NothingTurnedAway == TripSpec => [](astray # "separator" /\ text # <<>> => Welcome(text[1]))
<1>1. TripInv /\ Aimed => (astray # "separator" /\ text # <<>> => Welcome(text[1]))
  <2> SUFFICES ASSUME TripInv, Aimed, astray # "separator", text # <<>> PROVE Welcome(text[1])
    OBVIOUS
  <2>1. PICK p : p = text[1]
    OBVIOUS
  <2>2. PICK r : r = Standing
    OBVIOUS
  <2>3. /\ ReaderSound /\ Steady /\ Separated /\ p \in Pieces /\ Takable(r, p)
        /\ 1 \in 1..Len(text)
    BY <2>1, <2>2, NextTakable DEF TripInv, Aimed
  <2>4. /\ r.at = next_state /\ r.structs = struct_nesting_level /\ Len(r.rows) = array_nesting_level
        /\ array_nesting_level \in Nat /\ (Own(r) <=> R!OwnsArray)
    BY <2>2, <2>3, RowsOpen, OwnRow
  <2>5. status = "running" /\ again = "none" /\ utf8_need = 0
    BY <2>3 DEF Steady
  <2>6. Has(text, p)
    BY <2>1, <2>3 DEF Has
  <2>7. p = "slash" => next_state = "array_outro"
    BY <2>3, <2>6 DEF Separated
  <2>8. p # "chunk" /\ ~(p = "nul" /\ next_state = "octet_stream_intro") => next_state # "octet_stream_intro"
    <3>1. p = "slash" => next_state # "octet_stream_intro"
      BY <2>7
    <3>2. p = "nl" => next_state # "octet_stream_intro"
      BY <2>3, <2>6 DEF Separated
    <3> QED
      BY <2>3, <2>4, <3>1, <3>2 DEF Takable, KeyPlaces, ValuePlaces, ElementEnds, ValueEnds
  <2>9. p # "chunk" /\ next_state # "octet_stream_intro" => ByteOf(p) \in R!Row(next_state)
    BY <2>3, <2>4, <2>7, RowTakes
  <2>10. p = "chunk" => next_state = "octet_stream_intro"
    BY <2>3, <2>4 DEF Takable
  <2>11. /\ p = "semi" => ~R!Unterminated
         /\ p \in {"comma", "rbr"} => R!OwnsArray
         /\ p = "lbr" => array_nesting_level < max_array_nesting
         /\ p = "lcb" => struct_nesting_level < max_struct_nesting
         /\ p = "rcb" => struct_nesting_level > 0
    BY <2>3, <2>4 DEF Takable, R!Unterminated
  <2>12. p = "rbr" => array_row_size \in {R!Unset, IF next_state = "array_intro" THEN 0 ELSE curr_row_size}
    <3> SUFFICES ASSUME p = "rbr" PROVE array_row_size \in {R!Unset, IF next_state = "array_intro" THEN 0 ELSE curr_row_size}
      OBVIOUS
    <3>1. Own(r) /\ Even(r)
      BY <2>3 DEF Takable
    <3>2. Innermost(r) = OpenRow(array_nesting_level)
      BY <2>2, <2>3, <2>4, <3>1, RowsOpen DEF Own, Innermost
    <3>3. Innermost(r).width = array_row_size /\ Innermost(r).size = curr_row_size
      BY <3>2 DEF OpenRow
    <3> QED
      BY <2>4, <3>1, <3>3 DEF Even
  <2>13. p = "unit" => ~in_array_element
    <3>1. p = "unit" => next_state \in ElementPlaces /\ ~Own(r)
      BY <2>3, <2>4 DEF Takable, ElementPlaces
    <3> QED
      BY <2>2, <2>3, <3>1 DEF Steady
  <2> QED
    BY <2>1, <2>5, <2>7, <2>8, <2>9, <2>10, <2>11, <2>12, <2>13 DEF Welcome
<1> QED
  BY <1>1, AimInvariance, PTL
=============================================================================

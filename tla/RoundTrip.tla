------------------------------ MODULE RoundTrip ------------------------------
(***************************************************************************)
(* The writer and the reader together.  A caller drives the writer as it   *)
(* likes; the text of every call the writer accepts is handed to the       *)
(* reader, byte by byte, and the events the reader delivers are held       *)
(* against the ones written.  What the writer reports as success is a      *)
(* document its own reader takes, and takes to say the same.               *)
(***************************************************************************)
EXTENDS Writer

CONSTANT max_array_items

VARIABLES
    \* The reader's.
    flags, status, next_state, last_state, token_type, in_array_element, ver_checked,
    struct_nesting_level, array_nesting_level, arr_frames, arr_used_max, curr_row_size,
    array_row_size, array_items, value_type, utf8_need, again,
    resync_array_depth, resync_struct_depth, resync_saved_struct_nesting, sent,
    \* Between them.
    text,      \* written and not yet read
    due,       \* events written and not yet read back
    row_closed,\* history: the last event was a row end
    astray     \* history: which of two things the gate lets pass has happened

R == INSTANCE Reader WITH
        ValueTypes <- Annotations, MaxSkippedBrackets <- 1,
        Flags <- {[continue_on_error |-> FALSE, text_only |-> FALSE, strict_version |-> TRUE]}

trip == <<text, due, row_closed, astray>>
readerVars ==
    <<flags, status, next_state, last_state, token_type, in_array_element, ver_checked,
      struct_nesting_level, array_nesting_level, arr_frames, arr_used_max, curr_row_size,
      array_row_size, array_items, value_type, utf8_need, again,
      resync_array_depth, resync_struct_depth, resync_saved_struct_nesting, sent>>
tripVars == <<writerVars, readerVars, trip>>

\* What the reader's grammar takes between "<" and ">" (doc/03 5): the
\* family, its width, its unit.
Legible ==
    LET parts == ann_text \o (IF UnitLeftToWrite THEN <<"unit">> ELSE <<>>) IN
    /\ parts \in {<<"family">>, <<"family", "width">>, <<"family", "unit">>, <<"family", "width", "unit">>}
    /\ parts[Len(parts)] = "unit" => ann.family \in TakesUnit

\* Bound: the caller keeps to the elements the reader allows an array (one
\* event begins two at most, a nested array and its first).
WithinBudget ==
    \/ array_items + 2 =< max_array_items
    \/ array_depth' < array_depth
    \/ array_depth = 0 /\ ~w_after_dim'

TripInit ==
    /\ WriterInit /\ R!Init
    /\ text = <<>> /\ due = <<>>
    /\ row_closed = FALSE /\ astray = "no"

\* The caller waits until everything written has been read.
Write ==
    /\ text = <<>> /\ status = "running" /\ astray = "no"
    /\ WriterNext
    /\ WithinBudget
    /\ text' = written'
    /\ due' = due \o owed'
    /\ row_closed' = (IF owed' = <<>> THEN row_closed ELSE owed'[Len(owed')].ev = "row_end")
    /\ astray' = IF w_after_dim' /\ ~w_after_dim /\ ~row_closed THEN "separator"
                 ELSE IF w_in_annotation /\ ~w_in_annotation' /\ ~Legible THEN "annotation"
                 ELSE "no"
    /\ UNCHANGED readerVars

\* The reader takes the next piece of the text, and what it tells is due.
Takes(piece) ==
    /\ CASE piece = "chunk" -> R!OctetChunk
         [] piece = "nul" /\ next_state = "octet_stream_intro" -> R!OctetStreamEnd
         [] piece = "unit"  -> R!Byte("id") /\ next_state' = "inline_unit"
         [] piece = "id"    -> R!Byte("id") /\ next_state' # "inline_unit"
         [] piece = "gt"    -> R!Byte("gt") /\ astray # "annotation"
         [] OTHER           -> R!Byte(piece)
    /\ status' = "running"
    /\ Len(sent') <= Len(due) /\ sent' = SubSeq(due, 1, Len(sent'))

Read ==
    /\ text # <<>> /\ Takes(text[1])
    /\ text' = Tail(text)
    /\ due' = SubSeq(due, Len(sent') + 1, Len(due))
    /\ UNCHANGED <<writerVars, row_closed, astray>>

Open == R!BeginRead /\ status' = "running" /\ UNCHANGED <<writerVars, trip>>

TripNext == Open \/ Write \/ Read

TripSpec == TripInit /\ [][TripNext]_tripVars

-----------------------------------------------------------------------------
(* Properties.                                                             *)

\* A "/" row already wider than the row before it.  The reader refuses the
\* element that makes it so, the writer the row's end: it has to be closed,
\* and no call takes an element back.
Overfull ==
    \E d \in 0..(array_depth - 1) :
        LET annotated_element == InRow /\ d = array_depth - 1 /\ had_type_annotation
        IN  arr_dim_set[d] /\ arr_count[d] + (IF annotated_element THEN 1 ELSE 0) > arr_dim_count[d]

ReadOn == text # <<>> /\ ~Overfull => ENABLED Read

\* Whatever order a caller sends events in, what bvnr_write_event accepts the
\* reader reads back as the same events, with the same types and units in
\* force, unless one of the two deviations has happened: the comma, the "/",
\* the ';' and the unit are where the reader wants them, at any nesting.
ReadsBack == astray = "no" => ReadOn

\* A finished document is whole: the reader may stop where it ends, and every
\* event written has been told.
FinishedIsWhole == finished /\ text = <<>> => due = <<>> /\ R!Acceptable

\* The two sides count alike: when all is read, the reader and the writer agree
\* on every level, on which struct each row is open in, on the elements begun in
\* the innermost row and on the width a "/" row must come to.
SidesAgree ==
    text = <<>> /\ status = "running" /\ ~Overfull =>
        /\ struct_depth = struct_nesting_level
        /\ array_depth = array_nesting_level
        /\ \A d \in 0..(array_depth - 1) : struct_depth_at_array_start[d] = arr_frames[d + 1].open_struct_level
        /\ InRow =>
             LET d == array_depth - 1
                 begun == arr_count[d] + (IF had_type_annotation THEN 1 ELSE 0)
             IN  /\ curr_row_size = IF begun = 0 THEN 1 ELSE begun
                 /\ array_row_size = IF arr_dim_set[d] THEN arr_dim_count[d] ELSE R!Unset

\* bovnar_writer.c's event gate: what a row separator needs is a row that just
\* closed.
SeparatorAfterRow == astray \in {"no", "separator"} => ReadOn

\* bovnar_writer.c's event gate: output its own reader rejects is not reported
\* as success; annotation parameters arrive inside an annotation.
AnnotationsLegible == astray \in {"no", "annotation"} => ReadOn
=============================================================================

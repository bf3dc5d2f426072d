------------------------------- MODULE Reader -------------------------------
(***************************************************************************)
(* The reader of bovnar: the byte-at-a-time pushdown machine of            *)
(* src/src/lexer/bovnar_lexer.c with the structural half of the validator  *)
(* (src/src/validator/bovnar_validator.c) it calls at token boundaries.    *)
(*                                                                         *)
(* A byte is one of a few classes that the state table tells apart by what *)
(* they do to structure; the document is any sequence of them.  A value's  *)
(* text is abstract: whether a literal is well formed, fits its type or a  *)
(* length limit is a choice made at the byte where the code would find it  *)
(* out.  Everything structural is kept: nesting levels, array frames, row  *)
(* widths, the item budget, the type in force, UTF-8 progress, recovery.   *)
(* The type events of one annotation count as one, told when it is whole.  *)
(***************************************************************************)
EXTENDS Integers, Sequences

CONSTANTS
    max_struct_nesting,   \* bvnr_read_flags_t.max_struct_nesting
    max_array_nesting,    \* bvnr_read_flags_t.max_array_nesting
    max_array_items,      \* bvnr_read_flags_t.max_array_items
    ValueTypes,           \* types an annotation can name
    Plain,                \* BVN_TYPE_PLAIN
    Flags,                \* the bvnr_read_flags_t settings a caller may choose
    MaxSkippedBrackets    \* bound: brackets open at once inside a skipped region

\* A limit left at 0 is given its default by bvn_lex_init.
ASSUME LimitsAssumption ==
    /\ max_struct_nesting \in Nat \ {0}
    /\ max_array_nesting \in Nat \ {0}
    /\ max_array_items \in Nat \ {0}
    /\ MaxSkippedBrackets \in Nat \ {0}
ASSUME TypesAssumption == Plain \notin ValueTypes
ASSUME FlagsAssumption ==
    Flags \subseteq [continue_on_error : BOOLEAN, text_only : BOOLEAN, strict_version : BOOLEAN]

VARIABLES
    flags,
    status,                 \* opened, running, accepted or failed
    next_state,             \* the row of the state table
    last_state,             \* the row a comment returns to; dead, and "none" here, outside one
    token_type,
    in_array_element,
    ver_checked,            \* the first comment has been asked for a version
    struct_nesting_level,
    array_nesting_level,
    arr_frames,             \* one frame per array level, and one beyond
    arr_used_max,           \* frames in use since they were last wiped
    curr_row_size,          \* elements begun in the innermost row
    array_row_size,         \* the width that row must have, or Unset
    array_items,            \* elements begun under the outermost "["
    value_type,             \* the type in force for the next value
    utf8_need,              \* 1 inside a multi-byte character
    again,                  \* a byte that cut a character short, to be read on its own
    resync_array_depth,
    resync_struct_depth,
    resync_saved_struct_nesting,
    sent                    \* the events the last step delivered, in order

arrays   == <<array_nesting_level, arr_frames, arr_used_max, curr_row_size, array_row_size, array_items>>
skipping == <<resync_array_depth, resync_struct_depth, resync_saved_struct_nesting>>
lexing   == <<next_state, last_state, token_type, in_array_element, ver_checked>>
vars     == <<flags, status, lexing, struct_nesting_level, arrays, value_type,
              utf8_need, again, skipping, sent>>

-----------------------------------------------------------------------------
(* Bytes, by class.  "id" is any byte a name, symbol, number or unit is    *)
(* made of; "lead" opens a two-byte character and "cont" continues it;     *)
(* "nul" is 0x00, which opens an octet stream and is otherwise a control   *)
(* byte; "eq" also stands for the printable bytes no row but a comment's   *)
(* and a string's has.                                                     *)
Bytes == {"dot", "id", "eq", "semi", "lbr", "rbr", "lcb", "rcb", "comma", "slash",
          "quote", "bsl", "hash", "nl", "lt", "gt", "nul", "lead", "cont"}

StringStates  == {"string", "escape", "esc_hex"}
CommentStates == {"comment", "first_comment"}
ResyncStates  == {"resync", "resync_dot", "resync_string", "resync_string_escape", "resync_comment"}
\* rows where an assignment may begin
KeyStates     == {"first_bom", "struct_intro", "value_outro"}
\* rows where a value, or an element, may begin
ElementStates == {"array_intro", "new_array_value"}
ValueStates   == {"value_intro", "type_outro"} \cup ElementStates
\* rows where a literal may be over
LiteralStates == {"scalar", "string_outro"}
\* rows after a whole container or octet stream
OutroStates   == {"octet_stream_outro", "struct_outro", "array_outro"}
BodyStates    == {"identifier", "type_body", "utf8bom_intro", "reference_index", "inline_unit",
                  "array_dim_sep", "octet_stream_intro"}

States == StringStates \cup CommentStates \cup ResyncStates \cup KeyStates
          \cup ValueStates \cup LiteralStates \cup OutroStates \cup BodyStates

\* The state table: the bytes each row has an action for.
BoundaryRow(s) ==
    CASE s = "first_bom"     -> {"nl", "hash", "dot", "rcb", "lead"}
      [] s = "utf8bom_intro" -> {"cont"}
      [] s \in {"struct_intro", "value_outro"} -> {"nl", "hash", "dot", "rcb"}
      [] s = "identifier"    -> {"id", "lead", "cont", "nl", "hash", "eq"}
      [] OTHER               -> Bytes \ {"nul"}

ValueRow(s) ==
    {"nl", "nul", "quote", "hash", "dot", "id", "lead", "lbr", "lcb"} \cup
    CASE s = "value_intro" -> {"semi", "lt"}
      [] s = "type_outro"  -> {"comma", "semi", "rbr"}
      [] OTHER             -> {"comma", "rbr", "lt"}

TypeRow == Bytes \ {"eq", "semi", "quote", "bsl", "lt", "nul"}

ScalarRow(s) ==
    IF s = "reference_index" THEN {"id", "rbr"}
    ELSE {"nl", "hash", "dot", "id", "lead", "cont", "comma", "semi", "lbr", "rbr"}

StringRow(s) ==
    CASE s = "escape"  -> {"quote", "bsl", "id"}
      [] s = "esc_hex" -> {"id", "lcb", "rcb"}
      [] s = "string_outro" -> {"nl", "quote", "hash", "comma", "semi", "rbr", "id", "lead"}
      [] OTHER         -> Bytes \ {"nul"}

InlineUnitRow == {"nl", "hash", "semi", "id", "dot", "slash", "lbr", "rbr", "lcb", "rcb", "lead", "cont"}

OutroRow(s) ==
    CASE s = "array_outro"   -> {"nl", "hash", "comma", "slash", "semi", "rbr"}
      [] s = "array_dim_sep" -> {"nl", "hash", "lbr"}
      [] OTHER               -> {"nl", "hash", "comma", "semi", "rbr"}

Row(s) ==
    CASE s \in KeyStates \cup CommentStates \cup {"utf8bom_intro", "identifier"} -> BoundaryRow(s)
      [] s \in ValueStates                            -> ValueRow(s)
      [] s = "type_body"                              -> TypeRow
      [] s \in {"scalar", "reference_index"}          -> ScalarRow(s)
      [] s \in StringStates \cup {"string_outro"}     -> StringRow(s)
      [] s = "inline_unit"                            -> InlineUnitRow
      [] s \in OutroStates \cup {"array_dim_sep"}     -> OutroRow(s)
      [] s \in ResyncStates                           -> Bytes
      [] OTHER                                        -> {}

\* Of those, the ones that the text abstracted away can still make an error:
\* a keyword misspelt, a digit missing, a length limit, a stray BOM.
Unsure(s) ==
    CASE s = "first_bom"      -> {"lead"}
      [] s = "utf8bom_intro"  -> {"cont"}
      [] s = "first_comment"  -> {"cont"}
      [] s = "identifier"     -> Row(s) \ {"nl"}
      [] s = "string"         -> Row(s) \ {"quote", "bsl"}
      [] s \in ValueStates \cup {"string_outro"} -> {"id", "lead"}
      [] s = "inline_unit"    -> Row(s) \ {"nl", "hash", "semi"}
      [] s \in {"type_body", "scalar", "reference_index", "escape", "esc_hex"} -> Row(s)
      [] OTHER                -> {}

Unset == -1     \* UINT64_MAX: no row has fixed the width yet

Types  == ValueTypes \cup {Plain}
Levels == 0..max_array_nesting
Frame == [saved_curr : Nat, saved_row : Nat \cup {Unset}, saved_vtype : Types,
          dim_row_size : Nat \cup {Unset}, in_dim_seq : BOOLEAN, open_struct_level : Nat]
BlankFrame(level) == [saved_curr |-> 0, saved_row |-> 0, saved_vtype |-> Plain,
                      dim_row_size |-> 0, in_dim_seq |-> FALSE, open_struct_level |-> level]
ZeroFrame == BlankFrame(0)

Event(ev, t) == [ev |-> ev, type |-> t]
Mark(ev)     == Event(ev, Plain)
Marks(ev, n) == [i \in 1..n |-> Mark(ev)]
Error        == Mark("error")           \* on_error; the statement is abandoned
CommentError == Mark("comment_error")   \* on_error; nothing is abandoned

-----------------------------------------------------------------------------
(* Delivering events.  The consumer may refuse any of them: the read ends  *)
(* there (error_scanner_callback_failed) and nothing after it is told.     *)
(* on_error returns nothing and cannot refuse.                             *)
Emit(evs) ==
    \/ sent' = evs /\ status' = "running"
    \/ /\ \E k \in 1..Len(evs) : evs[k] \notin {Error, CommentError} /\ sent' = SubSeq(evs, 1, k)
       /\ status' = "failed"

Quiet == sent' = <<>> /\ status' = "running"

\* The read ends on an error that is reported and not recovered from.
Fail(evs) ==
    /\ sent' = evs \o <<Error>>
    /\ status' = "failed"
    /\ UNCHANGED <<lexing, struct_nesting_level, arrays, value_type, skipping>>

\* mutant: any open array passes the test, a struct inside it or not
OwnsArray_any == array_nesting_level > 0

\* The innermost "[" was opened by the innermost struct still open (or at top
\* level): the test ']', ',' and ';' all make.
OwnsArray ==
    /\ array_nesting_level > 0
    /\ arr_frames[array_nesting_level].open_struct_level = struct_nesting_level

\* mutant: the wipe takes the live open_struct_level with it
Wiped_whole(base) ==
    [i \in Levels |-> IF base <= i /\ i < arr_used_max THEN ZeroFrame ELSE arr_frames[i]]

\* Frames from base up are scratch; base's own open_struct_level is not.
Wiped(base) ==
    [i \in Levels |->
        IF base <= i /\ i < arr_used_max
        THEN BlankFrame(IF i = base THEN arr_frames[i].open_struct_level ELSE 0)
        ELSE arr_frames[i]]

\* mutants: recovery closes every array, or none
OwnBase_all(base, depth)  == base = 0
OwnBase_none(base, depth) == base = array_nesting_level

\* bvn_resync_close_own_arrays stops at the first array opened outside the
\* struct at this depth.
OwnBase(base, depth) ==
    /\ base = 0 \/ arr_frames[base].open_struct_level # depth
    /\ \A i \in (base + 1)..array_nesting_level : arr_frames[i].open_struct_level = depth

CloseArraysTo(base, items) ==
    /\ array_nesting_level' = base
    /\ arr_frames' = Wiped(base)
    /\ arr_used_max' = base
    /\ array_items'    = IF base = 0 THEN 0 ELSE items
    /\ curr_row_size'  = IF base = 0 THEN 0
                         ELSE IF base < array_nesting_level THEN arr_frames[base].saved_curr ELSE curr_row_size
    /\ array_row_size' = IF base = 0 THEN 0
                         ELSE IF base < array_nesting_level THEN arr_frames[base].saved_row ELSE array_row_size

RowEnds(base) == Marks("row_end", array_nesting_level - base)

-----------------------------------------------------------------------------
(* Recovery (continue_on_error).                                           *)

\* mutant: the skip forgets that the error was inside a string
ResyncTarget_plain(b) ==
    IF b = "quote" THEN "resync_string" ELSE IF b = "hash" THEN "resync_comment" ELSE "resync"

\* The skip begins inside a string when its closing quote is still ahead, or
\* when the offending byte has just opened a string or a comment.
ResyncTarget(b) ==
    CASE next_state \in {"string", "escape"} -> "resync_string"
      [] next_state = "esc_hex"              -> IF b = "quote" THEN "resync" ELSE "resync_string"
      [] OTHER -> IF b = "quote" THEN "resync_string"
                  ELSE IF b = "hash" THEN "resync_comment" ELSE "resync"

\* bvn_enter_resync: own arrays closed, token and type forgotten.
EnterResync(base, items) ==
    /\ OwnBase(base, struct_nesting_level)
    /\ CloseArraysTo(base, items)
    /\ value_type' = Plain
    /\ token_type' = "unknown"
    /\ in_array_element' = FALSE
    /\ resync_saved_struct_nesting' = struct_nesting_level
    /\ ver_checked' = (ver_checked \/ next_state = "first_comment")
    /\ last_state' = "none"

(* The whole error path for byte b, after a handler that had delivered evs *)
(* and charged the item budget: report, then give up or recover.  A ';'    *)
(* that is the offending byte is itself the boundary, a '}' closes its     *)
(* struct, a '[' or '{' has its own closing bracket still ahead.           *)
ErrorOn(b, evs, items) ==
    IF ~flags.continue_on_error THEN Fail(evs)
    ELSE \E base \in 0..array_nesting_level :
        LET plain  == ResyncTarget(b) = "resync"
            closes == plain /\ b = "rcb" /\ struct_nesting_level > 0
        IN
        /\ EnterResync(base, items)
        /\ next_state' = IF plain /\ b = "semi" THEN "value_outro" ELSE ResyncTarget(b)
        /\ resync_array_depth'  = IF plain /\ b = "lbr" THEN 1 ELSE 0
        /\ resync_struct_depth' = IF plain /\ b = "lcb" THEN 1 ELSE 0
        /\ struct_nesting_level' = IF closes THEN struct_nesting_level - 1 ELSE struct_nesting_level
        /\ Emit(evs \o <<Error>> \o RowEnds(base) \o (IF closes THEN <<Mark("struct_end")>> ELSE <<>>))

\* bvn_recover_in_comment: the byte is dropped and the comment goes on.
CommentErrorOn ==
    IF ~flags.continue_on_error THEN Fail(<<>>)
    ELSE /\ Emit(<<CommentError>>)
         /\ ver_checked' = (ver_checked \/ next_state = "first_comment")
         /\ UNCHANGED <<next_state, last_state, token_type, in_array_element,
                        struct_nesting_level, arrays, value_type, skipping>>

-----------------------------------------------------------------------------
(* Handlers.  Each is one row of the action table, for one byte class; the *)
(* UTF-8 progress is Byte's.                                               *)
Unnested == UNCHANGED <<struct_nesting_level, arrays, value_type, skipping>>

\* A move of the lexer alone.
Moves(s) ==
    /\ next_state' = s
    /\ Quiet /\ Unnested
    /\ UNCHANGED <<last_state, token_type, in_array_element, ver_checked>>

\* A key, an annotation or a literal begins.
Begins(s, token) ==
    /\ next_state' = s /\ token_type' = token
    /\ Quiet /\ Unnested
    /\ UNCHANGED <<last_state, in_array_element, ver_checked>>

Reject(b) ==
    /\ b \notin Row(next_state) \ Unsure(next_state)
    /\ IF next_state \in CommentStates THEN CommentErrorOn ELSE ErrorOn(b, <<>>, array_items)

Blank(b) ==
    /\ b = "nl" /\ b \in Row(next_state)
    /\ next_state \notin CommentStates \cup ResyncStates
    /\ Moves(next_state)

ByteOrderMark(b) ==
    \/ next_state = "first_bom" /\ b = "lead" /\ Moves("utf8bom_intro")
    \/ next_state = "utf8bom_intro" /\ b = "cont" /\ Moves("first_bom")

CommentIntro(b) ==
    /\ b = "hash" /\ b \in Row(next_state)
    /\ next_state \notin CommentStates \cup ResyncStates \cup {"string"}
    /\ last_state' = next_state
    /\ next_state' = IF next_state = "first_bom" THEN "first_comment" ELSE "comment"
    /\ Quiet /\ Unnested
    /\ UNCHANGED <<token_type, in_array_element, ver_checked>>

CommentByte(b) ==
    /\ next_state \in CommentStates /\ b \in Row(next_state) \ {"nl"}
    /\ Moves(next_state)

CommentOutro(b) ==
    /\ b = "nl" /\ next_state = "comment"
    /\ next_state' = last_state /\ last_state' = "none"
    /\ Quiet /\ Unnested
    /\ UNCHANGED <<token_type, in_array_element, ver_checked>>

\* The first comment of a document may be its version directive: one that is
\* malformed is an error, under strict_version one that ends the read.
FirstCommentOutro(b) ==
    /\ b = "nl" /\ next_state = "first_comment"
    /\ \/ /\ next_state' = "first_bom" /\ ver_checked' = TRUE
          /\ last_state' = "none"
          /\ Quiet /\ Unnested
          /\ UNCHANGED <<token_type, in_array_element>>
       \/ /\ ~ver_checked
          /\ IF flags.strict_version THEN Fail(<<>>) ELSE ErrorOn(b, <<>>, array_items)

IdentifierIntro(b) ==
    b = "dot" /\ next_state \in KeyStates /\ Begins("identifier", "identifier")

\* Bytes that are copied into the token they stand in.
CopyByte(b) ==
    /\ CASE next_state = "identifier"  -> b \in {"id", "lead", "cont"}
         [] next_state = "type_body"   -> b \notin {"nl", "hash", "gt"}
         [] next_state = "scalar"      -> b \in {"id", "dot", "lead", "cont"}
         [] next_state = "inline_unit" -> b \notin {"nl", "hash", "semi"}
         [] next_state = "string"      -> b \notin {"quote", "bsl"}
         [] next_state \in {"reference_index", "esc_hex"} -> b \in {"id", "lcb"}
         [] OTHER -> FALSE
    /\ b \in Row(next_state)
    /\ Moves(next_state)

\* mutants: every key restarts the budget; the limit is tested one too late
BudgetAtKey_restarts == 0
BudgetSpent_late     == array_items > max_array_items

\* The budget of array items is one for everything under an outermost "[":
\* the key of a struct member must not restart it.
BudgetAtKey == IF array_nesting_level = 0 THEN 0 ELSE array_items
BudgetSpent == array_items = max_array_items

ValueIntro(b) ==
    /\ b = "eq" /\ next_state = "identifier"
    /\ Emit(<<Mark("assignment_start")>>)
    /\ value_type' = Plain
    /\ array_items' = BudgetAtKey
    /\ token_type' = "null" /\ in_array_element' = FALSE
    /\ next_state' = "value_intro"
    /\ UNCHANGED <<last_state, ver_checked, struct_nesting_level, array_nesting_level, arr_frames,
                   arr_used_max, curr_row_size, array_row_size, skipping>>

TypeIntro(b) ==
    /\ b = "lt" /\ next_state \in ElementStates \cup {"value_intro"}
    /\ Begins("type_body", "type")

TypeOutro(b) ==
    /\ b = "gt" /\ next_state = "type_body"
    /\ \E t \in ValueTypes : value_type' = t /\ Emit(<<Event("annotation", t)>>)
    /\ next_state' = "type_outro" /\ token_type' = "unknown"
    /\ UNCHANGED <<last_state, in_array_element, ver_checked, struct_nesting_level, arrays, skipping>>

ScalarIntro(b) ==
    b \in {"dot", "id", "lead"} /\ next_state \in ValueStates /\ Begins("scalar", "value")

StringIntro(b) ==
    b = "quote" /\ next_state \in ValueStates \cup {"string_outro"} /\ Begins("string", "value")

StringStep(b) ==
    \/ next_state = "string" /\ b = "quote" /\ Moves("string_outro")
    \/ next_state = "string" /\ b = "bsl" /\ Moves("escape")
    \/ next_state = "escape" /\ b \in Row("escape") /\ Moves("string")
    \/ next_state = "escape" /\ b = "id" /\ Moves("esc_hex")
    \/ next_state = "esc_hex" /\ b \in {"id", "rcb"} /\ Moves("string")

ReferenceIndex(b) ==
    \/ next_state = "scalar" /\ b = "lbr" /\ Moves("reference_index")
    \/ next_state = "reference_index" /\ b = "rbr" /\ Moves("scalar")

\* mutant: an element may have a unit
InlineUnitIntro_anywhere(b) ==
    b \in {"id", "lead"} /\ next_state \in {"scalar", "string_outro"} /\ Moves("inline_unit")

\* An element's unit comes from the array's annotation.
InlineUnitIntro(b) ==
    /\ b \in {"id", "lead"} /\ next_state \in {"scalar", "string_outro"}
    /\ ~in_array_element
    /\ Moves("inline_unit")

-----------------------------------------------------------------------------
(* The end of a value: ';', ',' and ']'.  Finalising a token tells its     *)
(* data; an annotation with nothing after it stands for null, told before  *)
(* the handler proper looks at where it is.                                *)
Ends(b) == next_state \in ValueStates \cup LiteralStates \cup OutroStates /\ b \in Row(next_state)

Data == Event("data", value_type)
Finalized    == IF next_state = "type_outro" \/ token_type \in {"null", "value"} THEN <<Data>> ELSE <<>>
NullIfTyped  == IF next_state = "type_outro" THEN <<Data>> ELSE <<>>

\* A literal that does not fit its type is found out when it is finalised.
FinalizeFails(b) == token_type = "value" /\ ErrorOn(b, <<>>, array_items)

\* mutant: an unterminated array is accepted
Unterminated_never == FALSE

\* ';' ends the whole value, so every array opened for it must be closed.
Unterminated == OwnsArray

ValueOutro(b) ==
    /\ b = "semi" /\ (Ends(b) \/ next_state = "inline_unit")
    /\ IF Unterminated THEN ErrorOn(b, NullIfTyped, array_items)
       ELSE \/ FinalizeFails(b)
            \/ LET outermost == struct_nesting_level = 0 IN
               /\ Emit(Finalized)
               /\ token_type' = "unknown" /\ value_type' = Plain
               /\ arr_frames' = Wiped(array_nesting_level)
               /\ arr_used_max' = array_nesting_level
               /\ in_array_element'    = (in_array_element /\ ~outermost)
               /\ array_nesting_level' = IF outermost THEN 0 ELSE array_nesting_level
               /\ curr_row_size'       = IF outermost THEN 0 ELSE curr_row_size
               /\ array_row_size'      = IF outermost THEN 0 ELSE array_row_size
               /\ next_state' = "value_outro"
               /\ UNCHANGED <<last_state, ver_checked, struct_nesting_level, array_items, skipping>>

NewArrayValue(b) ==
    /\ b = "comma" /\ Ends(b)
    /\ IF ~OwnsArray THEN ErrorOn(b, NullIfTyped, array_items)
       ELSE \/ FinalizeFails(b)
            \/ IF BudgetSpent THEN ErrorOn(b, Finalized, array_items)
               ELSE IF array_row_size # Unset /\ curr_row_size >= array_row_size
               THEN ErrorOn(b, Finalized, array_items + 1)
               ELSE /\ Emit(Finalized)
                    /\ array_items' = array_items + 1
                    /\ curr_row_size' = curr_row_size + 1
                    /\ arr_frames' = [arr_frames EXCEPT ![array_nesting_level].in_dim_seq = FALSE]
                    /\ value_type' = arr_frames[array_nesting_level - 1].saved_vtype
                    /\ in_array_element' = TRUE /\ token_type' = "null"
                    /\ next_state' = "new_array_value"
                    /\ UNCHANGED <<last_state, ver_checked, struct_nesting_level, array_nesting_level,
                                   arr_used_max, array_row_size, skipping>>

\* The array frame below takes the row's width, for the rows a "/" adds.
PopFrame(width) ==
    LET f == arr_frames[array_nesting_level - 1] IN
    /\ array_nesting_level' = array_nesting_level - 1
    /\ arr_frames' = [arr_frames EXCEPT ![array_nesting_level - 1].dim_row_size = width]
    /\ curr_row_size' = f.saved_curr
    /\ array_row_size' = f.saved_row
    /\ value_type' = f.saved_vtype
    /\ UNCHANGED <<arr_used_max, array_items>>

\* Straight after its "[" a row is empty: nothing is finalised.
ArrayOutro(b) ==
    LET empty == next_state = "array_intro"
        width == IF empty THEN 0 ELSE curr_row_size
        last  == IF empty THEN <<>> ELSE Finalized
    IN
    /\ b = "rbr" /\ Ends(b)
    /\ IF ~OwnsArray THEN ErrorOn(b, NullIfTyped, array_items)
       ELSE \/ ~empty /\ FinalizeFails(b)
            \/ IF array_row_size \notin {Unset, width} THEN ErrorOn(b, last, array_items)
               ELSE /\ Emit(Append(last, Mark("row_end")))
                    /\ PopFrame(width)
                    /\ token_type' = "unknown"
                    /\ next_state' = "array_outro"
                    /\ UNCHANGED <<last_state, in_array_element, ver_checked, struct_nesting_level, skipping>>

-----------------------------------------------------------------------------
(* Containers and octet streams.                                           *)

\* A row opened after "/" must have the width of the row before it.
ArrayIntro(b) ==
    LET f == arr_frames[array_nesting_level] IN
    /\ b = "lbr" /\ next_state \in ValueStates \cup {"array_dim_sep"}
    /\ IF BudgetSpent \/ array_nesting_level = max_array_nesting
       THEN ErrorOn(b, <<>>, array_items)
       ELSE /\ Emit(<<Event("row_start", value_type)>>)
            /\ array_items' = array_items + 1
            /\ curr_row_size' = 1
            /\ array_row_size' = IF f.in_dim_seq THEN f.dim_row_size ELSE Unset
            /\ arr_frames' =
                 [arr_frames EXCEPT
                    ![array_nesting_level] = [@ EXCEPT !.saved_curr = curr_row_size,
                                                       !.saved_row = array_row_size,
                                                       !.saved_vtype = value_type],
                    ![array_nesting_level + 1] = [@ EXCEPT !.in_dim_seq = FALSE,
                                                           !.dim_row_size = 0,
                                                           !.open_struct_level = struct_nesting_level]]
            /\ array_nesting_level' = array_nesting_level + 1
            /\ arr_used_max' = IF array_nesting_level + 1 > arr_used_max
                               THEN array_nesting_level + 1 ELSE arr_used_max
            /\ token_type' = "null" /\ in_array_element' = TRUE
            /\ next_state' = "array_intro"
            /\ UNCHANGED <<last_state, ver_checked, struct_nesting_level, value_type, skipping>>

ArrayDimSep(b) ==
    /\ b = "slash" /\ next_state = "array_outro"
    /\ Emit(<<Mark("dim_start")>>)
    /\ arr_frames' = [arr_frames EXCEPT ![array_nesting_level].in_dim_seq = TRUE]
    /\ next_state' = "array_dim_sep"
    /\ UNCHANGED <<last_state, token_type, in_array_element, ver_checked, struct_nesting_level,
                   array_nesting_level, arr_used_max, curr_row_size, array_row_size, array_items,
                   value_type, skipping>>

\* A struct takes no annotation, its own or its array's.
StructIntro(b) ==
    /\ b = "lcb" /\ next_state \in ValueStates
    /\ IF struct_nesting_level = max_struct_nesting \/ value_type # Plain
       THEN ErrorOn(b, <<>>, array_items)
       ELSE /\ Emit(<<Mark("struct_start")>>)
            /\ struct_nesting_level' = struct_nesting_level + 1
            /\ token_type' = "structure"
            /\ next_state' = "struct_intro"
            /\ UNCHANGED <<last_state, in_array_element, ver_checked, arrays, value_type, skipping>>

StructOutro(b) ==
    /\ b = "rcb" /\ next_state \in KeyStates
    /\ IF struct_nesting_level = 0 THEN ErrorOn(b, <<>>, array_items)
       ELSE /\ Emit(<<Mark("struct_end")>>)
            /\ struct_nesting_level' = struct_nesting_level - 1
            /\ next_state' = "struct_outro"
            /\ UNCHANGED <<last_state, token_type, in_array_element, ver_checked, arrays, value_type, skipping>>

\* text_only refuses the document, not the value: it is not recovered from.
OctetStreamIntro(b) ==
    /\ b = "nul" /\ next_state \in ValueStates
    /\ IF flags.text_only THEN Fail(<<>>)
       ELSE /\ Emit(<<Mark("octets_start")>>)
            /\ token_type' = "octet_stream"
            /\ next_state' = "octet_stream_intro"
            /\ Unnested
            /\ UNCHANGED <<last_state, in_array_element, ver_checked>>

\* bvn_read_octet_stream, one tag at a time.
OctetChunk ==
    /\ status = "running" /\ next_state = "octet_stream_intro"
    /\ Emit(<<Mark("octets")>>)
    /\ Unnested
    /\ UNCHANGED <<flags, lexing, utf8_need, again>>

OctetStreamEnd ==
    /\ status = "running" /\ next_state = "octet_stream_intro"
    /\ Emit(<<Mark("octets_end")>>)
    /\ token_type' = "unknown"
    /\ next_state' = "octet_stream_outro"
    /\ Unnested
    /\ UNCHANGED <<flags, last_state, in_array_element, ver_checked, utf8_need, again>>

-----------------------------------------------------------------------------
(* Skipping, after an error, to the next place an assignment may begin.    *)
AtResyncTop == resync_array_depth = 0 /\ resync_struct_depth = 0

ResyncSkips(b) ==
    /\ CASE next_state \in {"resync", "resync_dot"} ->
              \/ b \notin {"quote", "hash", "dot", "semi", "lbr", "lcb", "rbr", "rcb"} /\ Moves("resync")
              \/ b \in {"dot", "semi"} /\ ~AtResyncTop /\ Moves("resync")
              \/ b = "dot" /\ AtResyncTop /\ Moves("resync_dot")
              \/ b = "quote" /\ Moves("resync_string")
              \/ b = "hash" /\ Moves("resync_comment")
         [] next_state = "resync_string" ->
              Moves(IF b = "quote" THEN "resync" ELSE IF b = "bsl" THEN "resync_string_escape" ELSE "resync_string")
         [] next_state = "resync_string_escape" -> Moves("resync_string")
         [] next_state = "resync_comment" -> Moves(IF b = "nl" THEN "resync" ELSE "resync_comment")
         [] OTHER -> FALSE

ResyncOpenBracket(b) ==
    /\ next_state \in {"resync", "resync_dot"} /\ b \in {"lbr", "lcb"}
    /\ IF b = "lbr" THEN resync_array_depth < MaxSkippedBrackets
                    ELSE resync_struct_depth < MaxSkippedBrackets
    /\ resync_array_depth'  = resync_array_depth + (IF b = "lbr" THEN 1 ELSE 0)
    /\ resync_struct_depth' = resync_struct_depth + (IF b = "lcb" THEN 1 ELSE 0)
    /\ next_state' = "resync"
    /\ Quiet
    /\ UNCHANGED <<last_state, token_type, in_array_element, ver_checked, struct_nesting_level, arrays,
                   value_type, resync_saved_struct_nesting>>

\* A closing bracket that balances nothing skipped closes an array or a
\* struct that was open before the error; one that closes neither is skipped.
ResyncCloseArray(b) ==
    /\ next_state \in {"resync", "resync_dot"} /\ b = "rbr"
    /\ next_state' = "resync"
    /\ resync_array_depth' = IF resync_array_depth > 0 THEN resync_array_depth - 1 ELSE 0
    /\ IF resync_array_depth = 0 /\ OwnsArray
       THEN /\ Emit(<<Mark("row_end")>>)
            /\ PopFrame(curr_row_size)
            /\ in_array_element' = (array_nesting_level > 1)
       ELSE Quiet /\ UNCHANGED <<arrays, value_type, in_array_element>>
    /\ UNCHANGED <<last_state, token_type, ver_checked, struct_nesting_level,
                   resync_struct_depth, resync_saved_struct_nesting>>

ResyncCloseStruct(b) ==
    /\ next_state \in {"resync", "resync_dot"} /\ b = "rcb"
    /\ next_state' = "resync"
    /\ resync_struct_depth' = IF resync_struct_depth > 0 THEN resync_struct_depth - 1 ELSE 0
    /\ IF resync_struct_depth = 0 /\ struct_nesting_level > 0
       THEN \E base \in 0..array_nesting_level :
              /\ OwnBase(base, struct_nesting_level)
              /\ CloseArraysTo(base, array_items)
              /\ value_type' = IF base < array_nesting_level THEN arr_frames[base].saved_vtype ELSE value_type
              /\ struct_nesting_level' = struct_nesting_level - 1
              /\ in_array_element' = FALSE
              /\ Emit(Append(RowEnds(base), Mark("struct_end")))
       ELSE Quiet /\ UNCHANGED <<struct_nesting_level, arrays, value_type, in_array_element>>
    /\ UNCHANGED <<last_state, token_type, ver_checked, resync_array_depth, resync_saved_struct_nesting>>

\* bvn_resync_reset: reading resumes at an assignment of this struct level,
\* at its ';' or at the '.' and first byte of the next key.
Resume(s, token) ==
    LET depth == IF struct_nesting_level < resync_saved_struct_nesting
                 THEN struct_nesting_level ELSE resync_saved_struct_nesting
    IN
    \E base \in 0..array_nesting_level :
        /\ OwnBase(base, depth)
        /\ CloseArraysTo(base, array_items)
        /\ struct_nesting_level' = depth
        /\ resync_saved_struct_nesting' = depth
        /\ resync_array_depth' = 0 /\ resync_struct_depth' = 0
        /\ value_type' = Plain
        /\ in_array_element' = FALSE
        /\ Emit(Marks("struct_end", struct_nesting_level - depth) \o RowEnds(base))
        /\ next_state' = s /\ token_type' = token
        /\ UNCHANGED <<last_state, ver_checked>>

ResyncSemicolon(b) ==
    /\ next_state \in {"resync", "resync_dot"} /\ b = "semi" /\ AtResyncTop
    /\ Resume("value_outro", "unknown")

ResyncResumeIdentifier(b) ==
    /\ next_state = "resync_dot" /\ b \in {"id", "lead"}
    /\ Resume("identifier", "identifier")

-----------------------------------------------------------------------------
(* One byte.  A byte that is not UTF-8 never reaches a handler; one that   *)
(* cuts a character short is reported and then read again as itself.       *)
Dispatch(b) ==
    \/ Reject(b) \/ Blank(b) \/ ByteOrderMark(b)
    \/ CommentIntro(b) \/ CommentByte(b) \/ CommentOutro(b) \/ FirstCommentOutro(b)
    \/ IdentifierIntro(b) \/ CopyByte(b) \/ ValueIntro(b) \/ TypeIntro(b) \/ TypeOutro(b)
    \/ ScalarIntro(b) \/ StringIntro(b) \/ StringStep(b) \/ ReferenceIndex(b) \/ InlineUnitIntro(b)
    \/ ValueOutro(b) \/ NewArrayValue(b) \/ ArrayOutro(b)
    \/ ArrayIntro(b) \/ ArrayDimSep(b) \/ StructIntro(b) \/ StructOutro(b) \/ OctetStreamIntro(b)
    \/ ResyncSkips(b) \/ ResyncOpenBracket(b) \/ ResyncCloseArray(b) \/ ResyncCloseStruct(b)
    \/ ResyncSemicolon(b) \/ ResyncResumeIdentifier(b)

IsMalformed(b) == IF utf8_need = 0 THEN b = "cont" ELSE b # "cont"
Cuts           == utf8_need = 1

\* Inside a skipped region it is skipped like any other byte.
SkipMalformed(b) ==
    /\ next_state \in ResyncStates
    /\ Moves(IF next_state = "resync_dot" THEN "resync" ELSE next_state)
    /\ again' = IF Cuts THEN b ELSE "none"

MalformedComment(b) ==
    /\ next_state \in CommentStates
    /\ IF ~flags.continue_on_error THEN Fail(<<>>) /\ UNCHANGED again
       ELSE LET ends_line == Cuts /\ b = "nl" IN
            /\ Emit(<<CommentError>>)
            /\ ver_checked' = (ver_checked \/ next_state = "first_comment")
            /\ next_state' = IF ~ends_line THEN next_state
                             ELSE IF next_state = "comment" THEN last_state ELSE "first_bom"
            /\ last_state' = IF ends_line THEN "none" ELSE last_state
            /\ again' = IF Cuts /\ ~ends_line THEN b ELSE "none"
            /\ Unnested /\ UNCHANGED <<token_type, in_array_element>>

\* A quote or '#' that ends the character has already opened the skip.
MalformedText(b) ==
    /\ next_state \notin ResyncStates \cup CommentStates
    /\ IF ~flags.continue_on_error THEN Fail(<<>>) /\ UNCHANGED again
       ELSE \E base \in 0..array_nesting_level :
            /\ EnterResync(base, array_items)
            /\ next_state' = ResyncTarget(b)
            /\ resync_array_depth' = 0 /\ resync_struct_depth' = 0
            /\ Emit(<<Error>> \o RowEnds(base))
            /\ again' = IF Cuts /\ b # "nl" /\ (b \in {"quote", "hash"} => next_state \in StringStates)
                        THEN b ELSE "none"
            /\ UNCHANGED struct_nesting_level

\* mutant: entering recovery forgets the character under way
Fed_forgets(b) == IF b = "lead" /\ next_state' \notin ResyncStates THEN 1 ELSE 0

\* Resuming at a key resets the UTF-8 progress, its first byte included.
Fed(b) == IF b = "lead" /\ ~(next_state = "resync_dot" /\ next_state' = "identifier") THEN 1 ELSE 0

Byte(b) ==
    /\ status = "running" /\ next_state # "octet_stream_intro"
    /\ again \in {"none", b}
    /\ IF IsMalformed(b)
       THEN /\ SkipMalformed(b) \/ MalformedComment(b) \/ MalformedText(b)
            /\ utf8_need' = 0
       ELSE /\ Dispatch(b)
            /\ utf8_need' = Fed(b)
            /\ again' = "none"
    /\ UNCHANGED flags

-----------------------------------------------------------------------------
(* The run around the bytes.                                               *)
Init ==
    /\ flags \in Flags
    /\ status = "opened"
    /\ next_state = "first_bom" /\ last_state = "none"
    /\ token_type = "unknown" /\ in_array_element = FALSE /\ ver_checked = FALSE
    /\ struct_nesting_level = 0
    /\ array_nesting_level = 0
    /\ arr_frames = [i \in Levels |-> ZeroFrame]
    /\ arr_used_max = 0 /\ curr_row_size = 0 /\ array_row_size = 0 /\ array_items = 0
    /\ value_type = Plain
    /\ utf8_need = 0 /\ again = "none"
    /\ resync_array_depth = 0 /\ resync_struct_depth = 0 /\ resync_saved_struct_nesting = 0
    /\ sent = <<>>

BeginRead ==
    /\ status = "opened"
    /\ Emit(<<Mark("stream_start")>>)
    /\ Unnested /\ UNCHANGED <<flags, lexing, utf8_need, again>>

\* mutant: the structs still open are not looked at
Acceptable_anywhere ==
    \/ next_state \in {"first_bom", "first_comment", "value_outro"}
    \/ next_state = "comment" /\ last_state = "value_outro"

\* The input may end at top level between two assignments, or in a comment
\* there.  A comment cut inside a character, and a first comment that is a
\* malformed directive, are errors of their own.
Acceptable ==
    /\ \/ next_state \in {"first_bom", "first_comment", "value_outro"}
       \/ next_state = "comment" /\ last_state = "value_outro"
    /\ struct_nesting_level = 0

EndOfInput ==
    /\ status = "running" /\ next_state # "octet_stream_intro" /\ again = "none"
    /\ IF ~Acceptable THEN Fail(<<>>)
       ELSE \E bad_version \in 0..(IF next_state = "first_comment" /\ ~ver_checked THEN 1 ELSE 0) :
            LET errors == Marks("comment_error", utf8_need + bad_version) IN
            IF errors # <<>> /\ (~flags.continue_on_error \/ (bad_version = 1 /\ flags.strict_version))
            THEN Fail(<<>>)
            ELSE /\ sent' = Append(errors, Mark("stream_end"))
                 /\ status' \in {"accepted", "failed"}
                 /\ Unnested /\ UNCHANGED lexing
    /\ UNCHANGED <<flags, utf8_need, again>>

\* A limit on the document's size, a source that fails, an octet stream out
\* of sync or cut short: none is recovered from.
InputFails ==
    /\ status = "running" /\ again = "none"
    /\ Fail(<<>>)
    /\ UNCHANGED <<flags, utf8_need, again>>

Next ==
    \/ BeginRead
    \/ \E b \in Bytes : Byte(b)
    \/ OctetChunk \/ OctetStreamEnd
    \/ EndOfInput \/ InputFails

Spec == Init /\ [][Next]_vars

-----------------------------------------------------------------------------
(* Properties.                                                             *)

LexTypeOK ==
    /\ status \in {"opened", "running", "accepted", "failed"}
    /\ next_state \in States
    /\ last_state \in (States \ (CommentStates \cup ResyncStates)) \cup {"none"}
    /\ next_state = "comment" => last_state # "none"
    /\ token_type \in {"unknown", "null", "identifier", "type", "value", "structure", "octet_stream"}
    /\ in_array_element \in BOOLEAN /\ ver_checked \in BOOLEAN

NestingTypeOK ==
    /\ struct_nesting_level \in 0..max_struct_nesting
    /\ array_nesting_level \in Levels
    /\ arr_frames \in [Levels -> Frame]
    /\ arr_used_max \in Levels
    /\ curr_row_size \in Nat /\ array_row_size \in Nat \cup {Unset}
    /\ array_items \in 0..max_array_items
    /\ value_type \in Types
    /\ resync_array_depth \in 0..MaxSkippedBrackets
    /\ resync_struct_depth \in 0..MaxSkippedBrackets
    /\ resync_saved_struct_nesting \in 0..max_struct_nesting

\* Every variable of the reader keeps the shape the C types give it, and the
\* limits hold: no level and no budget goes past what the caller allowed.
TypeOK ==
    /\ flags \in Flags
    /\ LexTypeOK
    /\ NestingTypeOK
    /\ utf8_need \in {0, 1} /\ again \in Bytes \cup {"none"}

OpenLevel(i) == arr_frames[i].open_struct_level

\* Arrays nest in the structs they were opened in: an inner array was opened
\* no further out than the one around it, and no array outlives the struct
\* that holds it.  The ']', ',' and ';' tests and recovery all rest on it.
FramesOrdered ==
    /\ \A i \in 1..array_nesting_level : OpenLevel(i) <= struct_nesting_level
    /\ \A i, j \in 1..array_nesting_level : i <= j => OpenLevel(i) <= OpenLevel(j)
    /\ array_nesting_level <= arr_used_max

InnermostIsArray == array_nesting_level > 0 /\ OpenLevel(array_nesting_level) = struct_nesting_level

Place == IF next_state \in CommentStates THEN (IF next_state = "comment" THEN last_state ELSE "first_bom")
         ELSE next_state

BoundaryPlaces == KeyStates \cup {"utf8bom_intro", "identifier"}
TextPlaces == ValueStates \cup LiteralStates \cup StringStates
              \cup {"type_body", "reference_index", "inline_unit"}

\* Where a key or a '}' may come, the innermost thing open is never an array:
\* '}' makes no such test of its own (bvn_action_struct_outro), so this is
\* what keeps a struct from closing under an array.
BoundaryOutsideArrays ==
    Place \in BoundaryPlaces => ~InnermostIsArray

\* Conversely a row, or the "/" between two, is only ever under way in an
\* array of this struct level.
RowsInsideArrays ==
    Place \in ElementStates => InnermostIsArray

\* A document is accepted only when everything it opened is closed.
AcceptedIsClosed ==
    status = "accepted" => struct_nesting_level = 0 /\ array_nesting_level = 0

\* An inline unit is never taken for an array element: the flag that refuses
\* it agrees with the frames wherever an element or a part of one is read, so
\* through every error, recovery, comment and struct closed in between.
InlineUnitsOutsideArrays ==
    Place \in TextPlaces =>
        /\ InnermostIsArray <=> in_array_element
        /\ Place = "inline_unit" => ~InnermostIsArray

\* Recovery never has to resume further in than it is: what is still open is
\* what was open at the error, or less.
ResumesOutward ==
    next_state \in ResyncStates => struct_nesting_level <= resync_saved_struct_nesting

\* The inductive invariant, without the variables only Byte writes, and whole.
Nested ==
    /\ LexTypeOK
    /\ NestingTypeOK
    /\ FramesOrdered
    /\ BoundaryOutsideArrays
    /\ RowsInsideArrays
    /\ InlineUnitsOutsideArrays
    /\ ResumesOutward
    /\ AcceptedIsClosed

IInv == TypeOK /\ Nested
=============================================================================

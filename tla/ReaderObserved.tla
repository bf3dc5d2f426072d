--------------------------- MODULE ReaderObserved ---------------------------
(***************************************************************************)
(* The reader with two observers beside it that do not restrict it: a      *)
(* plain scan of the same bytes, and the consumer's count of elements.     *)
(***************************************************************************)
EXTENDS ReaderRefinement, FiniteSets

-----------------------------------------------------------------------------
(* Whether a byte of the text is code, string or comment is a matter of    *)
(* quotes, backslashes, "#" and line ends alone; recovery is only as good  *)
(* as its agreement with that: one quote taken for the wrong end of a      *)
(* string and the skip runs over the rest of the document.                 *)

VARIABLES
    scan,      \* where the next byte stands: code, string, escape or comment
    within,    \* 1 inside a multi-byte character of the document
    astray     \* which of the two known deviations has happened, or "no"

lexVars == <<vars, scan, within, astray>>

\* Where the byte after b stands.
ScannedFrom(where, b) ==
    CASE where = "code"    -> IF b = "quote" THEN "string" ELSE IF b = "hash" THEN "comment" ELSE "code"
      [] where = "string"  -> IF b = "quote" THEN "code" ELSE IF b = "bsl" THEN "escape" ELSE "string"
      [] where = "escape"  -> "string"
      [] where = "comment" -> IF b = "nl" THEN "code" ELSE "comment"

Scanned(b) == ScannedFrom(scan, b)

\* A backslash that cuts a \x or \u escape short; a byte that is not UTF-8
\* right after a backslash in a skipped string.
Deviation(b) ==
    IF next_state = "esc_hex" /\ b = "bsl" THEN "escape_cut_short"
    ELSE IF next_state = "resync_string_escape" /\ utf8_need = 0 /\ b = "cont" THEN "escaped_stray"
    ELSE "no"

\* A byte that is read again has been scanned already.
LexByte(b) ==
    /\ Byte(b)
    /\ IF again = "none"
       THEN /\ scan' = Scanned(b)
            /\ within' = IF b = "lead" THEN 1 ELSE 0
            /\ astray' = IF astray = "no" THEN Deviation(b) ELSE astray
       ELSE UNCHANGED <<scan, within, astray>>

LexInit == Init /\ scan = "code" /\ within = 0 /\ astray = "no"

LexNext ==
    \/ \E b \in Bytes : LexByte(b)
    \/ /\ BeginRead \/ OctetChunk \/ OctetStreamEnd \/ EndOfInput \/ InputFails
       /\ UNCHANGED <<scan, within, astray>>

LexSpec == LexInit /\ [][LexNext]_lexVars

-----------------------------------------------------------------------------
\* What a row of the state table takes the next byte for.
ContextIn(row) ==
    CASE row \in {"string", "esc_hex", "resync_string"}          -> "string"
      [] row \in {"escape", "resync_string_escape"}              -> "escape"
      [] row \in {"comment", "first_comment", "resync_comment"}  -> "comment"
      [] OTHER                                                   -> "code"

Context == ContextIn(next_state)

Reading == status = "running" /\ again = "none"

\* Through any errors and recoveries the reader knows whether it stands in a
\* string, an escape, a comment or code, unless one of the two deviations
\* has happened.
LexicalAgreement == Reading /\ astray = "no" => Context = scan

\* bovnar_lexer.c's account of entering recovery inside a string: the broken
\* string's closing quote is still ahead and is consumed as the close.
EscapeCutShortSkipsString == Reading /\ astray \in {"no", "escape_cut_short"} => Context = scan

\* The reader is inside a character exactly when the document is, but for
\* the first character of a key that recovery resumes at.
CharactersTracked ==
    Reading => utf8_need = within \/ (next_state = "identifier" /\ utf8_need = 0)

\* What keeps the two: a byte to be read again is in neither yet, and a
\* character is never under way where one would be lost.
LexInv ==
    status \in {"opened", "running"} =>
        /\ last_state \notin StringStates
        /\ utf8_need = 1 => next_state \notin {"escape", "esc_hex"}
        /\ again # "none" => utf8_need = 0 /\ again # "cont" /\ next_state \in CommentStates \cup ResyncStates
        /\ again = "none" => utf8_need = within \/ (next_state = "identifier" /\ utf8_need = 0)
        /\ again # "none" => within = (IF again = "lead" THEN 1 ELSE 0)
        /\ astray = "no" => scan = IF again = "none" THEN Context ELSE ScannedFrom(Context, again)

\* doc/03 13.2: recovery ends at a "." followed by a byte that can begin an
\* identifier -- the first byte of a multi-byte letter is one.
ResumesWithinCharacter == Reading => utf8_need = within

-----------------------------------------------------------------------------
(* The item budget, seen by the consumer: what array_items is there to     *)
(* bound is the number of elements it can be told under one outermost "[", *)
(* however they are nested in rows and in structs.                         *)
VARIABLE told     \* array elements told since the outermost "[" was

budgetVars == <<vars, told>>

\* An element is a value that stands directly in an array; a row after "/"
\* is part of an element already told.
ElementEvents == {"data", "struct_start", "row_start", "octets_start"}
ElementsTold ==
    IF status = "running" /\ Innermost # "struct" /\ next_state # "array_dim_sep"
    THEN Cardinality({i \in DOMAIN sent' : sent'[i].ev \in ElementEvents}) ELSE 0

BudgetInit == Init /\ told = 0
Tells      == told' = IF array_nesting_level' = 0 THEN 0 ELSE told + ElementsTold
BudgetNext == Next /\ Tells
BudgetSpec == BudgetInit /\ [][BudgetNext]_budgetVars

\* Never is an element told past max_array_items, through nested rows, "/"
\* dimensions, structs with arrays of their own, and recovery inside them.
ElementsWithinBudget == [][told + ElementsTold <= max_array_items]_budgetVars

\* An element that has been charged to the budget and not been told yet.
Owed == IF status # "failed" /\ InnermostIsArray /\ Place \in TextPlaces THEN 1 ELSE 0

\* What is told stays behind what is charged; where an element is over its
\* token is as well, so that it is not told twice.
BudgetInv ==
    /\ told \in Nat
    /\ told + Owed <= array_items
    /\ array_nesting_level = 0 => told = 0
    /\ Place \in KeyStates \cup OutroStates \cup ResyncStates \cup {"utf8bom_intro", "array_dim_sep"}
         => token_type \notin {"null", "value"}

-----------------------------------------------------------------------------
\* Both beside one and the same reader.
ObservedInit == LexInit /\ BudgetInit
ObservedNext == LexNext /\ Tells
ObservedSpec == ObservedInit /\ [][ObservedNext]_<<lexVars, told>>

\* The flags under which an error is not the end of the read, and the observers
\* have something to watch.
Recovering == {[continue_on_error |-> TRUE, text_only |-> FALSE, strict_version |-> FALSE]}
=============================================================================

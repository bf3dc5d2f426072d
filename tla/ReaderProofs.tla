---------------------------- MODULE ReaderProofs ----------------------------
(***************************************************************************)
(* Proofs about the reader, for every nesting limit, item budget, set of   *)
(* types and flags: type correctness; that arrays and structs nest through *)
(* every error and every recovery; and what its observers are promised:    *)
(* the plain scan of the bytes and the reader agree, and the consumer is   *)
(* never told more elements than the budget allows.                        *)
(***************************************************************************)
EXTENDS ReaderObserved, FiniteSetTheorems, SequenceTheorems, TLAPS

-----------------------------------------------------------------------------
(* Facts about the helpers every handler is made of.                       *)

LEMMA EmitStatus ==
    ASSUME NEW evs, Emit(evs)
    PROVE  status' \in {"running", "failed"}
BY DEF Emit

\* "none" is what last_state is outside a comment, and no row of the table.
LEMMA NoneIsNoState == "none" \notin States
BY DEF States, StringStates, CommentStates, ResyncStates, KeyStates, ValueStates, ElementStates,
       LiteralStates, OutroStates, BodyStates

LEMMA QuietStatus == Quiet => status' = "running"
BY DEF Quiet

\* Wiping frames keeps them frames, and keeps what the arrays that stay open
\* remember.
LEMMA WipedFrames ==
    ASSUME NestingTypeOK, NEW base \in Levels
    PROVE  /\ Wiped(base) \in [Levels -> Frame]
           /\ \A i \in Levels : i <= base => Wiped(base)[i].open_struct_level = OpenLevel(i)
<1> DEFINE F(i) == IF base <= i /\ i < arr_used_max
                   THEN BlankFrame(IF i = base THEN arr_frames[i].open_struct_level ELSE 0)
                   ELSE arr_frames[i]
<1>0. \A n \in Nat : BlankFrame(n) \in Frame /\ BlankFrame(n).open_struct_level = n
  BY DEF Frame, BlankFrame, Types
<1>1. ASSUME NEW i \in Levels PROVE F(i) \in Frame /\ OpenLevel(i) \in Nat
  BY <1>0, <1>1 DEF NestingTypeOK, Frame, OpenLevel
<1>2. ASSUME NEW i \in Levels, i <= base PROVE F(i).open_struct_level = OpenLevel(i)
  BY <1>0, <1>1, <1>2, LimitsAssumption DEF NestingTypeOK, OpenLevel, Levels
<1>3. Wiped(base) = [i \in Levels |-> F(i)]
  BY DEF Wiped
<1> HIDE DEF F
<1> QED BY <1>1, <1>2, <1>3

\* What the nesting part of the invariant says is about the frames alone.
LEMMA SameNesting ==
    ASSUME Nested, Unnested
    PROVE  NestingTypeOK' /\ FramesOrdered' /\ (InnermostIsArray' <=> InnermostIsArray)
<1>1. NestingTypeOK'
  BY DEF Nested, Unnested, NestingTypeOK, arrays, skipping
<1>2. \A i : OpenLevel(i)' = OpenLevel(i)
  BY DEF Unnested, arrays, OpenLevel
<1>3. FramesOrdered'
  BY <1>2 DEF Nested, Unnested, FramesOrdered, arrays
<1>4. InnermostIsArray' <=> InnermostIsArray
  BY <1>2 DEF Unnested, InnermostIsArray, arrays, OpenLevel
<1> QED BY <1>1, <1>3, <1>4

\* A move of the lexer alone preserves the invariant when it comes to no
\* boundary, row or literal from outside one.
LEMMA LexicalStep ==
    ASSUME Nested, Unnested, LexTypeOK', status' # "accepted",
           in_array_element' = in_array_element,
           Place' \in BoundaryPlaces => Place \in BoundaryPlaces,
           Place' \in ElementStates => Place \in ElementStates,
           Place' \in TextPlaces => Place \in TextPlaces,
           Place' = "inline_unit" => Place = "inline_unit" \/ ~in_array_element,
           next_state' \in ResyncStates => next_state \in ResyncStates
    PROVE  Nested'
<1>1. NestingTypeOK' /\ FramesOrdered' /\ (InnermostIsArray' <=> InnermostIsArray)
  BY SameNesting
<1>2. BoundaryOutsideArrays' /\ RowsInsideArrays'
  BY <1>1 DEF Nested, BoundaryOutsideArrays, RowsInsideArrays
<1>3. InlineUnitsOutsideArrays'
  BY <1>1 DEF Nested, InlineUnitsOutsideArrays, TextPlaces
<1>4. ResumesOutward'
  BY DEF Nested, ResumesOutward, Unnested, skipping
<1>5. AcceptedIsClosed'
  BY DEF AcceptedIsClosed
<1> QED BY <1>1, <1>2, <1>3, <1>4, <1>5 DEF Nested

\* Moves and Begins in the terms of LexicalStep.
LEMMA MoveStep ==
    ASSUME Nested, NEW s \in States, Moves(s), next_state \notin CommentStates,
           s # "comment",
           s \in BoundaryPlaces => next_state \in BoundaryPlaces,
           s \in ElementStates => next_state \in ElementStates,
           s \in TextPlaces => next_state \in TextPlaces,
           s = "inline_unit" => next_state = "inline_unit" \/ ~in_array_element,
           s \in ResyncStates => next_state \in ResyncStates,
           s # "first_comment"
    PROVE  Nested'
<1>1. next_state' = s /\ Unnested /\ status' = "running"
  BY DEF Moves, Quiet
<1>2. LexTypeOK'
  BY <1>1 DEF Nested, LexTypeOK, Moves
<1>3. Place = next_state /\ Place' = s
  BY <1>1 DEF Place, CommentStates
<1> QED BY <1>1, <1>2, <1>3, LexicalStep DEF Moves

LEMMA BeginStep ==
    ASSUME Nested, Begins("scalar", "value") \/ Begins("string", "value") \/ Begins("type_body", "type")
                   \/ Begins("identifier", "identifier"),
           next_state \notin CommentStates,
           next_state' = "identifier" => next_state \in BoundaryPlaces,
           next_state' # "identifier" => next_state \in TextPlaces
    PROVE  Nested'
<1>1. Unnested /\ status' = "running" /\ in_array_element' = in_array_element
  BY DEF Begins, Quiet
<1>2. next_state' \in {"scalar", "string", "type_body", "identifier"}
  BY DEF Begins
<1>3. LexTypeOK'
  BY <1>1, <1>2 DEF Nested, LexTypeOK, Begins, States, StringStates, BodyStates, LiteralStates
<1>4. Place = next_state /\ Place' = next_state'
  BY <1>2 DEF Place, CommentStates
<1>5. next_state' \notin ElementStates \cup ResyncStates \cup KeyStates
  BY <1>2 DEF ElementStates, ResyncStates, KeyStates
<1>6. next_state' \in TextPlaces <=> next_state' # "identifier"
  BY <1>2 DEF TextPlaces, ValueStates, ElementStates, LiteralStates, StringStates
<1> QED BY <1>1, <1>2, <1>3, <1>4, <1>5, <1>6, LexicalStep DEF BoundaryPlaces

-----------------------------------------------------------------------------
(* The handlers that only read text.                                       *)

LEMMA BlankStep ==
    ASSUME Nested, NEW b \in Bytes, Blank(b)
    PROVE  Nested'
<1>1. next_state \in States /\ next_state \notin CommentStates \cup ResyncStates /\ Moves(next_state)
  BY DEF Blank, Nested, LexTypeOK
<1> QED BY <1>1, MoveStep DEF CommentStates

LEMMA ByteOrderMarkStep ==
    ASSUME Nested, NEW b \in Bytes, ByteOrderMark(b)
    PROVE  Nested'
BY MoveStep DEF ByteOrderMark, States, CommentStates, KeyStates, BodyStates, BoundaryPlaces, ElementStates,
                TextPlaces, ValueStates, LiteralStates, StringStates, ResyncStates

\* A comment stands where the row it returns to stands.
LEMMA CommentStep ==
    ASSUME Nested, NEW b \in Bytes,
           CommentIntro(b) \/ CommentByte(b) \/ CommentOutro(b)
    PROVE  Nested'
<1>1. CASE CommentIntro(b)
  <2>1. Unnested /\ status' = "running" /\ in_array_element' = in_array_element
    BY <1>1 DEF CommentIntro, Quiet
  <2>2. LexTypeOK'
    BY <1>1, NoneIsNoState DEF CommentIntro, Quiet, LexTypeOK, Nested, States, CommentStates
  <2>3. Place' = Place /\ next_state' \notin ResyncStates
    BY <1>1 DEF CommentIntro, Place, CommentStates, ResyncStates, KeyStates
  <2> QED BY <2>1, <2>2, <2>3, LexicalStep DEF BoundaryPlaces, TextPlaces, Nested, InlineUnitsOutsideArrays
<1>2. CASE CommentByte(b)
  <2>1. Unnested /\ status' = "running" /\ UNCHANGED <<next_state, last_state, token_type, in_array_element, ver_checked>>
    BY <1>2 DEF CommentByte, Moves, Quiet
  <2>2. LexTypeOK' /\ Place' = Place
    BY <2>1 DEF LexTypeOK, Nested, Place
  <2> QED BY <2>1, <2>2, LexicalStep
<1>3. CASE CommentOutro(b)
  <2>1. Unnested /\ status' = "running" /\ in_array_element' = in_array_element
    BY <1>3 DEF CommentOutro, Quiet
  <2>2. LexTypeOK' /\ last_state \notin CommentStates /\ next_state' \notin ResyncStates
    BY <1>3 DEF CommentOutro, Quiet, LexTypeOK, Nested, CommentStates, ResyncStates
  <2>3. Place' = Place
    BY <1>3, <2>2 DEF CommentOutro, Place, CommentStates
  <2> QED BY <2>1, <2>2, <2>3, LexicalStep
<1> QED BY <1>1, <1>2, <1>3

\* A key, an annotation, a literal: begun, copied and closed.
LEMMA BeginsStep ==
    ASSUME Nested, NEW b \in Bytes,
           IdentifierIntro(b) \/ TypeIntro(b) \/ ScalarIntro(b) \/ StringIntro(b)
    PROVE  Nested'
<1> USE DEF CommentStates, KeyStates, BoundaryPlaces, ElementStates, TextPlaces, ValueStates, LiteralStates
<1>1. CASE IdentifierIntro(b)
  BY <1>1, BeginStep DEF IdentifierIntro, Begins
<1>2. CASE TypeIntro(b)
  BY <1>2, BeginStep DEF TypeIntro, Begins
<1>3. CASE ScalarIntro(b)
  BY <1>3, BeginStep DEF ScalarIntro, Begins
<1>4. CASE StringIntro(b)
  BY <1>4, BeginStep DEF StringIntro, Begins
<1> QED BY <1>1, <1>2, <1>3, <1>4

LEMMA CopyByteStep ==
    ASSUME Nested, NEW b \in Bytes, CopyByte(b)
    PROVE  Nested'
<1>1. /\ next_state \in {"identifier", "type_body", "scalar", "inline_unit", "string", "reference_index", "esc_hex"}
      /\ Moves(next_state)
  BY DEF CopyByte
<1>2. next_state \in States \ (CommentStates \cup ResyncStates)
  BY <1>1 DEF Nested, LexTypeOK, CommentStates, ResyncStates
<1> QED BY <1>1, <1>2, MoveStep DEF CommentStates

LEMMA TextStep ==
    ASSUME Nested, NEW b \in Bytes, StringStep(b) \/ ReferenceIndex(b) \/ InlineUnitIntro(b)
    PROVE  Nested'
<1> USE MoveStep DEF States, CommentStates, KeyStates, BodyStates, BoundaryPlaces, ElementStates,
        TextPlaces, ValueStates, LiteralStates, StringStates, ResyncStates
<1>1. CASE StringStep(b)
  BY <1>1 DEF StringStep
<1>2. CASE ReferenceIndex(b)
  BY <1>2 DEF ReferenceIndex
<1>3. CASE InlineUnitIntro(b)
  BY <1>3 DEF InlineUnitIntro
<1> QED BY <1>1, <1>2, <1>3

LEMMA ResyncSkipsStep ==
    ASSUME Nested, NEW b \in Bytes, ResyncSkips(b)
    PROVE  Nested'
<1>1. next_state \in ResyncStates /\ \E s \in ResyncStates : Moves(s)
  BY DEF ResyncSkips, ResyncStates
<1>2. ResyncStates \cap (CommentStates \cup BoundaryPlaces \cup ElementStates \cup TextPlaces) = {}
  BY DEF CommentStates, KeyStates, BoundaryPlaces, ElementStates,
         TextPlaces, ValueStates, LiteralStates, StringStates, ResyncStates
<1> QED BY <1>1, <1>2, MoveStep DEF States, CommentStates, TextPlaces

-----------------------------------------------------------------------------
(* Errors and recovery.                                                    *)

LEMMA SameLexing ==
    ASSUME Nested, Unnested, status' \in {"running", "failed"}, ver_checked' \in BOOLEAN,
           UNCHANGED <<next_state, last_state, token_type, in_array_element>>
    PROVE  Nested'
<1>1. LexTypeOK' /\ Place' = Place /\ next_state' = next_state
  BY DEF Nested, LexTypeOK, Place
<1> QED BY <1>1, LexicalStep

LEMMA FailStep ==
    ASSUME Nested, NEW evs, Fail(evs)
    PROVE  Nested'
<1>1. Unnested /\ status' = "failed" /\ UNCHANGED lexing
  BY DEF Fail, Unnested
<1> QED BY <1>1, SameLexing DEF lexing, Nested, LexTypeOK

LEMMA CommentErrorStep ==
    ASSUME Nested, CommentErrorOn
    PROVE  Nested'
<1>1. CASE Fail(<<>>)
  BY <1>1, FailStep
<1>2. CASE flags.continue_on_error
  BY <1>2, SameLexing, EmitStatus DEF CommentErrorOn, Unnested, Nested, LexTypeOK
<1> QED BY <1>1, <1>2 DEF CommentErrorOn

\* Closing arrays down to base leaves the frames below it as they were.
LEMMA ClosedArrays ==
    ASSUME Nested, NEW base \in 0..array_nesting_level, NEW depth, OwnBase(base, depth),
           NEW items \in 0..max_array_items, CloseArraysTo(base, items)
    PROVE  /\ array_nesting_level' \in Levels
           /\ arr_frames' \in [Levels -> Frame]
           /\ arr_used_max' \in Levels
           /\ curr_row_size' \in Nat /\ array_row_size' \in Nat \cup {Unset}
           /\ array_items' \in 0..max_array_items
           /\ array_nesting_level' = base /\ arr_used_max' = base
           /\ \A i \in 1..base : OpenLevel(i)' = OpenLevel(i)
           /\ base > 0 => OpenLevel(base) # depth
<1>1. base \in Levels /\ 1..base \subseteq Levels /\ NestingTypeOK
  BY LimitsAssumption DEF Nested, NestingTypeOK, Levels
<1>2. arr_frames' = Wiped(base) /\ array_nesting_level' = base /\ arr_used_max' = base
  BY DEF CloseArraysTo
<1>3. arr_frames' \in [Levels -> Frame] /\ \A i \in 1..base : OpenLevel(i)' = OpenLevel(i)
  BY <1>1, <1>2, WipedFrames DEF OpenLevel
<1>4. arr_frames[base].saved_curr \in Nat /\ arr_frames[base].saved_row \in Nat \cup {Unset}
  BY <1>1 DEF NestingTypeOK, Frame
<1>5. curr_row_size' \in Nat /\ array_row_size' \in Nat \cup {Unset} /\ array_items' \in 0..max_array_items
  BY <1>1, <1>4, LimitsAssumption DEF CloseArraysTo, NestingTypeOK
<1>6. base > 0 => OpenLevel(base) # depth
  BY DEF OwnBase, OpenLevel
<1> QED BY <1>1, <1>2, <1>3, <1>5, <1>6

\* The arrays of the struct that is open go, and so may the struct.
LEMMA ClosedNesting ==
    ASSUME Nested, NEW base \in 0..array_nesting_level, OwnBase(base, struct_nesting_level),
           NEW items \in 0..max_array_items, CloseArraysTo(base, items),
           NEW closes \in {0, 1}, struct_nesting_level' = struct_nesting_level - closes,
           struct_nesting_level' >= 0,
           value_type' \in Types,
           resync_array_depth' \in 0..MaxSkippedBrackets,
           resync_struct_depth' \in 0..MaxSkippedBrackets,
           resync_saved_struct_nesting' \in 0..max_struct_nesting
    PROVE  NestingTypeOK' /\ FramesOrdered' /\ (closes = 0 => ~InnermostIsArray')
<1> DEFINE base1 == array_nesting_level'
<1>1. /\ array_nesting_level' = base /\ arr_used_max' = base
      /\ \A i \in 1..base : OpenLevel(i)' = OpenLevel(i)
      /\ base > 0 => OpenLevel(base) # struct_nesting_level
  BY ClosedArrays
<1>2. NestingTypeOK'
  <2>1. struct_nesting_level' \in 0..max_struct_nesting
    BY LimitsAssumption DEF Nested, NestingTypeOK
  <2> QED BY <2>1, ClosedArrays DEF NestingTypeOK
<1>3. \A i \in 1..base : OpenLevel(i) <= OpenLevel(base) /\ OpenLevel(base) < struct_nesting_level
  <2>1. \A i \in 1..array_nesting_level : OpenLevel(i) \in Nat
    BY LimitsAssumption DEF Nested, NestingTypeOK, OpenLevel, Levels, Frame
  <2>2. base \in Nat /\ array_nesting_level \in Nat /\ struct_nesting_level \in Nat
    BY LimitsAssumption DEF Nested, NestingTypeOK, Levels
  <2> QED BY <1>1, <2>1, <2>2 DEF Nested, FramesOrdered
<1>4. FramesOrdered'
  <2>1. \A i \in 1..base : OpenLevel(i)' <= struct_nesting_level'
    <3>1. \A i \in 1..base : OpenLevel(i) \in Nat
      BY LimitsAssumption DEF Nested, NestingTypeOK, OpenLevel, Levels, Frame
    <3> QED BY <1>1, <1>3, <3>1 DEF Nested, NestingTypeOK
  <2>2. \A i, j \in 1..base : i <= j => OpenLevel(i)' <= OpenLevel(j)'
    <3>1. 1..base \subseteq 1..array_nesting_level
      BY LimitsAssumption DEF Nested, NestingTypeOK, Levels
    <3> QED BY <1>1, <3>1 DEF Nested, FramesOrdered
  <2> QED BY <1>1, <2>1, <2>2 DEF FramesOrdered
<1>5. closes = 0 => ~InnermostIsArray'
  BY <1>1, <1>3 DEF InnermostIsArray, OpenLevel, Nested, NestingTypeOK
<1> QED BY <1>2, <1>4, <1>5

LEMMA EnterResyncStep ==
    ASSUME Nested, NEW base \in 0..array_nesting_level, NEW items \in 0..max_array_items,
           EnterResync(base, items),
           status' \in {"running", "failed"},
           NEW closes \in {0, 1}, struct_nesting_level' = struct_nesting_level - closes,
           struct_nesting_level' >= 0,
           resync_array_depth' \in 0..MaxSkippedBrackets,
           resync_struct_depth' \in 0..MaxSkippedBrackets,
           next_state' \in ResyncStates \/ (next_state' = "value_outro" /\ closes = 0)
    PROVE  Nested'
<1>1. NestingTypeOK' /\ FramesOrdered' /\ (closes = 0 => ~InnermostIsArray')
  BY ClosedNesting DEF EnterResync, Nested, NestingTypeOK, Types
<1>2. LexTypeOK' /\ Place' = next_state'
  BY DEF EnterResync, LexTypeOK, Nested, Place, States, ResyncStates, KeyStates, CommentStates
<1>3. next_state' \notin ElementStates \cup TextPlaces
  BY DEF ResyncStates, ElementStates, TextPlaces, ValueStates, LiteralStates, StringStates
<1>4. next_state' \in BoundaryPlaces => closes = 0
  BY DEF ResyncStates, BoundaryPlaces, KeyStates
<1>5. BoundaryOutsideArrays' /\ RowsInsideArrays' /\ InlineUnitsOutsideArrays'
  BY <1>1, <1>2, <1>3, <1>4 DEF BoundaryOutsideArrays, RowsInsideArrays, InlineUnitsOutsideArrays
<1>6. ResumesOutward' /\ AcceptedIsClosed'
  BY DEF EnterResync, ResumesOutward, AcceptedIsClosed, Nested, NestingTypeOK
<1> QED BY <1>1, <1>2, <1>5, <1>6 DEF Nested

LEMMA ErrorStep ==
    ASSUME Nested, NEW b \in Bytes, NEW evs, NEW items \in 0..max_array_items, ErrorOn(b, evs, items)
    PROVE  Nested'
<1>1. CASE Fail(evs)
  BY <1>1, FailStep
<1>2. CASE flags.continue_on_error
  <2> DEFINE plain  == ResyncTarget(b) = "resync"
             closes == plain /\ b = "rcb" /\ struct_nesting_level > 0
  <2>1. PICK base \in 0..array_nesting_level :
          /\ EnterResync(base, items)
          /\ next_state' = IF plain /\ b = "semi" THEN "value_outro" ELSE ResyncTarget(b)
          /\ resync_array_depth'  = IF plain /\ b = "lbr" THEN 1 ELSE 0
          /\ resync_struct_depth' = IF plain /\ b = "lcb" THEN 1 ELSE 0
          /\ struct_nesting_level' = IF closes THEN struct_nesting_level - 1 ELSE struct_nesting_level
          /\ Emit(evs \o <<Error>> \o RowEnds(base) \o (IF closes THEN <<Mark("struct_end")>> ELSE <<>>))
    BY <1>2 DEF ErrorOn
  <2>2. status' \in {"running", "failed"}
    BY <2>1, EmitStatus
  <2>3. resync_array_depth' \in 0..MaxSkippedBrackets /\ resync_struct_depth' \in 0..MaxSkippedBrackets
    BY <2>1, LimitsAssumption
  <2>4. ResyncTarget(b) \in ResyncStates
    BY DEF ResyncTarget, ResyncStates
  <2>5. struct_nesting_level \in Nat
    BY LimitsAssumption DEF Nested, NestingTypeOK
  <2>6. CASE closes
    <3>1. struct_nesting_level' = struct_nesting_level - 1 /\ struct_nesting_level' >= 0 /\ next_state' \in ResyncStates
      BY <2>1, <2>4, <2>5, <2>6
    <3> QED BY <2>1, <2>2, <2>3, <3>1, EnterResyncStep
  <2>7. CASE ~closes
    <3>1. struct_nesting_level' = struct_nesting_level - 0 /\ struct_nesting_level' >= 0
      BY <2>1, <2>5, <2>7
    <3>2. next_state' \in ResyncStates \/ next_state' = "value_outro"
      BY <2>1, <2>4
    <3> QED BY <2>1, <2>2, <2>3, <3>1, <3>2, EnterResyncStep
  <2> QED BY <2>6, <2>7
<1> QED BY <1>1, <1>2 DEF ErrorOn

LEMMA RejectStep ==
    ASSUME Nested, NEW b \in Bytes, Reject(b)
    PROVE  Nested'
<1>1. array_items \in 0..max_array_items
  BY DEF Nested, NestingTypeOK
<1> QED BY <1>1, CommentErrorStep, ErrorStep DEF Reject

LEMMA FirstCommentOutroStep ==
    ASSUME Nested, NEW b \in Bytes, FirstCommentOutro(b)
    PROVE  Nested'
<1>1. CASE ErrorOn(b, <<>>, array_items) \/ Fail(<<>>)
  BY <1>1, ErrorStep, FailStep DEF Nested, NestingTypeOK
<1>2. CASE next_state' = "first_bom" /\ ver_checked' = TRUE /\ last_state' = "none"
           /\ Quiet /\ Unnested /\ UNCHANGED <<token_type, in_array_element>>
  <2>1. LexTypeOK' /\ status' = "running" /\ next_state' \notin ResyncStates
    BY <1>2 DEF LexTypeOK, Nested, Quiet, States, KeyStates, ResyncStates
  <2>2. Place' = Place
    BY <1>2 DEF FirstCommentOutro, Place, CommentStates
  <2> QED BY <1>2, <2>1, <2>2, LexicalStep
<1> QED BY <1>1, <1>2 DEF FirstCommentOutro

\* Inside a skipped region only the frames, the levels and the level to resume
\* at matter.
LEMMA StaysSkipping ==
    ASSUME Nested, NestingTypeOK', FramesOrdered', next_state' \in ResyncStates,
           status' \in {"running", "failed"}, in_array_element' \in BOOLEAN,
           UNCHANGED <<last_state, token_type, ver_checked>>,
           struct_nesting_level' <= resync_saved_struct_nesting'
    PROVE  Nested'
<1>1. LexTypeOK' /\ Place' = next_state'
  BY DEF LexTypeOK, Nested, Place, States, ResyncStates, CommentStates
<1>2. next_state' \notin BoundaryPlaces \cup ElementStates \cup TextPlaces
  BY DEF ResyncStates, BoundaryPlaces, KeyStates, ElementStates, TextPlaces, ValueStates, LiteralStates, StringStates
<1> QED BY <1>1, <1>2 DEF Nested, BoundaryOutsideArrays, RowsInsideArrays, InlineUnitsOutsideArrays,
                          ResumesOutward, AcceptedIsClosed

LEMMA ResyncOpenBracketStep ==
    ASSUME Nested, NEW b \in Bytes, ResyncOpenBracket(b)
    PROVE  Nested'
<1>1. /\ UNCHANGED <<struct_nesting_level, arrays, value_type, resync_saved_struct_nesting>>
      /\ UNCHANGED <<last_state, token_type, in_array_element, ver_checked>>
      /\ next_state \in ResyncStates /\ next_state' = "resync" /\ status' = "running"
  BY DEF ResyncOpenBracket, Quiet, ResyncStates
<1>2. resync_array_depth' \in 0..MaxSkippedBrackets /\ resync_struct_depth' \in 0..MaxSkippedBrackets
  BY LimitsAssumption DEF ResyncOpenBracket, Nested, NestingTypeOK
<1>3. NestingTypeOK'
  BY <1>1, <1>2 DEF Nested, NestingTypeOK, arrays
<1>4. FramesOrdered'
  BY <1>1 DEF Nested, FramesOrdered, arrays, OpenLevel
<1> QED BY <1>1, <1>3, <1>4, StaysSkipping DEF Nested, LexTypeOK, ResumesOutward, ResyncStates

\* Closing the innermost row leaves the frames below it as they were.
LEMMA PoppedFrame ==
    ASSUME Nested, array_nesting_level > 0, NEW width \in Nat, PopFrame(width),
           struct_nesting_level' = struct_nesting_level,
           resync_array_depth' \in 0..MaxSkippedBrackets,
           resync_struct_depth' = resync_struct_depth,
           resync_saved_struct_nesting' = resync_saved_struct_nesting
    PROVE  NestingTypeOK' /\ FramesOrdered'
<1>1. array_nesting_level \in 1..max_array_nesting /\ array_nesting_level - 1 \in Levels
  BY LimitsAssumption DEF Nested, NestingTypeOK, Levels
<1>2. arr_frames[array_nesting_level - 1] \in Frame
  BY <1>1 DEF Nested, NestingTypeOK
<1>3. arr_frames' \in [Levels -> Frame] /\ \A i \in Levels : OpenLevel(i)' = OpenLevel(i)
  <2>1. [arr_frames[array_nesting_level - 1] EXCEPT !.dim_row_size = width] \in Frame
    BY <1>2 DEF Frame
  <2>2. arr_frames' = [arr_frames EXCEPT ![array_nesting_level - 1] =
                         [arr_frames[array_nesting_level - 1] EXCEPT !.dim_row_size = width]]
    BY DEF PopFrame
  <2>3. [arr_frames[array_nesting_level - 1] EXCEPT !.dim_row_size = width].open_struct_level
          = arr_frames[array_nesting_level - 1].open_struct_level
    BY <1>2 DEF Frame
  <2> QED BY <1>1, <2>1, <2>2, <2>3 DEF Nested, NestingTypeOK, OpenLevel
<1>4. NestingTypeOK'
  <2>1. array_nesting_level' \in Levels /\ arr_used_max' = arr_used_max /\ array_items' = array_items
    BY <1>1 DEF PopFrame
  <2>2. curr_row_size' \in Nat /\ array_row_size' \in Nat \cup {Unset} /\ value_type' \in Types
    BY <1>2 DEF PopFrame, Frame
  <2> QED BY <1>3, <2>1, <2>2 DEF Nested, NestingTypeOK
<1>5. FramesOrdered'
  <2>1. array_nesting_level' = array_nesting_level - 1 /\ arr_used_max' = arr_used_max
    BY DEF PopFrame
  <2>2. 1..(array_nesting_level - 1) \subseteq 1..array_nesting_level /\ 1..(array_nesting_level - 1) \subseteq Levels
    BY <1>1, LimitsAssumption DEF Levels
  <2>3. arr_used_max \in Nat
    BY LimitsAssumption DEF Nested, NestingTypeOK, Levels
  <2> QED BY <1>1, <1>3, <2>1, <2>2, <2>3 DEF Nested, FramesOrdered
<1> QED BY <1>4, <1>5

LEMMA ResyncCloseArrayStep ==
    ASSUME Nested, NEW b \in Bytes, ResyncCloseArray(b)
    PROVE  Nested'
<1>1. /\ UNCHANGED <<last_state, token_type, ver_checked, struct_nesting_level,
                     resync_struct_depth, resync_saved_struct_nesting>>
      /\ next_state \in ResyncStates /\ next_state' \in ResyncStates
  BY DEF ResyncCloseArray, ResyncStates
<1>2. resync_array_depth' \in 0..MaxSkippedBrackets
  BY LimitsAssumption DEF ResyncCloseArray, Nested, NestingTypeOK
<1>3. struct_nesting_level' <= resync_saved_struct_nesting'
  BY <1>1 DEF Nested, ResumesOutward
<1>4. CASE resync_array_depth = 0 /\ OwnsArray
  <2>1. /\ PopFrame(curr_row_size) /\ in_array_element' \in BOOLEAN /\ Emit(<<Mark("row_end")>>)
        /\ array_nesting_level > 0 /\ curr_row_size \in Nat
    BY <1>4 DEF ResyncCloseArray, OwnsArray, Nested, NestingTypeOK
  <2>2. NestingTypeOK' /\ FramesOrdered'
    BY <1>1, <1>2, <2>1, PoppedFrame
  <2> QED BY <1>1, <1>3, <2>1, <2>2, EmitStatus, StaysSkipping
<1>5. CASE ~(resync_array_depth = 0 /\ OwnsArray)
  <2>1. Quiet /\ UNCHANGED <<arrays, value_type, in_array_element>>
    BY <1>5 DEF ResyncCloseArray
  <2>2. NestingTypeOK' /\ FramesOrdered'
    BY <1>1, <1>2, <2>1 DEF Nested, NestingTypeOK, FramesOrdered, arrays, OpenLevel
  <2> QED BY <1>1, <1>3, <2>1, <2>2, QuietStatus, StaysSkipping DEF Nested, LexTypeOK
<1> QED BY <1>4, <1>5

LEMMA ResyncCloseStructStep ==
    ASSUME Nested, NEW b \in Bytes, ResyncCloseStruct(b)
    PROVE  Nested'
<1>1. /\ UNCHANGED <<last_state, token_type, ver_checked, resync_array_depth, resync_saved_struct_nesting>>
      /\ next_state \in ResyncStates /\ next_state' \in ResyncStates
  BY DEF ResyncCloseStruct, ResyncStates
<1>2. resync_struct_depth' \in 0..MaxSkippedBrackets
  BY LimitsAssumption DEF ResyncCloseStruct, Nested, NestingTypeOK
<1>3. CASE resync_struct_depth = 0 /\ struct_nesting_level > 0
  <2>1. PICK base \in 0..array_nesting_level :
          /\ OwnBase(base, struct_nesting_level)
          /\ CloseArraysTo(base, array_items)
          /\ value_type' = IF base < array_nesting_level THEN arr_frames[base].saved_vtype ELSE value_type
          /\ struct_nesting_level' = struct_nesting_level - 1
          /\ in_array_element' = FALSE
          /\ Emit(Append(RowEnds(base), Mark("struct_end")))
    BY <1>3 DEF ResyncCloseStruct
  <2>2. base \in Levels /\ arr_frames[base] \in Frame /\ value_type \in Types
    BY LimitsAssumption DEF Nested, NestingTypeOK, Levels
  <2>3. value_type' \in Types
    BY <2>1, <2>2 DEF Frame
  <2>4. struct_nesting_level' >= 0 /\ struct_nesting_level' <= resync_saved_struct_nesting'
    BY <1>1, <1>3, <2>1, LimitsAssumption DEF Nested, NestingTypeOK, ResumesOutward
  <2>5. NestingTypeOK' /\ FramesOrdered'
    BY <1>1, <1>2, <2>1, <2>3, <2>4, ClosedNesting DEF Nested, NestingTypeOK
  <2> QED BY <1>1, <2>1, <2>4, <2>5, EmitStatus, StaysSkipping
<1>4. CASE ~(resync_struct_depth = 0 /\ struct_nesting_level > 0)
  <2>1. Quiet /\ UNCHANGED <<struct_nesting_level, arrays, value_type, in_array_element>>
    BY <1>4 DEF ResyncCloseStruct
  <2>2. NestingTypeOK' /\ FramesOrdered'
    BY <1>1, <1>2, <2>1 DEF Nested, NestingTypeOK, FramesOrdered, arrays, OpenLevel
  <2> QED BY <1>1, <2>1, <2>2, QuietStatus, StaysSkipping DEF Nested, LexTypeOK, ResumesOutward
<1> QED BY <1>3, <1>4

\* Where reading resumes, the struct open now is the one open before, and no
\* array of it is.
LEMMA ResumeStep ==
    ASSUME Nested, next_state \in ResyncStates,
           Resume("value_outro", "unknown") \/ Resume("identifier", "identifier")
    PROVE  Nested'
<1> DEFINE depth == IF struct_nesting_level < resync_saved_struct_nesting
                    THEN struct_nesting_level ELSE resync_saved_struct_nesting
<1>1. depth = struct_nesting_level
  BY LimitsAssumption DEF Nested, NestingTypeOK, ResumesOutward
<1>2. PICK base \in 0..array_nesting_level :
        /\ OwnBase(base, struct_nesting_level)
        /\ CloseArraysTo(base, array_items)
        /\ struct_nesting_level' = struct_nesting_level
        /\ resync_saved_struct_nesting' = struct_nesting_level
        /\ resync_array_depth' = 0 /\ resync_struct_depth' = 0
        /\ value_type' = Plain
        /\ in_array_element' = FALSE
        /\ Emit(Marks("struct_end", struct_nesting_level - depth) \o RowEnds(base))
        /\ UNCHANGED <<last_state, ver_checked>>
  BY <1>1 DEF Resume
<1>3. next_state' \in {"value_outro", "identifier"} /\ token_type' \in {"unknown", "identifier"}
  BY DEF Resume
<1>4. status' \in {"running", "failed"}
  BY <1>2, EmitStatus
<1>5. NestingTypeOK' /\ FramesOrdered' /\ ~InnermostIsArray'
  <2>1. struct_nesting_level' = struct_nesting_level - 0 /\ struct_nesting_level' >= 0
    BY <1>2, LimitsAssumption DEF Nested, NestingTypeOK
  <2>2. value_type' \in Types /\ array_items \in 0..max_array_items
    BY <1>2 DEF Types, Nested, NestingTypeOK
  <2>3. resync_array_depth' \in 0..MaxSkippedBrackets /\ resync_struct_depth' \in 0..MaxSkippedBrackets
        /\ resync_saved_struct_nesting' \in 0..max_struct_nesting
    BY <1>2, LimitsAssumption DEF Nested, NestingTypeOK
  <2> QED BY <1>2, <2>1, <2>2, <2>3, ClosedNesting
<1>6. LexTypeOK' /\ Place' = next_state'
  BY <1>2, <1>3, <1>4 DEF LexTypeOK, Nested, Place, States, CommentStates, KeyStates, BodyStates
<1>7. next_state' \notin ElementStates \cup TextPlaces \cup ResyncStates
  BY <1>3 DEF ElementStates, TextPlaces, ValueStates, LiteralStates, StringStates, ResyncStates
<1> QED BY <1>4, <1>5, <1>6, <1>7 DEF Nested, BoundaryOutsideArrays, RowsInsideArrays, InlineUnitsOutsideArrays,
                                      ResumesOutward, AcceptedIsClosed

LEMMA SkipMalformedStep ==
    ASSUME Nested, NEW b \in Bytes, SkipMalformed(b)
    PROVE  Nested'
<1>1. next_state \in ResyncStates /\ \E s \in ResyncStates : Moves(s)
  BY DEF SkipMalformed, ResyncStates
<1>2. ResyncStates \cap (CommentStates \cup BoundaryPlaces \cup ElementStates \cup TextPlaces) = {}
  BY DEF CommentStates, KeyStates, BoundaryPlaces, ElementStates,
         TextPlaces, ValueStates, LiteralStates, StringStates, ResyncStates
<1> QED BY <1>1, <1>2, MoveStep DEF States, CommentStates, TextPlaces

LEMMA MalformedCommentStep ==
    ASSUME Nested, NEW b \in Bytes, MalformedComment(b)
    PROVE  Nested'
<1>1. CASE Fail(<<>>)
  BY <1>1, FailStep
<1>2. CASE flags.continue_on_error
  <2>1. /\ Emit(<<CommentError>>) /\ Unnested /\ UNCHANGED <<token_type, in_array_element>>
        /\ ver_checked' = (ver_checked \/ next_state = "first_comment")
    BY <1>2 DEF MalformedComment
  <2>2. \/ UNCHANGED <<next_state, last_state>>
        \/ next_state' = Place /\ last_state' = "none"
    BY <1>2 DEF MalformedComment, Place, CommentStates
  <2>3. Place \in States /\ Place \notin CommentStates \cup ResyncStates
    BY DEF MalformedComment, Place, Nested, LexTypeOK, CommentStates, ResyncStates, States, KeyStates
  <2>4. LexTypeOK'
    BY <2>1, <2>2, <2>3, EmitStatus DEF Nested, LexTypeOK, CommentStates
  <2>5. Place' = Place /\ (next_state' \in ResyncStates => next_state \in ResyncStates)
    BY <2>2, <2>3 DEF Place
  <2>6. status' # "accepted"
    BY <2>1, EmitStatus
  <2> QED BY <2>1, <2>4, <2>5, <2>6, LexicalStep
<1> QED BY <1>1, <1>2 DEF MalformedComment

LEMMA MalformedTextStep ==
    ASSUME Nested, NEW b \in Bytes, MalformedText(b)
    PROVE  Nested'
<1>1. CASE Fail(<<>>)
  BY <1>1, FailStep
<1>2. CASE flags.continue_on_error
  <2>1. PICK base \in 0..array_nesting_level :
          /\ EnterResync(base, array_items)
          /\ next_state' = ResyncTarget(b)
          /\ resync_array_depth' = 0 /\ resync_struct_depth' = 0
          /\ Emit(<<Error>> \o RowEnds(base))
          /\ UNCHANGED struct_nesting_level
    BY <1>2 DEF MalformedText
  <2>2. next_state' \in ResyncStates
    BY <2>1 DEF ResyncTarget, ResyncStates
  <2>3. struct_nesting_level' = struct_nesting_level - 0 /\ struct_nesting_level' >= 0
        /\ array_items \in 0..max_array_items
    BY <2>1, LimitsAssumption DEF Nested, NestingTypeOK
  <2>4. resync_array_depth' \in 0..MaxSkippedBrackets /\ resync_struct_depth' \in 0..MaxSkippedBrackets
    BY <2>1, LimitsAssumption
  <2> QED BY <2>1, <2>2, <2>3, <2>4, EmitStatus, EnterResyncStep
<1> QED BY <1>1, <1>2 DEF MalformedText

-----------------------------------------------------------------------------
(* The handlers that change what is open.                                  *)

\* A step that leaves every level and every open_struct_level alone.
LEMMA SameLevels ==
    ASSUME Nested, NestingTypeOK',
           UNCHANGED <<struct_nesting_level, array_nesting_level, arr_used_max>>,
           \A i \in Levels : OpenLevel(i)' = OpenLevel(i)
    PROVE  FramesOrdered' /\ (InnermostIsArray' <=> InnermostIsArray)
<1>1. 1..array_nesting_level \subseteq Levels /\ array_nesting_level \in Levels
  BY LimitsAssumption DEF Nested, NestingTypeOK, Levels
<1>2. FramesOrdered'
  BY <1>1 DEF Nested, FramesOrdered
<1> QED BY <1>1, <1>2 DEF InnermostIsArray

LEMMA ValueIntroStep ==
    ASSUME Nested, NEW b \in Bytes, ValueIntro(b)
    PROVE  Nested'
<1>1. NestingTypeOK' /\ UNCHANGED <<struct_nesting_level, array_nesting_level, arr_used_max, arr_frames>>
  BY LimitsAssumption DEF ValueIntro, Nested, NestingTypeOK, BudgetAtKey, Types, skipping
<1>2. FramesOrdered' /\ (InnermostIsArray' <=> InnermostIsArray)
  BY <1>1, SameLevels DEF OpenLevel
<1>3. ~InnermostIsArray
  BY DEF ValueIntro, Nested, BoundaryOutsideArrays, Place, BoundaryPlaces, CommentStates
<1>4. status' \in {"running", "failed"} /\ next_state' = "value_intro" /\ in_array_element' = FALSE
  BY EmitStatus DEF ValueIntro
<1>5. LexTypeOK' /\ Place' = "value_intro"
  BY <1>4 DEF ValueIntro, Nested, LexTypeOK, Place, States, ValueStates, CommentStates
<1> QED BY <1>1, <1>2, <1>3, <1>4, <1>5
    DEF Nested, BoundaryOutsideArrays, RowsInsideArrays, InlineUnitsOutsideArrays, ResumesOutward, AcceptedIsClosed,
        BoundaryPlaces, KeyStates, ElementStates, ResyncStates

LEMMA TypeOutroStep ==
    ASSUME Nested, NEW b \in Bytes, TypeOutro(b)
    PROVE  Nested'
<1>1. NestingTypeOK' /\ UNCHANGED <<struct_nesting_level, array_nesting_level, arr_used_max, arr_frames>>
  BY DEF TypeOutro, Nested, NestingTypeOK, Types, skipping, arrays
<1>2. FramesOrdered' /\ (InnermostIsArray' <=> InnermostIsArray)
  BY <1>1, SameLevels DEF OpenLevel
<1>3. status' \in {"running", "failed"} /\ next_state' = "type_outro" /\ in_array_element' = in_array_element
  BY EmitStatus DEF TypeOutro
<1>4. LexTypeOK' /\ Place' = "type_outro" /\ Place = "type_body"
  BY <1>3 DEF TypeOutro, Nested, LexTypeOK, Place, States, ValueStates, CommentStates
<1> QED BY <1>1, <1>2, <1>3, <1>4
    DEF Nested, BoundaryOutsideArrays, RowsInsideArrays, InlineUnitsOutsideArrays, ResumesOutward, AcceptedIsClosed,
        BoundaryPlaces, KeyStates, ElementStates, ResyncStates, TextPlaces

\* What is left to show of a handler that goes to a row of the table by itself.
LEMMA Arrival ==
    ASSUME Nested, NestingTypeOK', FramesOrdered', LexTypeOK', status' # "accepted",
           NEW s, next_state' = s, s \notin CommentStates \cup ResyncStates \cup {"inline_unit"},
           s \in BoundaryPlaces => ~InnermostIsArray',
           s \in ElementStates => InnermostIsArray',
           s \in TextPlaces => (InnermostIsArray' <=> in_array_element')
    PROVE  Nested'
<1>1. Place' = s
  BY DEF Place
<1> QED BY <1>1 DEF Nested, BoundaryOutsideArrays, RowsInsideArrays, InlineUnitsOutsideArrays,
                    ResumesOutward, AcceptedIsClosed

LEMMA ValueOutroStep ==
    ASSUME Nested, NEW b \in Bytes, ValueOutro(b)
    PROVE  Nested'
<1>1. CASE ErrorOn(b, NullIfTyped, array_items) \/ FinalizeFails(b)
  BY <1>1, ErrorStep DEF FinalizeFails, Nested, NestingTypeOK
<1>2. CASE ~OwnsArray /\ ~ErrorOn(b, NullIfTyped, array_items) /\ ~FinalizeFails(b)
  <2> DEFINE outermost == struct_nesting_level = 0
  <2>1. /\ Emit(Finalized)
        /\ token_type' = "unknown" /\ value_type' = Plain
        /\ arr_frames' = Wiped(array_nesting_level)
        /\ arr_used_max' = array_nesting_level
        /\ in_array_element'    = (in_array_element /\ ~outermost)
        /\ array_nesting_level' = IF outermost THEN 0 ELSE array_nesting_level
        /\ curr_row_size'       = IF outermost THEN 0 ELSE curr_row_size
        /\ array_row_size'      = IF outermost THEN 0 ELSE array_row_size
        /\ next_state' = "value_outro"
        /\ UNCHANGED <<last_state, ver_checked, struct_nesting_level, array_items, skipping>>
    BY <1>2 DEF ValueOutro, Unterminated
  <2>2. ~InnermostIsArray /\ array_nesting_level \in Levels /\ array_nesting_level \in Nat /\ struct_nesting_level \in Nat
    BY <1>2, LimitsAssumption DEF OwnsArray, InnermostIsArray, OpenLevel, Nested, NestingTypeOK, Levels
  <2>3. outermost => array_nesting_level = 0
    <3>1. array_nesting_level > 0 => OpenLevel(array_nesting_level) \in Nat /\ OpenLevel(array_nesting_level) <= struct_nesting_level
      BY <2>2 DEF Nested, NestingTypeOK, FramesOrdered, OpenLevel, Frame
    <3> QED BY <2>2, <3>1 DEF InnermostIsArray
  <2>4. array_nesting_level' = array_nesting_level
    BY <2>1, <2>3
  <2>5. arr_frames' \in [Levels -> Frame] /\ \A i \in Levels : i <= array_nesting_level => OpenLevel(i)' = OpenLevel(i)
    BY <2>1, <2>2, WipedFrames DEF Nested, OpenLevel
  <2>6. NestingTypeOK'
    BY <2>1, <2>2, <2>4, <2>5 DEF Nested, NestingTypeOK, Types, skipping
  <2>7. \A i \in 1..array_nesting_level : OpenLevel(i)' = OpenLevel(i)
    BY <2>2, <2>5, LimitsAssumption DEF Levels
  <2>8. FramesOrdered'
    BY <2>1, <2>2, <2>4, <2>7 DEF Nested, FramesOrdered
  <2>9. ~InnermostIsArray'
    BY <2>1, <2>2, <2>4, <2>7 DEF InnermostIsArray
  <2>10. LexTypeOK' /\ status' # "accepted"
    BY <2>1, EmitStatus DEF Nested, LexTypeOK, States, KeyStates
  <2> QED BY <2>1, <2>6, <2>8, <2>9, <2>10, Arrival
      DEF CommentStates, ResyncStates, ElementStates, TextPlaces, ValueStates, LiteralStates, StringStates
<1> QED BY <1>1, <1>2 DEF ValueOutro, Unterminated

LEMMA NewArrayValueStep ==
    ASSUME Nested, NEW b \in Bytes, NewArrayValue(b)
    PROVE  Nested'
<1>1. array_items \in Nat /\ array_items <= max_array_items /\ max_array_items \in Nat
  BY LimitsAssumption DEF Nested, NestingTypeOK
<1>2. CASE ErrorOn(b, NullIfTyped, array_items) \/ FinalizeFails(b) \/ ErrorOn(b, Finalized, array_items)
  BY <1>2, ErrorStep DEF FinalizeFails, Nested, NestingTypeOK
<1>3. CASE ~BudgetSpent /\ ErrorOn(b, Finalized, array_items + 1)
  <2>1. array_items + 1 \in 0..max_array_items
    BY <1>1, <1>3 DEF BudgetSpent
  <2> QED BY <1>3, <2>1, ErrorStep
<1>4. CASE ~(ErrorOn(b, NullIfTyped, array_items) \/ FinalizeFails(b) \/ ErrorOn(b, Finalized, array_items))
           /\ ~(~BudgetSpent /\ ErrorOn(b, Finalized, array_items + 1))
  <2>1. /\ OwnsArray /\ ~BudgetSpent
        /\ Emit(Finalized)
        /\ array_items' = array_items + 1
        /\ curr_row_size' = curr_row_size + 1
        /\ arr_frames' = [arr_frames EXCEPT ![array_nesting_level].in_dim_seq = FALSE]
        /\ value_type' = arr_frames[array_nesting_level - 1].saved_vtype
        /\ in_array_element' = TRUE /\ token_type' = "null"
        /\ next_state' = "new_array_value"
        /\ UNCHANGED <<last_state, ver_checked, struct_nesting_level, array_nesting_level,
                       arr_used_max, array_row_size, skipping>>
    BY <1>4 DEF NewArrayValue
  <2>2. array_nesting_level \in Levels /\ array_nesting_level - 1 \in Levels
    BY <2>1, LimitsAssumption DEF OwnsArray, Nested, NestingTypeOK, Levels
  <2>3. arr_frames[array_nesting_level] \in Frame /\ arr_frames[array_nesting_level - 1] \in Frame
    BY <2>2 DEF Nested, NestingTypeOK
  <2>4. arr_frames' \in [Levels -> Frame] /\ \A i \in Levels : OpenLevel(i)' = OpenLevel(i)
    BY <2>1, <2>2, <2>3 DEF Nested, NestingTypeOK, Frame, OpenLevel
  <2>5. NestingTypeOK'
    BY <1>1, <2>1, <2>3, <2>4 DEF Nested, NestingTypeOK, Frame, BudgetSpent, skipping
  <2>6. FramesOrdered' /\ (InnermostIsArray' <=> InnermostIsArray)
    BY <2>1, <2>4, <2>5, SameLevels
  <2>7. InnermostIsArray
    BY <2>1 DEF OwnsArray, InnermostIsArray, OpenLevel
  <2>8. LexTypeOK' /\ status' # "accepted"
    BY <2>1, EmitStatus DEF Nested, LexTypeOK, States, ValueStates, ElementStates
  <2> QED BY <2>1, <2>5, <2>6, <2>7, <2>8, Arrival DEF CommentStates, ResyncStates, BoundaryPlaces, KeyStates
<1> QED BY <1>2, <1>3, <1>4

LEMMA ArrayOutroStep ==
    ASSUME Nested, NEW b \in Bytes, ArrayOutro(b)
    PROVE  Nested'
<1> DEFINE empty == next_state = "array_intro"
           width == IF empty THEN 0 ELSE curr_row_size
           last  == IF empty THEN <<>> ELSE Finalized
<1>1. CASE ErrorOn(b, NullIfTyped, array_items) \/ FinalizeFails(b) \/ ErrorOn(b, last, array_items)
  <2>1. array_items \in 0..max_array_items
    BY DEF Nested, NestingTypeOK
  <2> HIDE DEF last
  <2> QED BY <1>1, <2>1, ErrorStep DEF FinalizeFails
<1>2. CASE ~(ErrorOn(b, NullIfTyped, array_items) \/ FinalizeFails(b) \/ ErrorOn(b, last, array_items))
  <2>1. /\ OwnsArray
        /\ Emit(Append(last, Mark("row_end")))
        /\ PopFrame(width)
        /\ token_type' = "unknown"
        /\ next_state' = "array_outro"
        /\ UNCHANGED <<last_state, in_array_element, ver_checked, struct_nesting_level, skipping>>
    BY <1>2 DEF ArrayOutro
  <2>2. array_nesting_level > 0 /\ width \in Nat
    BY <2>1 DEF OwnsArray, Nested, NestingTypeOK
  <2>3. NestingTypeOK' /\ FramesOrdered'
    BY <2>1, <2>2, PoppedFrame DEF Nested, NestingTypeOK, skipping
  <2>4. LexTypeOK' /\ status' # "accepted"
    BY <2>1, EmitStatus DEF Nested, LexTypeOK, States, OutroStates
  <2> QED BY <2>1, <2>3, <2>4, Arrival DEF CommentStates, ResyncStates, BoundaryPlaces, KeyStates, ElementStates,
                                          TextPlaces, ValueStates, LiteralStates, StringStates
<1> QED BY <1>1, <1>2

LEMMA ArrayIntroStep ==
    ASSUME Nested, NEW b \in Bytes, ArrayIntro(b)
    PROVE  Nested'
<1>1. CASE ErrorOn(b, <<>>, array_items)
  BY <1>1, ErrorStep DEF Nested, NestingTypeOK
<1>2. CASE ~ErrorOn(b, <<>>, array_items)
  <2> DEFINE outer == [arr_frames[array_nesting_level] EXCEPT
                         !.saved_curr = curr_row_size, !.saved_row = array_row_size, !.saved_vtype = value_type]
             inner == [arr_frames[array_nesting_level + 1] EXCEPT
                         !.in_dim_seq = FALSE, !.dim_row_size = 0, !.open_struct_level = struct_nesting_level]
  <2>1. /\ ~BudgetSpent /\ array_nesting_level # max_array_nesting
        /\ Emit(<<Event("row_start", value_type)>>)
        /\ array_items' = array_items + 1
        /\ curr_row_size' = 1
        /\ array_row_size' = IF arr_frames[array_nesting_level].in_dim_seq
                             THEN arr_frames[array_nesting_level].dim_row_size ELSE Unset
        /\ arr_frames' = [arr_frames EXCEPT ![array_nesting_level] = outer, ![array_nesting_level + 1] = inner]
        /\ array_nesting_level' = array_nesting_level + 1
        /\ arr_used_max' = IF array_nesting_level + 1 > arr_used_max
                           THEN array_nesting_level + 1 ELSE arr_used_max
        /\ token_type' = "null" /\ in_array_element' = TRUE
        /\ next_state' = "array_intro"
        /\ UNCHANGED <<last_state, ver_checked, struct_nesting_level, value_type, skipping>>
    <3>1. arr_frames' =
            [arr_frames EXCEPT
               ![array_nesting_level] = [@ EXCEPT !.saved_curr = curr_row_size,
                                                  !.saved_row = array_row_size,
                                                  !.saved_vtype = value_type],
               ![array_nesting_level + 1] = [@ EXCEPT !.in_dim_seq = FALSE,
                                                      !.dim_row_size = 0,
                                                      !.open_struct_level = struct_nesting_level]]
      BY <1>2 DEF ArrayIntro
    <3>2. array_nesting_level # array_nesting_level + 1
      BY LimitsAssumption DEF Nested, NestingTypeOK, Levels
    <3>3. arr_frames' = [arr_frames EXCEPT ![array_nesting_level] = outer, ![array_nesting_level + 1] = inner]
      BY <3>1, <3>2
    <3> QED BY <1>2, <3>3 DEF ArrayIntro
  <2>2. array_nesting_level \in Levels /\ array_nesting_level + 1 \in Levels /\ array_nesting_level \in Nat
    BY <2>1, LimitsAssumption DEF Nested, NestingTypeOK, Levels
  <2>3. arr_frames[array_nesting_level] \in Frame /\ arr_frames[array_nesting_level + 1] \in Frame
    BY <2>2 DEF Nested, NestingTypeOK
  <2>4. struct_nesting_level \in Nat /\ curr_row_size \in Nat /\ array_row_size \in Nat \cup {Unset} /\ value_type \in Types
    BY LimitsAssumption DEF Nested, NestingTypeOK
  <2>5. outer \in Frame /\ outer.open_struct_level = OpenLevel(array_nesting_level)
    BY <2>3, <2>4 DEF Frame, OpenLevel
  <2>6. inner \in Frame /\ inner.open_struct_level = struct_nesting_level
    BY <2>3, <2>4 DEF Frame
  <2> HIDE DEF outer, inner
  <2>7. /\ arr_frames' \in [Levels -> Frame]
        /\ arr_frames'[array_nesting_level + 1].open_struct_level = struct_nesting_level
        /\ \A i \in Levels : i <= array_nesting_level => OpenLevel(i)' = OpenLevel(i)
    <3>1. arr_frames \in [Levels -> Frame] /\ array_nesting_level' = array_nesting_level + 1
      BY <2>1 DEF Nested, NestingTypeOK
    <3>2. arr_frames' \in [Levels -> Frame]
      BY <2>1, <2>2, <2>5, <2>6, <3>1
    <3>3. arr_frames'[array_nesting_level + 1] = inner
      BY <2>1, <2>2, <3>1
    <3>4. \A i \in Levels : i <= array_nesting_level => arr_frames'[i].open_struct_level = OpenLevel(i)
      <4>1. Levels \subseteq Nat
        BY LimitsAssumption DEF Levels
      <4> QED BY <2>1, <2>2, <2>5, <3>1, <4>1 DEF OpenLevel
    <3> QED BY <2>6, <3>2, <3>3, <3>4 DEF OpenLevel
  <2>8. NestingTypeOK'
    <3>1. array_row_size' \in Nat \cup {Unset} /\ curr_row_size' \in Nat
      BY <2>1, <2>3 DEF Frame
    <3>2. array_items' \in 0..max_array_items
      BY <2>1, LimitsAssumption DEF Nested, NestingTypeOK, BudgetSpent
    <3>3. array_nesting_level' \in Levels /\ arr_used_max' \in Levels
      BY <2>1, <2>2 DEF Nested, NestingTypeOK
    <3>4. UNCHANGED <<struct_nesting_level, value_type, skipping>>
      BY <2>1
    <3> QED BY <2>7, <3>1, <3>2, <3>3, <3>4 DEF Nested, NestingTypeOK, skipping
  <2>9. \A i \in 1..array_nesting_level : OpenLevel(i) \in Nat /\ OpenLevel(i)' = OpenLevel(i)
    BY <2>2, <2>7, LimitsAssumption DEF Nested, NestingTypeOK, Levels, OpenLevel, Frame
  <2>10. \A i \in 1..(array_nesting_level + 1) : i \in 1..array_nesting_level \/ i = array_nesting_level + 1
    BY <2>2
  <2>11. arr_frames'[array_nesting_level'].open_struct_level = struct_nesting_level'
    BY <2>1, <2>7
  <2>12. FramesOrdered'
    <3>1. array_nesting_level' <= arr_used_max'
      BY <2>1, <2>2, LimitsAssumption DEF Nested, NestingTypeOK, Levels
    <3>2. \A i \in 1..array_nesting_level' :
            OpenLevel(i)' = IF i = array_nesting_level + 1 THEN struct_nesting_level ELSE OpenLevel(i)
      BY <2>1, <2>2, <2>7, <2>9, <2>10 DEF OpenLevel
    <3>3. \A i \in 1..array_nesting_level' : OpenLevel(i)' <= struct_nesting_level'
      BY <2>1, <2>4, <2>10, <3>2 DEF Nested, FramesOrdered
    <3>4. \A i, j \in 1..array_nesting_level' : i <= j => OpenLevel(i)' <= OpenLevel(j)'
      <4> SUFFICES ASSUME NEW i \in 1..(array_nesting_level + 1), NEW j \in 1..(array_nesting_level + 1), i <= j
                   PROVE  OpenLevel(i)' <= OpenLevel(j)'
        BY <2>1
      <4>1. CASE j = array_nesting_level + 1
        BY <2>1, <3>2, <3>3, <4>1
      <4>2. CASE j # array_nesting_level + 1
        <5>1. i \in 1..array_nesting_level /\ j \in 1..array_nesting_level
          BY <2>2, <4>2
        <5> QED BY <2>9, <5>1 DEF Nested, FramesOrdered
      <4> QED BY <4>1, <4>2
    <3> QED BY <3>1, <3>3, <3>4 DEF FramesOrdered
  <2>13. InnermostIsArray'
    BY <2>1, <2>2, <2>11 DEF InnermostIsArray, OpenLevel
  <2>14. LexTypeOK' /\ status' # "accepted"
    BY <2>1, EmitStatus DEF Nested, LexTypeOK, States, ValueStates, ElementStates
  <2> QED BY <2>1, <2>8, <2>12, <2>13, <2>14, Arrival DEF CommentStates, ResyncStates, BoundaryPlaces, KeyStates
<1> QED BY <1>1, <1>2

LEMMA ArrayDimSepStep ==
    ASSUME Nested, NEW b \in Bytes, ArrayDimSep(b)
    PROVE  Nested'
<1>1. /\ arr_frames' = [arr_frames EXCEPT ![array_nesting_level].in_dim_seq = TRUE]
      /\ Emit(<<Mark("dim_start")>>)
      /\ next_state' = "array_dim_sep"
      /\ UNCHANGED <<last_state, token_type, in_array_element, ver_checked, struct_nesting_level,
                     array_nesting_level, arr_used_max, curr_row_size, array_row_size, array_items,
                     value_type, skipping>>
  BY DEF ArrayDimSep
<1>2. array_nesting_level \in Levels /\ arr_frames[array_nesting_level] \in Frame
  BY DEF Nested, NestingTypeOK
<1>3. arr_frames' \in [Levels -> Frame] /\ \A i \in Levels : OpenLevel(i)' = OpenLevel(i)
  BY <1>1, <1>2 DEF Nested, NestingTypeOK, Frame, OpenLevel
<1>4. NestingTypeOK'
  BY <1>1, <1>3 DEF Nested, NestingTypeOK, skipping
<1>5. FramesOrdered'
  BY <1>1, <1>3, <1>4, SameLevels
<1>6. LexTypeOK' /\ status' # "accepted"
  BY <1>1, EmitStatus DEF Nested, LexTypeOK, States, BodyStates
<1> QED BY <1>1, <1>4, <1>5, <1>6, Arrival DEF CommentStates, ResyncStates, BoundaryPlaces, KeyStates, ElementStates,
                                              TextPlaces, ValueStates, LiteralStates, StringStates

\* One struct more or fewer, and the arrays as they were.
LEMMA StructIntroStep ==
    ASSUME Nested, NEW b \in Bytes, StructIntro(b)
    PROVE  Nested'
<1>1. CASE ErrorOn(b, <<>>, array_items)
  BY <1>1, ErrorStep DEF Nested, NestingTypeOK
<1>2. CASE ~ErrorOn(b, <<>>, array_items)
  <2>1. /\ struct_nesting_level # max_struct_nesting
        /\ Emit(<<Mark("struct_start")>>)
        /\ struct_nesting_level' = struct_nesting_level + 1
        /\ token_type' = "structure"
        /\ next_state' = "struct_intro"
        /\ UNCHANGED <<last_state, in_array_element, ver_checked, arrays, value_type, skipping>>
    BY <1>2 DEF StructIntro
  <2>2. NestingTypeOK'
    BY <2>1, LimitsAssumption DEF Nested, NestingTypeOK, arrays, skipping
  <2>3. \A i \in 1..array_nesting_level : OpenLevel(i) \in Nat
    BY LimitsAssumption DEF Nested, NestingTypeOK, OpenLevel, Levels, Frame
  <2>4. array_nesting_level \in Nat /\ struct_nesting_level \in Nat
    BY LimitsAssumption DEF Nested, NestingTypeOK, Levels
  <2>5. FramesOrdered'
    BY <2>1, <2>3, <2>4 DEF Nested, FramesOrdered, arrays, OpenLevel
  <2>6. ~InnermostIsArray'
    BY <2>1, <2>3, <2>4 DEF Nested, FramesOrdered, InnermostIsArray, arrays, OpenLevel
  <2>7. LexTypeOK' /\ status' # "accepted"
    BY <2>1, EmitStatus DEF Nested, LexTypeOK, States, KeyStates
  <2> QED BY <2>1, <2>2, <2>5, <2>6, <2>7, Arrival DEF CommentStates, ResyncStates, ElementStates,
                                                     TextPlaces, ValueStates, LiteralStates, StringStates
<1> QED BY <1>1, <1>2

LEMMA StructOutroStep ==
    ASSUME Nested, NEW b \in Bytes, StructOutro(b)
    PROVE  Nested'
<1>1. CASE ErrorOn(b, <<>>, array_items)
  BY <1>1, ErrorStep DEF Nested, NestingTypeOK
<1>2. CASE ~ErrorOn(b, <<>>, array_items)
  <2>1. /\ struct_nesting_level # 0
        /\ Emit(<<Mark("struct_end")>>)
        /\ struct_nesting_level' = struct_nesting_level - 1
        /\ next_state' = "struct_outro"
        /\ UNCHANGED <<last_state, token_type, in_array_element, ver_checked, arrays, value_type, skipping>>
    BY <1>2 DEF StructOutro
  <2>2. NestingTypeOK'
    BY <2>1, LimitsAssumption DEF Nested, NestingTypeOK, arrays, skipping
  <2>3. \A i \in 1..array_nesting_level : OpenLevel(i) \in Nat
    BY LimitsAssumption DEF Nested, NestingTypeOK, OpenLevel, Levels, Frame
  <2>4. array_nesting_level \in Nat /\ struct_nesting_level \in Nat
    BY LimitsAssumption DEF Nested, NestingTypeOK, Levels
  <2>5. ~InnermostIsArray
    BY DEF StructOutro, Nested, BoundaryOutsideArrays, Place, BoundaryPlaces, KeyStates, CommentStates
  <2>6. \A i \in 1..array_nesting_level : OpenLevel(i) < struct_nesting_level
    BY <2>3, <2>4, <2>5 DEF Nested, FramesOrdered, InnermostIsArray
  <2>7. FramesOrdered'
    BY <2>1, <2>3, <2>4, <2>6 DEF Nested, FramesOrdered, arrays, OpenLevel
  <2>8. LexTypeOK' /\ status' # "accepted"
    BY <2>1, EmitStatus DEF Nested, LexTypeOK, States, OutroStates
  <2> QED BY <2>1, <2>2, <2>7, <2>8, Arrival DEF CommentStates, ResyncStates, BoundaryPlaces, KeyStates,
                               ElementStates, TextPlaces, ValueStates, LiteralStates, StringStates
<1> QED BY <1>1, <1>2

LEMMA OctetStreamIntroStep ==
    ASSUME Nested, NEW b \in Bytes, OctetStreamIntro(b)
    PROVE  Nested'
<1>1. CASE Fail(<<>>)
  BY <1>1, FailStep
<1>2. CASE ~Fail(<<>>)
  <2>1. /\ Emit(<<Mark("octets_start")>>) /\ Unnested
        /\ token_type' = "octet_stream" /\ next_state' = "octet_stream_intro"
        /\ UNCHANGED <<last_state, in_array_element, ver_checked>>
    BY <1>2 DEF OctetStreamIntro
  <2>2. LexTypeOK' /\ status' # "accepted"
    BY <2>1, EmitStatus DEF Nested, LexTypeOK, States, BodyStates
  <2> QED BY <2>1, <2>2, SameNesting, Arrival DEF CommentStates, ResyncStates, BoundaryPlaces, KeyStates,
                               ElementStates, TextPlaces, ValueStates, LiteralStates, StringStates
<1> QED BY <1>1, <1>2

-----------------------------------------------------------------------------
(* Every step.                                                             *)

LEMMA DispatchStep ==
    ASSUME Nested, NEW b \in Bytes, Dispatch(b)
    PROVE  Nested'
<1>1. CASE Reject(b) \/ Blank(b) \/ ByteOrderMark(b)
  BY <1>1, RejectStep, BlankStep, ByteOrderMarkStep
<1>2. CASE CommentIntro(b) \/ CommentByte(b) \/ CommentOutro(b) \/ FirstCommentOutro(b)
  BY <1>2, CommentStep, FirstCommentOutroStep
<1>3. CASE IdentifierIntro(b) \/ CopyByte(b) \/ ValueIntro(b) \/ TypeIntro(b) \/ TypeOutro(b)
  BY <1>3, BeginsStep, CopyByteStep, ValueIntroStep, TypeOutroStep
<1>4. CASE ScalarIntro(b) \/ StringIntro(b) \/ StringStep(b) \/ ReferenceIndex(b) \/ InlineUnitIntro(b)
  BY <1>4, BeginsStep, TextStep
<1>5. CASE ValueOutro(b) \/ NewArrayValue(b) \/ ArrayOutro(b)
  BY <1>5, ValueOutroStep, NewArrayValueStep, ArrayOutroStep
<1>6. CASE ArrayIntro(b) \/ ArrayDimSep(b) \/ StructIntro(b) \/ StructOutro(b) \/ OctetStreamIntro(b)
  BY <1>6, ArrayIntroStep, ArrayDimSepStep, StructIntroStep, StructOutroStep, OctetStreamIntroStep
<1>7. CASE ResyncSkips(b) \/ ResyncOpenBracket(b) \/ ResyncCloseArray(b) \/ ResyncCloseStruct(b)
  BY <1>7, ResyncSkipsStep, ResyncOpenBracketStep, ResyncCloseArrayStep, ResyncCloseStructStep
<1>8. CASE ResyncSemicolon(b) \/ ResyncResumeIdentifier(b)
  BY <1>8, ResumeStep DEF ResyncSemicolon, ResyncResumeIdentifier, ResyncStates
<1> QED BY <1>1, <1>2, <1>3, <1>4, <1>5, <1>6, <1>7, <1>8 DEF Dispatch

LEMMA ByteStep ==
    ASSUME IInv, NEW b \in Bytes, Byte(b)
    PROVE  IInv'
<1>1. Nested'
  BY DispatchStep, SkipMalformedStep, MalformedCommentStep, MalformedTextStep DEF IInv, Byte
<1>2. flags' \in Flags
  BY DEF Byte, IInv, TypeOK
<1>3. utf8_need' \in {0, 1}
  BY DEF Byte, Fed
<1>4. again' \in Bytes \cup {"none"}
  BY DEF Byte, SkipMalformed, MalformedComment, MalformedText, IInv, TypeOK
<1> QED BY <1>1, <1>2, <1>3, <1>4 DEF IInv, TypeOK, Nested

\* Between an octet stream's start and its end nothing structural happens.
LEMMA OctetStep ==
    ASSUME IInv, OctetChunk \/ OctetStreamEnd
    PROVE  IInv'
<1>1. CASE OctetChunk
  <2>1. Nested'
    BY <1>1, EmitStatus, SameLexing DEF OctetChunk, lexing, IInv, Nested, LexTypeOK
  <2> QED BY <1>1, <2>1 DEF OctetChunk, IInv, TypeOK, Nested
<1>2. CASE OctetStreamEnd
  <2>1. /\ Unnested /\ token_type' = "unknown" /\ next_state' = "octet_stream_outro"
        /\ status' \in {"running", "failed"} /\ UNCHANGED <<last_state, in_array_element, ver_checked>>
    BY <1>2, EmitStatus DEF OctetStreamEnd
  <2>2. LexTypeOK'
    BY <2>1 DEF IInv, Nested, LexTypeOK, States, OutroStates
  <2>3. Nested'
    BY <2>1, <2>2, SameNesting, Arrival DEF IInv, CommentStates, ResyncStates, BoundaryPlaces, KeyStates,
                               ElementStates, TextPlaces, ValueStates, LiteralStates, StringStates
  <2> QED BY <1>2, <2>3 DEF OctetStreamEnd, IInv, TypeOK, Nested
<1> QED BY <1>1, <1>2

\* The end of the input is accepted at top level between two assignments:
\* there no array of the top level is open, and no other could be.
LEMMA EndOfInputStep ==
    ASSUME IInv, EndOfInput
    PROVE  IInv'
<1>1. CASE Fail(<<>>)
  <2>1. Nested'
    BY <1>1, FailStep DEF IInv
  <2> QED BY <2>1 DEF EndOfInput, IInv, TypeOK, Nested
<1>2. CASE ~Fail(<<>>)
  <2>1. Acceptable /\ Unnested /\ UNCHANGED lexing /\ status' \in {"accepted", "failed"}
    BY <1>2 DEF EndOfInput
  <2>2. Place \in BoundaryPlaces
    BY <2>1 DEF Acceptable, Place, BoundaryPlaces, KeyStates, CommentStates
  <2>3. struct_nesting_level = 0 /\ array_nesting_level = 0
    <3>1. ~InnermostIsArray /\ struct_nesting_level = 0
      BY <2>1, <2>2 DEF Acceptable, IInv, Nested, BoundaryOutsideArrays
    <3>2. array_nesting_level \in Levels /\ array_nesting_level \in Nat
      BY LimitsAssumption DEF IInv, Nested, NestingTypeOK, Levels
    <3>3. array_nesting_level > 0 => OpenLevel(array_nesting_level) \in Nat /\ OpenLevel(array_nesting_level) <= 0
      BY <3>1, <3>2 DEF IInv, Nested, NestingTypeOK, FramesOrdered, OpenLevel, Frame
    <3> QED BY <3>1, <3>2, <3>3 DEF InnermostIsArray
  <2>4. NestingTypeOK' /\ FramesOrdered' /\ (InnermostIsArray' <=> InnermostIsArray)
    BY <2>1, SameNesting DEF IInv
  <2>5. LexTypeOK' /\ Place' = Place /\ next_state' = next_state /\ in_array_element' = in_array_element
    BY <2>1 DEF lexing, IInv, Nested, LexTypeOK, Place
  <2>6. AcceptedIsClosed' /\ ResumesOutward'
    BY <2>1, <2>3, <2>5 DEF AcceptedIsClosed, ResumesOutward, Unnested, arrays, skipping, IInv, Nested
  <2>7. Nested'
    BY <2>4, <2>5, <2>6 DEF IInv, Nested, BoundaryOutsideArrays, RowsInsideArrays, InlineUnitsOutsideArrays
  <2> QED BY <2>7 DEF EndOfInput, IInv, TypeOK, Nested
<1> QED BY <1>1, <1>2

LEMMA RunStep ==
    ASSUME IInv, BeginRead \/ InputFails
    PROVE  IInv'
<1>1. CASE BeginRead
  <2>1. Nested'
    BY <1>1, EmitStatus, SameLexing DEF BeginRead, lexing, IInv, Nested, LexTypeOK
  <2> QED BY <1>1, <2>1 DEF BeginRead, IInv, TypeOK, Nested
<1>2. CASE InputFails
  <2>1. Nested'
    BY <1>2, FailStep DEF InputFails, IInv
  <2> QED BY <1>2, <2>1 DEF InputFails, IInv, TypeOK, Nested
<1> QED BY <1>1, <1>2

LEMMA InitIInv == Init => IInv
<1> SUFFICES ASSUME Init PROVE IInv
  OBVIOUS
<1>1. ZeroFrame \in Frame /\ 0 \in Levels
  BY LimitsAssumption DEF ZeroFrame, BlankFrame, Frame, Types, Levels
<1>2. NestingTypeOK
  BY <1>1, LimitsAssumption DEF Init, NestingTypeOK, Types
<1>3. LexTypeOK
  BY DEF Init, LexTypeOK, States, KeyStates
<1>4. FramesOrdered /\ ~InnermostIsArray
  BY DEF Init, FramesOrdered, InnermostIsArray
<1>5. Place = "first_bom" /\ next_state = "first_bom" /\ status = "opened"
  BY DEF Init, Place, CommentStates
<1>6. "first_bom" \notin ElementStates \cup TextPlaces \cup ResyncStates
  BY DEF ElementStates, TextPlaces, ValueStates, LiteralStates, StringStates, ResyncStates
<1>7. Nested
  BY <1>2, <1>3, <1>4, <1>5, <1>6 DEF Nested, BoundaryOutsideArrays, RowsInsideArrays, InlineUnitsOutsideArrays,
                                       ResumesOutward, AcceptedIsClosed
<1> QED BY <1>2, <1>3, <1>7 DEF IInv, TypeOK, Init

LEMMA NextIInv == IInv /\ [Next]_vars => IInv'
<1> SUFFICES ASSUME IInv, [Next]_vars PROVE IInv'
  OBVIOUS
<1>1. CASE UNCHANGED vars
  BY <1>1 DEF vars, lexing, arrays, skipping, IInv, Nested, TypeOK, LexTypeOK, NestingTypeOK, FramesOrdered,
              BoundaryOutsideArrays, RowsInsideArrays, InlineUnitsOutsideArrays, ResumesOutward, AcceptedIsClosed,
              Place, InnermostIsArray, OpenLevel
<1>2. CASE Next
  BY <1>2, ByteStep, OctetStep, EndOfInputStep, RunStep DEF Next
<1> QED BY <1>1, <1>2

-----------------------------------------------------------------------------
\* The inductive invariant holds in every state the reader can reach.
THEOREM Invariance == Spec => []IInv
<1> QED BY InitIInv, NextIInv, PTL DEF Spec

\* Type correctness: every variable keeps its shape and every limit the caller
\* set holds, whatever bytes come and whatever is recovered from.
THEOREM TypeCorrect == Spec => []TypeOK
<1>1. IInv => TypeOK
  BY DEF IInv
<1> QED BY <1>1, Invariance, PTL

\* The frames nest in the structs, for every nesting limit.
THEOREM FramesNest == Spec => []FramesOrdered
<1>1. IInv => FramesOrdered
  BY DEF IInv, Nested
<1> QED BY <1>1, Invariance, PTL

\* No key and no '}' is ever read while the innermost open container is an array.
THEOREM KeysOutsideArrays == Spec => []BoundaryOutsideArrays
<1>1. IInv => BoundaryOutsideArrays
  BY DEF IInv, Nested
<1> QED BY <1>1, Invariance, PTL

\* Elements, separators and rows are only ever read inside an array.
THEOREM RowsStayInside == Spec => []RowsInsideArrays
<1>1. IInv => RowsInsideArrays
  BY DEF IInv, Nested
<1> QED BY <1>1, Invariance, PTL

\* The flag that refuses an element's inline unit agrees with the frames.
THEOREM NoUnitOnElements == Spec => []InlineUnitsOutsideArrays
<1>1. IInv => InlineUnitsOutsideArrays
  BY DEF IInv, Nested
<1> QED BY <1>1, Invariance, PTL

\* An accepted document has closed everything it opened.
THEOREM AcceptedDocumentsClosed == Spec => []AcceptedIsClosed
<1>1. IInv => AcceptedIsClosed
  BY DEF IInv, Nested
<1> QED BY <1>1, Invariance, PTL

-----------------------------------------------------------------------------
(* The plain scan.  For every handler: the reader's context moves as the   *)
(* scan does.                                                              *)

\* The alternatives of the definitions by CASE, for provers that know none.
LEMMA ScanCases ==
    ASSUME NEW b
    PROVE  /\ ScannedFrom("code", b) = IF b = "quote" THEN "string" ELSE IF b = "hash" THEN "comment" ELSE "code"
           /\ ScannedFrom("string", b) = IF b = "quote" THEN "code" ELSE IF b = "bsl" THEN "escape" ELSE "string"
           /\ ScannedFrom("escape", b) = "string"
           /\ ScannedFrom("comment", b) = IF b = "nl" THEN "code" ELSE "comment"
BY DEF ScannedFrom

LEMMA TargetCases ==
    ASSUME NEW b
    PROVE  /\ next_state \in {"string", "escape"} => ResyncTarget(b) = "resync_string"
           /\ next_state = "esc_hex" => ResyncTarget(b) = IF b = "quote" THEN "resync" ELSE "resync_string"
           /\ next_state \notin StringStates =>
                ResyncTarget(b) = IF b = "quote" THEN "resync_string"
                                  ELSE IF b = "hash" THEN "resync_comment" ELSE "resync"
<1>1. next_state \in {"string", "escape"} => ResyncTarget(b) = "resync_string"
  BY DEF ResyncTarget
<1>2. next_state = "esc_hex" => ResyncTarget(b) = IF b = "quote" THEN "resync" ELSE "resync_string"
  BY DEF ResyncTarget
<1>3. next_state \notin StringStates =>
        ResyncTarget(b) = IF b = "quote" THEN "resync_string" ELSE IF b = "hash" THEN "resync_comment" ELSE "resync"
  BY DEF ResyncTarget, StringStates
<1> QED BY <1>1, <1>2, <1>3

TextContexts == {"string", "esc_hex", "resync_string", "escape", "resync_string_escape",
                 "comment", "first_comment", "resync_comment"}

LEMMA ContextCases ==
    ASSUME NEW s
    PROVE  /\ s \in {"string", "esc_hex", "resync_string"} => ContextIn(s) = "string"
           /\ s \in {"escape", "resync_string_escape"} => ContextIn(s) = "escape"
           /\ s \in {"comment", "first_comment", "resync_comment"} => ContextIn(s) = "comment"
           /\ s \notin TextContexts => ContextIn(s) = "code"
BY DEF ContextIn, TextContexts

\* An error, wherever a handler finds it, leaves the skip where the scan is.
LEMMA ErrorScans ==
    ASSUME NEW b \in Bytes, NEW evs, NEW items, ErrorOn(b, evs, items), status' = "running",
           next_state \notin ResyncStates,
           next_state \in CommentStates => b = "nl",
           next_state = "string" => b \notin {"quote", "bsl"},
           ~(next_state = "esc_hex" /\ b = "bsl")
    PROVE  Context' = ScannedFrom(Context, b) /\ last_state' = "none"
<1>1. /\ next_state' = IF ResyncTarget(b) = "resync" /\ b = "semi" THEN "value_outro" ELSE ResyncTarget(b)
      /\ last_state' = "none"
  BY DEF ErrorOn, Fail, EnterResync
<1>2. CASE next_state \in StringStates
  BY <1>1, <1>2, TargetCases, ScanCases, ContextCases DEF Context, StringStates, TextContexts
<1>3. CASE next_state \in CommentStates
  BY <1>1, <1>3, TargetCases, ScanCases, ContextCases DEF Context, StringStates, CommentStates, TextContexts
<1>4. CASE next_state \notin StringStates \cup CommentStates
  BY <1>1, <1>4, TargetCases, ScanCases, ContextCases
     DEF Context, StringStates, CommentStates, ResyncStates, TextContexts
<1> QED BY <1>2, <1>3, <1>4

\* The rows of the state table, by the contexts they are read in.
LEMMA StatesApart ==
    /\ \A s \in States \ (StringStates \cup CommentStates \cup ResyncStates) : s \notin TextContexts
    /\ StringStates \cup CommentStates \subseteq TextContexts
    /\ (KeyStates \cup ValueStates \cup LiteralStates \cup OutroStates \cup BodyStates)
         \cap TextContexts = {}
BY DEF States, TextContexts, StringStates, CommentStates, ResyncStates, KeyStates, ValueStates,
       ElementStates, LiteralStates, OutroStates, BodyStates

\* A handler of code that comes to another row of code.
LEMMA CodeScans ==
    ASSUME NEW b \in Bytes, b \notin {"quote", "hash"}, next_state \notin TextContexts, next_state' \notin TextContexts
    PROVE  Context' = ScannedFrom(Context, b)
BY ScanCases, ContextCases DEF Context

\* What the rows of strings and comments leave to Reject.
LEMMA RowCases ==
    /\ Row("string") = Bytes \ {"nul"} /\ Unsure("string") = Row("string") \ {"quote", "bsl"}
    /\ Row("comment") = Bytes \ {"nul"} /\ Unsure("comment") = {}
    /\ Row("first_comment") = Bytes \ {"nul"} /\ Unsure("first_comment") = {"cont"}
    /\ \A s \in ResyncStates : Row(s) = Bytes /\ Unsure(s) = {}
    /\ "hash" \notin Row("escape") /\ "hash" \notin Row("esc_hex")
<1> USE DEF StringStates, CommentStates, ResyncStates, KeyStates, ValueStates, ElementStates, OutroStates
<1>1. /\ Row("string") = StringRow("string") /\ Row("escape") = StringRow("escape")
      /\ Row("esc_hex") = StringRow("esc_hex")
      /\ Row("comment") = BoundaryRow("comment") /\ Row("first_comment") = BoundaryRow("first_comment")
      /\ \A s \in ResyncStates : Row(s) = Bytes
  BY DEF Row
<1>2. /\ Unsure("string") = Row("string") \ {"quote", "bsl"} /\ Unsure("comment") = {}
      /\ Unsure("first_comment") = {"cont"}
      /\ \A s \in ResyncStates : Unsure(s) = {}
  BY DEF Unsure
<1>3. /\ StringRow("string") = Bytes \ {"nul"} /\ "hash" \notin StringRow("escape")
      /\ "hash" \notin StringRow("esc_hex")
  BY DEF StringRow
<1>4. BoundaryRow("comment") = Bytes \ {"nul"} /\ BoundaryRow("first_comment") = Bytes \ {"nul"}
  BY DEF BoundaryRow
<1> QED BY <1>1, <1>2, <1>3, <1>4

\* The bytes of the rows that are told apart by a "\" or an annotation.
LEMMA EscapeRows ==
    /\ Row("escape") = {"quote", "bsl", "id"} /\ Row("esc_hex") = {"id", "lcb", "rcb"}
    /\ Row("type_body") = TypeRow /\ Row("inline_unit") = InlineUnitRow
<1> USE DEF StringStates, CommentStates, ResyncStates, KeyStates, ValueStates, ElementStates, OutroStates
<1>1. /\ Row("escape") = StringRow("escape") /\ Row("esc_hex") = StringRow("esc_hex")
      /\ Row("type_body") = TypeRow /\ Row("inline_unit") = InlineUnitRow
  BY DEF Row
<1>2. StringRow("escape") = {"quote", "bsl", "id"} /\ StringRow("esc_hex") = {"id", "lcb", "rcb"}
  BY DEF StringRow
<1> QED BY <1>1, <1>2

LEMMA CopyCases ==
    ASSUME NEW b, CopyByte(b)
    PROVE  /\ Moves(next_state) /\ b \in Row(next_state)
           /\ next_state \in {"identifier", "type_body", "scalar", "inline_unit", "string", "reference_index", "esc_hex"}
           /\ next_state = "string" => b \notin {"quote", "bsl"}
           /\ next_state # "string" => b \notin {"quote", "hash"}
<1>1. /\ Moves(next_state) /\ b \in Row(next_state)
      /\ next_state \in {"identifier", "type_body", "scalar", "inline_unit", "string", "reference_index", "esc_hex"}
  BY DEF CopyByte
<1>2. /\ next_state = "string" => b \notin {"quote", "bsl"}
      /\ next_state \in {"type_body", "inline_unit"} => b # "hash"
      /\ next_state \in {"identifier", "scalar", "reference_index", "esc_hex"} => b \notin {"quote", "hash"}
  BY DEF CopyByte
<1>3. "quote" \notin TypeRow /\ "quote" \notin InlineUnitRow
  BY DEF TypeRow, InlineUnitRow
<1> QED BY <1>1, <1>2, <1>3, EscapeRows

\* What a handler owes the scan; a character never begins where a "\" has
\* taken the next byte.
Scans(b) ==
    /\ Context' = ScannedFrom(Context, b)
    /\ last_state' \notin StringStates
    /\ b = "lead" => next_state' \notin {"escape", "esc_hex"}

\* Before a byte that is read.
Scannable(b) ==
    /\ LexTypeOK
    /\ last_state \notin StringStates
    /\ ~(next_state = "esc_hex" /\ b = "bsl")

LEMMA ErrorKeepsScan ==
    ASSUME NEW b \in Bytes, Scannable(b), NEW evs, NEW items, ErrorOn(b, evs, items), status' = "running",
           next_state \notin ResyncStates,
           next_state \in CommentStates => b = "nl",
           next_state = "string" => b \notin {"quote", "bsl"}
    PROVE  Scans(b)
<1>1. Context' = ScannedFrom(Context, b) /\ last_state' = "none"
  BY ErrorScans DEF Scannable
<1>2. next_state' = IF ResyncTarget(b) = "resync" /\ b = "semi" THEN "value_outro" ELSE ResyncTarget(b)
  BY DEF ErrorOn, Fail
<1>3. next_state' \notin {"escape", "esc_hex"}
  BY <1>2, TargetCases DEF StringStates
<1> QED BY <1>1, <1>3 DEF Scans, StringStates

LEMMA RejectScans ==
    ASSUME NEW b \in Bytes, Scannable(b), Reject(b), status' = "running"
    PROVE  Scans(b)
<1>1. CASE next_state \in CommentStates
  <2>1. b # "nl"
    BY <1>1, RowCases DEF Reject, CommentStates, Bytes
  <2>2. next_state' = next_state /\ last_state' = last_state
    BY <1>1 DEF Reject, CommentErrorOn, Fail
  <2>3. Context = "comment" /\ Context' = "comment"
    BY <1>1, <2>2, ContextCases DEF Context, CommentStates
  <2> QED BY <1>1, <2>1, <2>2, <2>3, ScanCases DEF Scans, Scannable, CommentStates
<1>2. CASE next_state \notin CommentStates
  <2>1. ErrorOn(b, <<>>, array_items)
    BY <1>2 DEF Reject
  <2>2. next_state \notin ResyncStates /\ (next_state = "string" => b \notin {"quote", "bsl"})
    BY RowCases DEF Reject, Bytes
  <2> QED BY <1>2, <2>1, <2>2, ErrorKeepsScan
<1> QED BY <1>1, <1>2

LEMMA CommentScans ==
    ASSUME NEW b \in Bytes, Scannable(b), status' = "running",
           CommentIntro(b) \/ CommentByte(b) \/ CommentOutro(b) \/ FirstCommentOutro(b)
    PROVE  Scans(b)
<1> USE DEF Scannable
<1>1. CASE CommentIntro(b)
  <2>1. next_state \notin TextContexts
    BY <1>1, RowCases, StatesApart DEF CommentIntro, LexTypeOK, StringStates
  <2>2. next_state' \in CommentStates /\ last_state' = next_state /\ b = "hash"
    BY <1>1 DEF CommentIntro, CommentStates
  <2>3. Context = "code" /\ Context' = "comment"
    BY <2>1, <2>2, ContextCases DEF Context, CommentStates
  <2> QED BY <2>1, <2>2, <2>3, ScanCases, StatesApart DEF Scans, CommentStates
<1>2. CASE CommentByte(b)
  <2>1. next_state' = next_state /\ last_state' = last_state /\ b # "nl" /\ next_state \in CommentStates
    BY <1>2 DEF CommentByte, Moves
  <2>2. Context = "comment" /\ Context' = "comment"
    BY <2>1, ContextCases DEF Context, CommentStates
  <2> QED BY <2>1, <2>2, ScanCases DEF Scans, CommentStates
<1>3. CASE CommentOutro(b)
  <2>1. next_state = "comment" /\ next_state' = last_state /\ last_state' = "none" /\ b = "nl"
    BY <1>3 DEF CommentOutro
  <2>2. last_state \notin TextContexts
    BY <2>1, StatesApart DEF LexTypeOK
  <2>3. Context = "comment" /\ Context' = "code"
    BY <2>1, <2>2, ContextCases DEF Context
  <2> QED BY <2>1, <2>3, ScanCases DEF Scans, StringStates
<1>4. CASE FirstCommentOutro(b)
  <2>1. b = "nl" /\ next_state = "first_comment"
    BY <1>4 DEF FirstCommentOutro
  <2>2. CASE next_state' = "first_bom" /\ last_state' = "none"
    <3>1. Context = "comment" /\ Context' = "code"
      BY <2>1, <2>2, ContextCases DEF Context, TextContexts
    <3> QED BY <2>1, <2>2, <3>1, ScanCases DEF Scans, StringStates
  <2>3. CASE ErrorOn(b, <<>>, array_items)
    BY <2>1, <2>3, ErrorKeepsScan DEF ResyncStates
  <2> QED BY <1>4, <2>2, <2>3 DEF FirstCommentOutro, Fail
<1> QED BY <1>1, <1>2, <1>3, <1>4

\* A handler of code, through to other code or into an error.
LEMMA CodeHandlerScans ==
    ASSUME NEW b \in Bytes, Scannable(b), status' = "running", next_state \notin TextContexts \cup ResyncStates,
           \/ /\ b \notin {"quote", "hash"} /\ last_state' = last_state /\ next_state' \notin TextContexts
           \/ \E evs, items : ErrorOn(b, evs, items)
    PROVE  Scans(b)
<1>1. CASE b \notin {"quote", "hash"} /\ last_state' = last_state /\ next_state' \notin TextContexts
  BY <1>1, CodeScans DEF Scans, Scannable, TextContexts
<1>2. ASSUME NEW evs, NEW items, ErrorOn(b, evs, items)
      PROVE  Scans(b)
  BY <1>2, ErrorKeepsScan DEF TextContexts, CommentStates
<1> QED BY <1>1, <1>2

LEMMA LiteralScans ==
    ASSUME NEW b \in Bytes, Scannable(b), status' = "running",
           \/ Blank(b) \/ ByteOrderMark(b) \/ IdentifierIntro(b) \/ CopyByte(b)
           \/ TypeIntro(b) \/ ScalarIntro(b) \/ StringIntro(b) \/ StringStep(b)
           \/ ReferenceIndex(b) \/ InlineUnitIntro(b)
    PROVE  Scans(b)
<1> USE DEF Scans, Scannable, Context, TextContexts, StringStates
<1>1. CASE Blank(b)
  <2>1. next_state' = next_state /\ last_state' = last_state /\ b = "nl" /\ next_state \in States
        /\ next_state \notin CommentStates \cup ResyncStates /\ b \in Row(next_state)
    BY <1>1 DEF Blank, Moves, LexTypeOK
  <2>2. "nl" \notin Row("escape") /\ "nl" \notin Row("esc_hex")
    BY RowCases, EscapeRows
  <2>3. next_state = "string" \/ next_state \notin TextContexts
    BY <2>1, <2>2, StatesApart
  <2> QED BY <2>1, <2>3, ScanCases, ContextCases
<1>2. CASE ByteOrderMark(b)
  BY <1>2, ScanCases, ContextCases DEF ByteOrderMark, Moves
<1>3. CASE IdentifierIntro(b)
  BY <1>3, ScanCases, ContextCases DEF IdentifierIntro, Begins, KeyStates
<1>4. CASE CopyByte(b)
  <2>1. next_state' = next_state /\ last_state' = last_state
    BY <1>4, CopyCases DEF Moves
  <2>2. next_state = "esc_hex" => b \in {"id", "lcb", "rcb"}
    BY <1>4, CopyCases, EscapeRows
  <2> QED BY <1>4, <2>1, <2>2, CopyCases, ScanCases, ContextCases
<1>5. CASE TypeIntro(b)
  BY <1>5, ScanCases, ContextCases DEF TypeIntro, Begins, ElementStates
<1>6. CASE ScalarIntro(b)
  BY <1>6, ScanCases, ContextCases DEF ScalarIntro, Begins, ElementStates, ValueStates
<1>7. CASE StringIntro(b)
  BY <1>7, ScanCases, ContextCases DEF StringIntro, Begins, ElementStates, ValueStates
<1>8. CASE StringStep(b)
  BY <1>8, ScanCases, ContextCases DEF StringStep, Moves
<1>9. CASE ReferenceIndex(b)
  BY <1>9, ScanCases, ContextCases DEF ReferenceIndex, Moves
<1>10. CASE InlineUnitIntro(b)
  BY <1>10, ScanCases, ContextCases DEF InlineUnitIntro, Moves
<1> QED BY <1>1, <1>2, <1>3, <1>4, <1>5, <1>6, <1>7, <1>8, <1>9, <1>10

LEMMA ValueScans ==
    ASSUME NEW b \in Bytes, Scannable(b), status' = "running",
           \/ ValueIntro(b) \/ TypeOutro(b) \/ ValueOutro(b) \/ NewArrayValue(b) \/ ArrayOutro(b)
           \/ ArrayIntro(b) \/ ArrayDimSep(b) \/ StructIntro(b) \/ StructOutro(b) \/ OctetStreamIntro(b)
    PROVE  Scans(b)
<1>1. next_state \notin TextContexts \cup ResyncStates
  BY DEF ValueIntro, TypeOutro, ValueOutro, NewArrayValue, ArrayOutro, ArrayIntro, ArrayDimSep, StructIntro,
         StructOutro, OctetStreamIntro, Ends, TextContexts, ResyncStates, ValueStates, ElementStates,
         LiteralStates, OutroStates, KeyStates
<1> USE <1>1, CodeHandlerScans
<1>2. CASE ValueIntro(b) \/ TypeOutro(b)
  BY <1>2 DEF ValueIntro, TypeOutro, TextContexts
<1>3. CASE ValueOutro(b)
  BY <1>3 DEF ValueOutro, FinalizeFails, TextContexts
<1>4. CASE NewArrayValue(b)
  BY <1>4 DEF NewArrayValue, FinalizeFails, TextContexts
<1>5. CASE ArrayOutro(b)
  BY <1>5 DEF ArrayOutro, FinalizeFails, TextContexts
<1>6. CASE ArrayIntro(b)
  BY <1>6 DEF ArrayIntro, TextContexts
<1>7. CASE ArrayDimSep(b)
  BY <1>7 DEF ArrayDimSep, TextContexts
<1>8. CASE StructIntro(b)
  BY <1>8 DEF StructIntro, TextContexts
<1>9. CASE StructOutro(b)
  BY <1>9 DEF StructOutro, TextContexts
<1>10. CASE OctetStreamIntro(b)
  BY <1>10 DEF OctetStreamIntro, Fail, TextContexts
<1> QED BY <1>2, <1>3, <1>4, <1>5, <1>6, <1>7, <1>8, <1>9, <1>10

LEMMA SkipScans ==
    ASSUME NEW b \in Bytes, Scannable(b), status' = "running",
           \/ ResyncSkips(b) \/ ResyncOpenBracket(b) \/ ResyncCloseArray(b) \/ ResyncCloseStruct(b)
           \/ ResyncSemicolon(b) \/ ResyncResumeIdentifier(b)
    PROVE  Scans(b)
<1> USE ScanCases, ContextCases DEF Scans, Scannable, Context, TextContexts
<1>1. CASE ResyncSkips(b)
  <2>1. /\ last_state' = last_state
        /\ \/ /\ next_state \in {"resync", "resync_dot"} /\ b \notin {"quote", "hash"}
              /\ next_state' \in {"resync", "resync_dot"}
           \/ next_state \in {"resync", "resync_dot"} /\ b = "quote" /\ next_state' = "resync_string"
           \/ next_state \in {"resync", "resync_dot"} /\ b = "hash" /\ next_state' = "resync_comment"
           \/ /\ next_state = "resync_string"
              /\ next_state' = IF b = "quote" THEN "resync" ELSE IF b = "bsl" THEN "resync_string_escape"
                               ELSE "resync_string"
           \/ next_state = "resync_string_escape" /\ next_state' = "resync_string"
           \/ next_state = "resync_comment" /\ next_state' = IF b = "nl" THEN "resync" ELSE "resync_comment"
    BY <1>1 DEF ResyncSkips, Moves
  <2> QED BY <2>1
<1>2. CASE ResyncOpenBracket(b)
  BY <1>2 DEF ResyncOpenBracket
<1>3. CASE ResyncCloseArray(b)
  BY <1>3 DEF ResyncCloseArray
<1>4. CASE ResyncCloseStruct(b)
  BY <1>4 DEF ResyncCloseStruct
<1>5. CASE ResyncSemicolon(b)
  BY <1>5 DEF ResyncSemicolon, Resume
<1>6. CASE ResyncResumeIdentifier(b)
  BY <1>6 DEF ResyncResumeIdentifier, Resume
<1> QED BY <1>1, <1>2, <1>3, <1>4, <1>5, <1>6

LEMMA DispatchScans ==
    ASSUME NEW b \in Bytes, Scannable(b), Dispatch(b), status' = "running"
    PROVE  Scans(b)
BY RejectScans, CommentScans, LiteralScans, ValueScans, SkipScans DEF Dispatch

-----------------------------------------------------------------------------
(* A byte that is not UTF-8.                                               *)

\* A byte that cuts a character short is left to be read again where it
\* still counts, and has done its part where it does not.
Rereads(b) ==
    /\ last_state' \notin StringStates
    /\ next_state' \notin {"escape", "esc_hex"}
    /\ again' \in {"none", b}
    /\ again' = b => Cuts /\ next_state' \in CommentStates \cup ResyncStates
    /\ IF again' = "none" THEN Context' = ScannedFrom(Context, b) /\ (Cuts => b # "lead")
       ELSE ScannedFrom(Context', b) = ScannedFrom(Context, b)

LEMMA MalformedRereads ==
    ASSUME NEW b \in Bytes, Scannable(b), IsMalformed(b), status' = "running",
           utf8_need \in {0, 1}, Cuts => next_state \notin {"escape", "esc_hex"},
           ~(next_state = "resync_string_escape" /\ ~Cuts),
           SkipMalformed(b) \/ MalformedComment(b) \/ MalformedText(b)
    PROVE  Rereads(b)
<1> USE ScanCases, ContextCases DEF Rereads, Context, TextContexts, Scannable
<1>1. "none" \notin Bytes /\ (~Cuts => b = "cont")
  BY DEF Bytes, IsMalformed, Cuts
<1>2. CASE SkipMalformed(b)
  <2>1. /\ next_state \in ResyncStates /\ last_state' = last_state
        /\ next_state' = IF next_state = "resync_dot" THEN "resync" ELSE next_state
        /\ again' = IF Cuts THEN b ELSE "none"
    BY <1>2 DEF SkipMalformed, Moves
  <2> QED BY <1>1, <2>1 DEF ResyncStates
<1>3. CASE MalformedComment(b)
  <2>1. /\ next_state \in CommentStates
        /\ next_state' = IF ~(Cuts /\ b = "nl") THEN next_state
                         ELSE IF next_state = "comment" THEN last_state ELSE "first_bom"
        /\ last_state' = IF Cuts /\ b = "nl" THEN "none" ELSE last_state
        /\ again' = IF Cuts /\ ~(Cuts /\ b = "nl") THEN b ELSE "none"
    BY <1>3 DEF MalformedComment, Fail
  <2>2. next_state = "comment" => last_state \notin TextContexts
    BY StatesApart DEF LexTypeOK
  <2> QED BY <1>1, <2>1, <2>2 DEF CommentStates, StringStates
<1>4. CASE MalformedText(b)
  <2>1. PICK base : EnterResync(base, array_items)
    BY <1>4 DEF MalformedText, Fail
  <2>2. /\ next_state \notin ResyncStates \cup CommentStates /\ last_state' = "none"
        /\ next_state' = ResyncTarget(b)
        /\ again' = IF Cuts /\ b # "nl" /\ (b \in {"quote", "hash"} => next_state \in StringStates)
                    THEN b ELSE "none"
    BY <1>4, <2>1 DEF MalformedText, Fail, EnterResync
  <2>3. ResyncTarget(b) \in ResyncStates /\ "none" \notin StringStates
    BY TargetCases DEF StringStates, ResyncStates
  <2>4. CASE next_state \in StringStates
    BY <1>1, <2>2, <2>3, <2>4, TargetCases DEF StringStates, ResyncStates, Cuts
  <2>5. CASE next_state \notin StringStates
    <3>1. Context = "code"
      BY <2>2, <2>5 DEF StringStates, CommentStates, ResyncStates
    <3> QED BY <1>1, <2>2, <2>3, <2>5, <3>1, TargetCases DEF ResyncStates, Cuts
  <2> QED BY <2>4, <2>5
<1> QED BY <1>2, <1>3, <1>4

-----------------------------------------------------------------------------
(* The invariant of the scan.                                              *)

LEMMA LexStarts == LexInit => LexInv
BY ContextCases, ScanCases DEF LexInit, Init, LexInv, Context,
                               StringStates, TextContexts

\* The one byte of a handler after which the scan is lost is an error.
LEMMA CutEscape ==
    ASSUME next_state = "esc_hex", Dispatch("bsl"), status' = "running"
    PROVE  last_state' = "none"
<1>1. Reject("bsl")
  BY CopyCases, EscapeRows
     DEF Dispatch, Blank, ByteOrderMark, CommentIntro, CommentByte, CommentOutro, FirstCommentOutro, IdentifierIntro,
         ValueIntro, TypeIntro, TypeOutro, ScalarIntro, StringIntro, StringStep, ReferenceIndex, InlineUnitIntro,
         ValueOutro, NewArrayValue, ArrayOutro, ArrayIntro, ArrayDimSep, StructIntro, StructOutro, OctetStreamIntro,
         ResyncSkips, ResyncOpenBracket, ResyncCloseArray, ResyncCloseStruct, ResyncSemicolon,
         ResyncResumeIdentifier, CommentStates
<1> QED BY <1>1 DEF Reject, ErrorOn, Fail, EnterResync, CommentStates

\* A byte read for the first time moves the scan with it.
LEMMA FreshByteKeeps ==
    ASSUME IInv, LexInv, NEW b \in Bytes, LexByte(b), status' = "running", again = "none"
    PROVE  LexInv'
<1>1. /\ status = "running" /\ scan' = ScannedFrom(scan, b) /\ within' = IF b = "lead" THEN 1 ELSE 0
      /\ astray' = "no" => astray = "no" /\ Deviation(b) = "no"
      /\ LexTypeOK /\ last_state \notin StringStates /\ utf8_need \in {0, 1}
      /\ utf8_need = 1 => next_state \notin {"escape", "esc_hex"}
  BY DEF LexByte, Byte, Scanned, IInv, TypeOK, LexInv
<1>2. astray' = "no" => /\ Context = scan
                        /\ ~(next_state = "esc_hex" /\ b = "bsl")
                        /\ ~(next_state = "resync_string_escape" /\ utf8_need = 0 /\ b = "cont")
  BY <1>1 DEF LexInv, LexicalAgreement, Reading, Deviation
<1>3. "none" \notin Bytes /\ "cont" # "lead"
  BY DEF Bytes
<1>4. CASE ~IsMalformed(b)
  <2>1. Dispatch(b) /\ utf8_need' = Fed(b) /\ again' = "none"
    BY <1>4 DEF LexByte, Byte
  <2>2. Fed(b) = IF b = "lead" /\ ~(next_state = "resync_dot" /\ next_state' = "identifier") THEN 1 ELSE 0
    BY DEF Fed
  <2>3. last_state' \notin StringStates /\ (b = "lead" => next_state' \notin {"escape", "esc_hex"})
    <3>1. CASE next_state = "esc_hex" /\ b = "bsl"
      BY <1>1, <2>1, <3>1, CutEscape DEF StringStates
    <3>2. CASE ~(next_state = "esc_hex" /\ b = "bsl")
      BY <1>1, <2>1, <3>2, DispatchScans DEF Scannable, Scans
    <3> QED BY <3>1, <3>2
  <2>4. astray' = "no" => Context' = scan'
    BY <1>1, <1>2, <2>1, DispatchScans DEF Scannable, Scans
  <2> QED BY <1>1, <2>1, <2>2, <2>3, <2>4 DEF LexInv
<1>5. CASE IsMalformed(b)
  <2>1. utf8_need' = 0 /\ (SkipMalformed(b) \/ MalformedComment(b) \/ MalformedText(b))
    BY <1>5 DEF LexByte, Byte
  <2>2. (utf8_need = 0 => b = "cont") /\ (utf8_need = 1 => b # "cont") /\ (Cuts <=> utf8_need = 1)
    BY <1>1, <1>5 DEF IsMalformed, Cuts
  <2>3. CASE ~(next_state = "esc_hex" /\ b = "bsl") /\ ~(next_state = "resync_string_escape" /\ ~Cuts)
    <3>1. Rereads(b)
      BY <1>1, <1>5, <2>1, <2>2, <2>3, MalformedRereads DEF Scannable
    <3>2. again' = "none" => within' = 0
      BY <1>1, <1>3, <2>2, <3>1 DEF Rereads
    <3>3. again' = "none" /\ astray' = "no" => Context' = scan'
      BY <1>1, <1>2, <3>1 DEF Rereads
    <3>4. again' # "none" /\ astray' = "no" => scan' = ScannedFrom(Context', again')
      BY <1>1, <1>2, <3>1 DEF Rereads
    <3>5. again' # "none" => again' = b /\ b # "cont" /\ next_state' \in CommentStates \cup ResyncStates
      BY <2>2, <3>1 DEF Rereads
    <3> QED BY <1>1, <2>1, <3>1, <3>2, <3>3, <3>4, <3>5
            DEF Rereads, LexInv
  <2>4. CASE next_state = "resync_string_escape" /\ ~Cuts
    <3>1. next_state' = next_state /\ last_state' = last_state /\ again' = "none"
      BY <2>1, <2>4 DEF SkipMalformed, MalformedComment, MalformedText, Moves, CommentStates, ResyncStates
    <3>2. astray' # "no"
      BY <1>1, <1>2, <2>2, <2>4
    <3> QED BY <1>1, <1>3, <2>1, <2>2, <2>4, <3>1, <3>2
            DEF LexInv
  <2>5. CASE next_state = "esc_hex" /\ b = "bsl"
    BY <1>1, <2>2, <2>5, <1>3
  <2> QED BY <2>3, <2>4, <2>5
<1> QED BY <1>4, <1>5

\* A byte read again catches up with a scan that has moved already.
LEMMA RereadByteKeeps ==
    ASSUME IInv, LexInv, NEW b \in Bytes, LexByte(b), status' = "running", again # "none"
    PROVE  LexInv'
<1>1. /\ again = b /\ b # "cont" /\ utf8_need = 0 /\ next_state \in CommentStates \cup ResyncStates
      /\ UNCHANGED <<scan, within, astray>>
      /\ within = (IF b = "lead" THEN 1 ELSE 0)
      /\ astray = "no" => scan = ScannedFrom(Context, b)
      /\ LexTypeOK /\ last_state \notin StringStates
  BY DEF LexByte, Byte, LexInv, IInv, TypeOK
<1>2. Dispatch(b) /\ utf8_need' = Fed(b) /\ again' = "none"
  BY <1>1 DEF LexByte, Byte, IsMalformed
<1>3. next_state # "esc_hex"
  BY <1>1 DEF CommentStates, ResyncStates
<1>4. Scans(b)
  BY <1>1, <1>2, <1>3, DispatchScans DEF Scannable
<1>5. utf8_need' = IF b = "lead" /\ ~(next_state = "resync_dot" /\ next_state' = "identifier") THEN 1 ELSE 0
  BY <1>2 DEF Fed
<1> QED BY <1>1, <1>2, <1>4, <1>5 DEF Scans, LexInv

\* A byte leaves the read running or ends it.
LEMMA ErrorStatus ==
    ASSUME NEW b, NEW evs, NEW items, ErrorOn(b, evs, items)
    PROVE  status' \in {"running", "failed"}
BY EmitStatus DEF ErrorOn, Fail

LEMMA ByteStatus ==
    ASSUME NEW b \in Bytes, Byte(b)
    PROVE  status' \in {"running", "failed"}
<1> USE EmitStatus, QuietStatus, ErrorStatus DEF Fail, Moves, Begins
<1>1. CASE SkipMalformed(b) \/ MalformedComment(b) \/ MalformedText(b)
  BY <1>1 DEF SkipMalformed, MalformedComment, MalformedText
<1>2. CASE Reject(b) \/ Blank(b) \/ ByteOrderMark(b) \/ CommentIntro(b) \/ CommentByte(b) \/ CommentOutro(b)
           \/ FirstCommentOutro(b) \/ IdentifierIntro(b) \/ CopyByte(b)
  BY <1>2, CopyCases DEF Reject, CommentErrorOn, Blank, ByteOrderMark, CommentIntro, CommentByte, CommentOutro,
                         FirstCommentOutro, IdentifierIntro
<1>3. CASE TypeIntro(b) \/ ScalarIntro(b) \/ StringIntro(b) \/ StringStep(b) \/ ReferenceIndex(b) \/ InlineUnitIntro(b)
  BY <1>3 DEF TypeIntro, ScalarIntro, StringIntro, StringStep, ReferenceIndex, InlineUnitIntro
<1>4. CASE ValueIntro(b) \/ TypeOutro(b) \/ ValueOutro(b) \/ NewArrayValue(b) \/ ArrayOutro(b)
  BY <1>4 DEF ValueIntro, TypeOutro, ValueOutro, NewArrayValue, ArrayOutro, FinalizeFails
<1>5. CASE ArrayIntro(b) \/ ArrayDimSep(b) \/ StructIntro(b) \/ StructOutro(b) \/ OctetStreamIntro(b)
  BY <1>5 DEF ArrayIntro, ArrayDimSep, StructIntro, StructOutro, OctetStreamIntro
<1>6. CASE ResyncSkips(b)
  BY <1>6 DEF ResyncSkips
<1>7. CASE ResyncOpenBracket(b) \/ ResyncCloseArray(b) \/ ResyncCloseStruct(b) \/ ResyncSemicolon(b)
           \/ ResyncResumeIdentifier(b)
  BY <1>7 DEF ResyncOpenBracket, ResyncCloseArray, ResyncCloseStruct, ResyncSemicolon, ResyncResumeIdentifier, Resume
<1> QED BY <1>1, <1>2, <1>3, <1>4, <1>5, <1>6, <1>7 DEF Byte, Dispatch

\* A read that ends leaves nothing to agree on; the other variables of the
\* invariant do not know.
LEMMA EndedByteKeeps ==
    ASSUME IInv, LexInv, NEW b \in Bytes, LexByte(b), status' # "running"
    PROVE  LexInv'
<1>1. status' # "opened"
  BY ByteStatus DEF LexByte
<1> QED BY <1>1 DEF LexInv

LEMMA OtherStepKeeps ==
    ASSUME IInv, LexInv, BeginRead \/ OctetChunk \/ OctetStreamEnd \/ EndOfInput \/ InputFails,
           UNCHANGED <<scan, within, astray>>
    PROVE  LexInv'
<1> USE ContextCases DEF LexInv, Context
<1>1. last_state' = last_state /\ utf8_need' = utf8_need /\ again' = again
  BY DEF BeginRead, OctetChunk, OctetStreamEnd, EndOfInput, InputFails, Fail, lexing
<1>2. CASE OctetStreamEnd
  BY <1>1, <1>2 DEF OctetStreamEnd, TextContexts, CommentStates, ResyncStates
<1>3. CASE OctetChunk
  BY <1>1, <1>3 DEF OctetChunk, lexing
<1>4. CASE EndOfInput \/ InputFails
  <2>1. status' \in {"accepted", "failed"}
    BY <1>4 DEF EndOfInput, InputFails, Fail, lexing
  <2> QED BY <1>1, <2>1
<1>5. CASE BeginRead
  <2>1. next_state' = next_state /\ status = "opened"
    BY <1>5 DEF BeginRead, lexing
  <2> QED BY <1>1, <2>1
<1> QED BY <1>2, <1>3, <1>4, <1>5

LEMMA LexInvKept == IInv /\ LexInv /\ [LexNext]_lexVars => IInv' /\ LexInv'
<1> SUFFICES ASSUME IInv, LexInv, [LexNext]_lexVars PROVE IInv' /\ LexInv'
  OBVIOUS
<1>1. [Next]_vars
  BY DEF LexNext, LexByte, Next, lexVars
<1>2. CASE UNCHANGED lexVars
  <2>1. UNCHANGED <<status, next_state, last_state, utf8_need, again, scan, within, astray>>
    BY <1>2 DEF lexVars, vars, lexing
  <2> QED BY <1>1, <2>1, NextIInv DEF LexInv, Context
<1>3. ASSUME NEW b \in Bytes, LexByte(b)
      PROVE  LexInv'
  BY <1>3, FreshByteKeeps, RereadByteKeeps, EndedByteKeeps
<1> QED BY <1>1, <1>2, <1>3, NextIInv, OtherStepKeeps DEF LexNext

\* Scan and reader agree on every byte; what is owed of a character is known.
THEOREM LexInvariance == LexSpec => [](IInv /\ LexInv)
<1>1. LexInit => IInv /\ LexInv
  BY LexStarts, InitIInv DEF LexInit
<1> QED BY <1>1, LexInvKept, PTL DEF LexSpec

\* Through any bytes, errors and recoveries the reader knows whether it stands
\* in a string, an escape, a comment or code, but for the two deviations.
THEOREM ScanAgrees == LexSpec => []LexicalAgreement
<1>1. LexInv => LexicalAgreement
  BY DEF LexInv, LexicalAgreement, Reading
<1> QED BY <1>1, LexInvariance, PTL

\* It is inside a character exactly when the document is, but for the first
\* character of a key that recovery resumes at.
THEOREM ScanCharacters == LexSpec => []CharactersTracked
<1>1. LexInv => CharactersTracked
  BY DEF LexInv, CharactersTracked, Reading
<1> QED BY <1>1, LexInvariance, PTL

-----------------------------------------------------------------------------
(* The item budget.  For every handler: an element it tells was owed, and  *)
(* what it comes to owe it has charged.                                    *)

\* The stack of containers ends in an array exactly when the frames say so.
LEMMA InnermostContainer ==
    ASSUME Nested
    PROVE  Innermost # "struct" <=> InnermostIsArray
<1> DEFINE top  == struct_nesting_level + array_nesting_level
           here == {i \in 1..array_nesting_level : i + OpenLevel(i) = top}
<1>1. array_nesting_level \in Nat /\ struct_nesting_level \in Nat
  BY LimitsAssumption DEF Nested, NestingTypeOK, Levels
<1>2. \A i \in 1..array_nesting_level : OpenLevel(i) \in Nat /\ OpenLevel(i) <= struct_nesting_level
  BY LimitsAssumption DEF Nested, NestingTypeOK, FramesOrdered, OpenLevel, Levels, Frame
<1>3. here = IF InnermostIsArray THEN {array_nesting_level} ELSE {}
  BY <1>1, <1>2 DEF InnermostIsArray
<1>4. Len(Stack) = top
  BY <1>1 DEF Stack
<1>5. Stack = <<>> <=> top = 0
  BY <1>1, <1>4 DEF Stack
<1>6. top > 0 => Stack[top] = StackedAt(top)
  BY <1>1 DEF Stack
<1>7. CASE InnermostIsArray
  <2>1. array_nesting_level > 0 /\ (CHOOSE i \in here : TRUE) = array_nesting_level
    BY <1>3, <1>7 DEF InnermostIsArray
  <2>2. StackedAt(top) = arr_frames[array_nesting_level - 1].saved_vtype
    BY <1>3, <1>7, <2>1 DEF StackedAt
  <2>3. arr_frames[array_nesting_level - 1] \in Frame
    BY <1>1, <2>1, LimitsAssumption DEF Nested, NestingTypeOK, Levels
  <2>4. StackedAt(top) # "struct"
    BY <2>2, <2>3, StructAssumption DEF Frame
  <2>5. Innermost = StackedAt(top)
    BY <1>1, <1>4, <1>5, <1>6, <2>1 DEF Innermost
  <2> QED BY <1>7, <2>4, <2>5
<1>8. CASE ~InnermostIsArray
  <2>1. StackedAt(top) = "struct"
    BY <1>3, <1>8 DEF StackedAt
  <2>2. Innermost = "struct"
    BY <1>1, <1>4, <1>5, <1>6, <2>1 DEF Innermost
  <2> QED BY <1>8, <2>2
<1> QED BY <1>7, <1>8

\* What is owed, by the flag that goes with the frames.
LEMMA OwedNow ==
    ASSUME Nested
    PROVE  Owed = IF status # "failed" /\ in_array_element /\ Place \in TextPlaces THEN 1 ELSE 0
BY DEF Nested, InlineUnitsOutsideArrays, Owed

LEMMA OwedNext ==
    ASSUME Nested'
    PROVE  Owed' = IF status' # "failed" /\ in_array_element' /\ Place' \in TextPlaces' THEN 1 ELSE 0
BY DEF Nested, InlineUnitsOutsideArrays, Owed

-----------------------------------------------------------------------------
\* Batches of events, and the elements in them.
EventNames == {"stream_start", "stream_end", "assignment_start", "annotation", "data", "row_start", "row_end",
               "dim_start", "struct_start", "struct_end", "octets_start", "octets", "octets_end",
               "error", "comment_error"}
AnyEvent == [ev : EventNames, type : Types]
ElementsOf(evs) == {i \in DOMAIN evs : evs[i].ev \in ElementEvents}
Uncounted(evs) == evs \in Seq(AnyEvent) /\ ElementsOf(evs) = {}
CountedOnce(evs) == evs \in Seq(AnyEvent) /\ ElementsOf(evs) \subseteq {1}

LEMMA Concatenated ==
    ASSUME NEW a, NEW c, Uncounted(c)
    PROVE  /\ Uncounted(a) => Uncounted(a \o c)
           /\ CountedOnce(a) => CountedOnce(a \o c)
<1>1. ASSUME a \in Seq(AnyEvent), c \in Seq(AnyEvent)
      PROVE  /\ a \o c \in Seq(AnyEvent)
             /\ \A i \in DOMAIN (a \o c) : \/ i \in DOMAIN a /\ (a \o c)[i] = a[i]
                                           \/ i - Len(a) \in DOMAIN c /\ (a \o c)[i] = c[i - Len(a)]
  BY <1>1
<1> QED BY <1>1 DEF Uncounted, CountedOnce, ElementsOf

LEMMA MarksUncounted ==
    ASSUME NEW ev \in EventNames, ev \notin ElementEvents, NEW n \in Nat
    PROVE  Uncounted(Marks(ev, n))
<1>1. Mark(ev) \in AnyEvent /\ Mark(ev).ev = ev
  BY DEF Mark, Event, AnyEvent, Types
<1>2. Marks(ev, n) \in Seq(AnyEvent)
  BY <1>1 DEF Marks
<1>3. \A i \in DOMAIN Marks(ev, n) : Marks(ev, n)[i] = Mark(ev)
  BY DEF Marks
<1> QED BY <1>1, <1>2, <1>3 DEF Uncounted, ElementsOf

LEMMA OneEvent ==
    ASSUME NEW ev \in EventNames, NEW t \in Types
    PROVE  CountedOnce(<<Event(ev, t)>>) /\ (ev \notin ElementEvents => Uncounted(<<Event(ev, t)>>))
<1>1. Event(ev, t) \in AnyEvent /\ Event(ev, t).ev = ev
  BY DEF Event, AnyEvent
<1> HIDE DEF Event
<1> QED BY <1>1 DEF CountedOnce, Uncounted, ElementsOf

LEMMA NoEvent == Uncounted(<<>>) /\ CountedOnce(<<>>)
BY DEF Uncounted, CountedOnce, ElementsOf

\* A consumer that refuses an event is told no more than the others.
LEMMA Emitted ==
    ASSUME NEW evs, Emit(evs)
    PROVE  /\ Uncounted(evs) => Uncounted(sent')
           /\ CountedOnce(evs) => CountedOnce(sent')
<1>1. CASE sent' = evs
  BY <1>1
<1>2. ASSUME NEW k \in 1..Len(evs), sent' = SubSeq(evs, 1, k), evs \in Seq(AnyEvent)
      PROVE  sent' \in Seq(AnyEvent) /\ \A i \in DOMAIN sent' : i \in DOMAIN evs /\ sent'[i] = evs[i]
  BY <1>2
<1>3. ASSUME NEW k \in 1..Len(evs), sent' = SubSeq(evs, 1, k)
      PROVE  /\ Uncounted(evs) => Uncounted(sent')
             /\ CountedOnce(evs) => CountedOnce(sent')
  BY <1>2, <1>3 DEF Uncounted, CountedOnce, ElementsOf
<1> QED BY <1>1, <1>3 DEF Emit

LEMMA TypesNow == ASSUME Nested PROVE value_type \in Types /\ Plain \in Types
BY DEF Nested, NestingTypeOK, Types

LEMMA ElementsToldCount ==
    ASSUME Nested
    PROVE  /\ Uncounted(sent') => ElementsTold = 0
           /\ CountedOnce(sent') => ElementsTold \in {0, 1}
           /\ ~InnermostIsArray \/ next_state = "array_dim_sep" => ElementsTold = 0
<1>1. Uncounted(sent') => Cardinality(ElementsOf(sent')) = 0
  BY FS_EmptySet DEF Uncounted
<1>2. ASSUME CountedOnce(sent') PROVE Cardinality(ElementsOf(sent')) \in {0, 1}
  <2>1. ElementsOf(sent') = {} \/ ElementsOf(sent') = {1}
    BY <1>2 DEF CountedOnce
  <2> QED BY <2>1, FS_EmptySet, FS_Singleton
<1>3. ElementsTold = IF status = "running" /\ Innermost # "struct" /\ next_state # "array_dim_sep"
                     THEN Cardinality(ElementsOf(sent')) ELSE 0
  BY DEF ElementsTold, ElementsOf
<1> QED BY <1>1, <1>2, <1>3, InnermostContainer

-----------------------------------------------------------------------------
QuietPlaces == KeyStates \cup OutroStates \cup ResyncStates \cup {"utf8bom_intro", "array_dim_sep"}
TokenOver == Place \in QuietPlaces => token_type \notin {"null", "value"}

\* What a step owes the budget.
Accounted ==
    /\ ElementsTold \in 0..Owed
    /\ array_nesting_level' # 0 => ElementsTold + Owed' + array_items <= Owed + array_items'

LEMMA BudgetNumbers ==
    ASSUME Nested
    PROVE  array_items \in Nat /\ Owed \in {0, 1} /\ array_nesting_level \in Nat
BY LimitsAssumption DEF Nested, NestingTypeOK, Levels, Owed

LEMMA BudgetNumbersNext ==
    ASSUME Nested'
    PROVE  array_items' \in Nat /\ Owed' \in {0, 1} /\ array_nesting_level' \in Nat
BY LimitsAssumption DEF Nested, NestingTypeOK, Levels, Owed

\* A step that tells no element, and comes to none it has not charged.
LEMMA Untold ==
    ASSUME Nested, Nested', Uncounted(sent'),
           array_nesting_level' # 0 => array_items' >= array_items,
           Owed' <= Owed
    PROVE  Accounted
BY BudgetNumbers, BudgetNumbersNext, ElementsToldCount DEF Accounted

\* A step that tells the element it owes, if it owes one, and is done with it.
LEMMA Settled ==
    ASSUME Nested, Nested', CountedOnce(sent'), Uncounted(sent') \/ Owed = 1 \/ ~InnermostIsArray,
           array_nesting_level' # 0 => array_items' >= array_items,
           Owed' = 0
    PROVE  Accounted
BY BudgetNumbers, BudgetNumbersNext, ElementsToldCount DEF Accounted

\* A move of the lexer alone.
LEMMA MovesAccount ==
    ASSUME Nested, Nested', status = "running", Quiet, Unnested, UNCHANGED in_array_element,
           Place' \in TextPlaces => Place \in TextPlaces
    PROVE  Accounted
<1>1. Uncounted(sent')
  BY NoEvent DEF Quiet
<1>2. Owed' <= Owed
  BY OwedNow, OwedNext, BudgetNumbers
<1>3. array_items' = array_items
  BY DEF Unnested, arrays
<1> QED BY <1>1, <1>2, <1>3, Untold, BudgetNumbers

LEMMA MarkUncounted ==
    ASSUME NEW ev \in EventNames
    PROVE  CountedOnce(<<Mark(ev)>>) /\ (ev \notin ElementEvents => Uncounted(<<Mark(ev)>>))
<1>1. Plain \in Types
  BY DEF Types
<1> QED BY <1>1, OneEvent DEF Mark

LEMMA PlainMarks == Uncounted(<<Error>>) /\ Uncounted(<<CommentError>>) /\ Uncounted(<<Mark("struct_end")>>)
<1>1. \A ev \in {"error", "comment_error", "struct_end"} : ev \in EventNames /\ ev \notin ElementEvents
  BY DEF ElementEvents, EventNames
<1> QED BY <1>1, MarkUncounted DEF Error, CommentError

LEMMA FailAccounts ==
    ASSUME Nested, Nested', NEW evs, Fail(evs), CountedOnce(evs), Uncounted(evs) \/ Owed = 1 \/ ~InnermostIsArray
    PROVE  Accounted /\ (TokenOver => TokenOver')
<1>1. Uncounted(<<Error>>)
  BY PlainMarks
<1>2. CountedOnce(sent') /\ (Uncounted(evs) => Uncounted(sent'))
  BY <1>1, Concatenated DEF Fail
<1>3. Owed' = 0 /\ array_items' = array_items
  BY OwedNext DEF Fail, arrays
<1>4. TokenOver => TokenOver'
  BY DEF Fail, lexing, TokenOver, Place
<1> QED BY <1>2, <1>3, <1>4, Settled, BudgetNumbers

LEMMA ClosedMarks ==
    ASSUME Nested, NEW base \in 0..array_nesting_level
    PROVE  Uncounted(RowEnds(base)) /\ Uncounted(<<Error>>) /\ Uncounted(<<Mark("struct_end")>>)
           /\ Uncounted(<<CommentError>>)
<1>1. Uncounted(RowEnds(base))
  <2>1. array_nesting_level - base \in Nat
    BY BudgetNumbers
  <2>2. "row_end" \in EventNames /\ "row_end" \notin ElementEvents
    BY DEF ElementEvents, EventNames
  <2> QED BY <2>1, <2>2, MarksUncounted DEF RowEnds
<1> QED BY <1>1, PlainMarks

LEMMA ErrorAccounts ==
    ASSUME Nested, Nested', NEW b, NEW evs, NEW items, ErrorOn(b, evs, items), 
           CountedOnce(evs), Uncounted(evs) \/ Owed = 1 \/ ~InnermostIsArray,
           items \in {array_items, array_items + 1}
    PROVE  Accounted /\ (TokenOver => TokenOver')
<1>1. CASE Fail(evs)
  BY <1>1, FailAccounts
<1>2. CASE ~Fail(evs)
  <2> DEFINE closes == ResyncTarget(b) = "resync" /\ b = "rcb" /\ struct_nesting_level > 0
             tail == IF closes THEN <<Mark("struct_end")>> ELSE <<>>
  <2>1. PICK base \in 0..array_nesting_level :
          /\ EnterResync(base, items)
          /\ next_state' = IF ResyncTarget(b) = "resync" /\ b = "semi" THEN "value_outro" ELSE ResyncTarget(b)
          /\ Emit(evs \o <<Error>> \o RowEnds(base) \o tail)
    BY <1>2 DEF ErrorOn
  <2>2. Uncounted(tail)
    BY ClosedMarks, NoEvent
  <2>3. CountedOnce(sent') /\ (Uncounted(evs) => Uncounted(sent'))
    BY <2>1, <2>2, ClosedMarks, Concatenated, Emitted
  <2>4. Owed' = 0
    BY <2>1, OwedNext DEF EnterResync
  <2>5. array_nesting_level' # 0 => array_items' >= array_items
    BY <2>1, BudgetNumbers DEF EnterResync, CloseArraysTo
  <2>6. token_type' = "unknown"
    BY <2>1 DEF EnterResync
  <2> QED BY <2>3, <2>4, <2>5, <2>6, Settled DEF TokenOver
<1> QED BY <1>1, <1>2

-----------------------------------------------------------------------------
\* What a handler owes the budget.
Pays == Accounted /\ TokenOver'

\* The batches that end a value.
LEMMA Batches ==
    ASSUME Nested
    PROVE  /\ Finalized \in {<<>>, <<Data>>} /\ NullIfTyped \in {<<>>, <<Data>>}
           /\ CountedOnce(Finalized) /\ CountedOnce(NullIfTyped)
<1>1. CountedOnce(<<Data>>)
  BY OneEvent, TypesNow DEF Data, EventNames
<1> QED BY <1>1, NoEvent DEF Finalized, NullIfTyped

\* A value that ends inside an array was owed; a container that ends there
\* has been told already.
LEMMA EndedOnce ==
    ASSUME Nested, TokenOver, status = "running", NEW b \in Bytes, Ends(b) \/ next_state = "inline_unit"
    PROVE  /\ Uncounted(Finalized) \/ Owed = 1 \/ ~InnermostIsArray
           /\ Uncounted(NullIfTyped) \/ Owed = 1 \/ ~InnermostIsArray
<1>1. Place = next_state
  BY DEF Place, CommentStates, Ends, ValueStates, ElementStates, LiteralStates, OutroStates
<1>2. CASE next_state \in TextPlaces
  BY <1>1, <1>2 DEF Owed
<1>3. CASE next_state \notin TextPlaces
  <2>1. next_state \in OutroStates /\ next_state # "type_outro"
    BY <1>3 DEF Ends, TextPlaces, ValueStates
  <2>2. token_type \notin {"null", "value"}
    BY <1>1, <2>1 DEF TokenOver, QuietPlaces
  <2> QED BY <2>1, <2>2, NoEvent DEF Finalized, NullIfTyped
<1> QED BY <1>2, <1>3

LEMMA FinalizeFailsPays ==
    ASSUME Nested, Nested', TokenOver, NEW b \in Bytes, FinalizeFails(b)
    PROVE  Pays
BY ErrorAccounts, NoEvent DEF FinalizeFails, Pays

LEMMA ValueOutroPays ==
    ASSUME Nested, Nested', TokenOver, status = "running", NEW b \in Bytes, ValueOutro(b)
    PROVE  Pays
<1>1. Ends(b) \/ next_state = "inline_unit"
  BY DEF ValueOutro
<1>2. CASE ErrorOn(b, NullIfTyped, array_items)
  BY <1>1, <1>2, Batches, EndedOnce, ErrorAccounts DEF Pays
<1>3. CASE FinalizeFails(b)
  BY <1>3, FinalizeFailsPays
<1>4. CASE ~ErrorOn(b, NullIfTyped, array_items) /\ ~FinalizeFails(b)
  <2>1. Emit(Finalized) /\ token_type' = "unknown" /\ next_state' = "value_outro" /\ array_items' = array_items
    BY <1>4 DEF ValueOutro, Unterminated
  <2>2. CountedOnce(sent') /\ (Uncounted(Finalized) => Uncounted(sent'))
    BY <2>1, Batches, Emitted
  <2>3. Owed' = 0
    BY <2>1, OwedNext DEF Place, CommentStates, TextPlaces, ValueStates, ElementStates, LiteralStates, StringStates
  <2> QED BY <1>1, <2>1, <2>2, <2>3, EndedOnce, Settled, BudgetNumbers DEF Pays, TokenOver
<1> QED BY <1>2, <1>3, <1>4

LEMMA NewArrayValuePays ==
    ASSUME Nested, Nested', TokenOver, status = "running", NEW b \in Bytes, NewArrayValue(b)
    PROVE  Pays
<1>1. Ends(b)
  BY DEF NewArrayValue
<1>2. CASE \/ ErrorOn(b, NullIfTyped, array_items) \/ ErrorOn(b, Finalized, array_items)
           \/ ErrorOn(b, Finalized, array_items + 1)
  BY <1>1, <1>2, Batches, EndedOnce, ErrorAccounts DEF Pays
<1>3. CASE FinalizeFails(b)
  BY <1>3, FinalizeFailsPays
<1>4. CASE ~(\/ ErrorOn(b, NullIfTyped, array_items) \/ ErrorOn(b, Finalized, array_items)
             \/ ErrorOn(b, Finalized, array_items + 1) \/ FinalizeFails(b))
  <2>1. Emit(Finalized) /\ array_items' = array_items + 1 /\ next_state' = "new_array_value" /\ OwnsArray
    BY <1>4 DEF NewArrayValue
  <2>2. CountedOnce(sent') /\ (Uncounted(Finalized) => Uncounted(sent'))
    BY <2>1, Batches, Emitted
  <2>3. InnermostIsArray
    BY <2>1 DEF OwnsArray, InnermostIsArray, OpenLevel
  <2>4. ElementsTold \in 0..Owed
    BY <1>1, <2>2, <2>3, EndedOnce, ElementsToldCount, BudgetNumbers
  <2>5. Place' = "new_array_value"
    BY <2>1 DEF Place, CommentStates
  <2> QED BY <2>1, <2>4, <2>5, BudgetNumbers, BudgetNumbersNext
      DEF Accounted, Pays, TokenOver, QuietPlaces, KeyStates, OutroStates, ResyncStates
<1> QED BY <1>2, <1>3, <1>4

LEMMA ArrayOutroPays ==
    ASSUME Nested, Nested', TokenOver, status = "running", NEW b \in Bytes, ArrayOutro(b)
    PROVE  Pays
<1> DEFINE last  == IF next_state = "array_intro" THEN <<>> ELSE Finalized
           width == IF next_state = "array_intro" THEN 0 ELSE curr_row_size
<1>1. Ends(b)
  BY DEF ArrayOutro
<1>2. CountedOnce(last) /\ (Uncounted(last) \/ Owed = 1 \/ ~InnermostIsArray)
  BY <1>1, Batches, EndedOnce, NoEvent
<1> HIDE DEF last
<1>3. CASE ErrorOn(b, NullIfTyped, array_items)
  BY <1>1, <1>3, Batches, EndedOnce, ErrorAccounts DEF Pays
<1>4. CASE ErrorOn(b, last, array_items)
  BY <1>2, <1>4, ErrorAccounts DEF Pays
<1>5. CASE FinalizeFails(b)
  BY <1>5, FinalizeFailsPays
<1>6. CASE ~(ErrorOn(b, NullIfTyped, array_items) \/ ErrorOn(b, last, array_items) \/ FinalizeFails(b))
  <2>1. Emit(Append(last, Mark("row_end"))) /\ PopFrame(width) /\ token_type' = "unknown" /\ next_state' = "array_outro"
    BY <1>6 DEF ArrayOutro, last
  <2>2. Uncounted(<<Mark("row_end")>>)
    BY MarkUncounted DEF ElementEvents, EventNames
  <2>3. Append(last, Mark("row_end")) = last \o <<Mark("row_end")>>
    BY <1>2 DEF CountedOnce
  <2>4. CountedOnce(sent') /\ (Uncounted(last) => Uncounted(sent'))
    BY <1>2, <2>1, <2>2, <2>3, Concatenated, Emitted
  <2>5. Owed' = 0 /\ array_items' = array_items
    BY <2>1, OwedNext DEF PopFrame, Place, CommentStates, TextPlaces, ValueStates, ElementStates, LiteralStates, StringStates
  <2> QED BY <1>2, <2>1, <2>4, <2>5, Settled, BudgetNumbers DEF Pays, TokenOver
<1> QED BY <1>3, <1>4, <1>5, <1>6

LEMMA ArrayIntroPays ==
    ASSUME Nested, Nested', TokenOver, status = "running", NEW b \in Bytes, ArrayIntro(b)
    PROVE  Pays
<1>1. CASE ErrorOn(b, <<>>, array_items)
  BY <1>1, ErrorAccounts, NoEvent DEF Pays
<1>2. CASE ~ErrorOn(b, <<>>, array_items)
  <2>1. /\ Emit(<<Event("row_start", value_type)>>) /\ array_items' = array_items + 1
        /\ next_state' = "array_intro" /\ next_state \in ValueStates \cup {"array_dim_sep"}
    BY <1>2 DEF ArrayIntro
  <2>2. CountedOnce(sent')
    BY <2>1, OneEvent, TypesNow, Emitted DEF EventNames
  <2>3. next_state # "array_dim_sep" => Place \in TextPlaces
    BY <2>1 DEF Place, TextPlaces, CommentStates, ValueStates, ElementStates
  <2>4. ElementsTold \in 0..Owed
    BY <2>2, <2>3, ElementsToldCount, BudgetNumbers DEF Owed
  <2>5. Place' = "array_intro"
    BY <2>1 DEF Place, CommentStates
  <2> QED BY <2>1, <2>4, <2>5, BudgetNumbers, BudgetNumbersNext
      DEF Accounted, Pays, TokenOver, QuietPlaces, KeyStates, OutroStates, ResyncStates
<1> QED BY <1>1, <1>2

\* A struct or an octet stream is an element where an array is innermost.
LEMMA ContainerPays ==
    ASSUME Nested, Nested', TokenOver, status = "running", NEW b \in Bytes, StructIntro(b) \/ OctetStreamIntro(b)
    PROVE  Pays
<1>1. CASE ErrorOn(b, <<>>, array_items)
  BY <1>1, ErrorAccounts, NoEvent DEF Pays
<1>2. CASE Fail(<<>>)
  BY <1>2, FailAccounts, NoEvent DEF Pays
<1>3. CASE ~ErrorOn(b, <<>>, array_items) /\ ~Fail(<<>>)
  <2>1. /\ next_state \in ValueStates /\ array_items' = array_items
        /\ \/ Emit(<<Mark("struct_start")>>) /\ next_state' = "struct_intro" /\ token_type' = "structure"
           \/ Emit(<<Mark("octets_start")>>) /\ next_state' = "octet_stream_intro"
    BY <1>3 DEF StructIntro, OctetStreamIntro, Unnested, arrays
  <2>2. CountedOnce(sent')
    <3>1. CountedOnce(<<Mark("struct_start")>>) /\ CountedOnce(<<Mark("octets_start")>>)
      BY MarkUncounted DEF EventNames
    <3> QED BY <2>1, <3>1, Emitted
  <2>3. Owed = 1 \/ ~InnermostIsArray
    BY <2>1 DEF Owed, Place, TextPlaces, CommentStates, ValueStates, ElementStates
  <2>4. Owed' = 0
    BY <2>1, OwedNext DEF Place, CommentStates, TextPlaces, ValueStates, ElementStates, LiteralStates, StringStates
  <2>5. TokenOver'
    BY <2>1 DEF TokenOver, Place, CommentStates, QuietPlaces, KeyStates, OutroStates, ResyncStates
  <2> QED BY <2>1, <2>2, <2>3, <2>4, <2>5, Settled, BudgetNumbers DEF Pays
<1> QED BY <1>1, <1>2, <1>3 DEF StructIntro, OctetStreamIntro

\* The lexer's own moves, by where they come from and go to.
LEMMA QuietPays ==
    ASSUME Nested, Nested', TokenOver, status = "running", NEW b \in Bytes,
           \/ Blank(b) \/ ByteOrderMark(b) \/ IdentifierIntro(b) \/ CopyByte(b) \/ TypeIntro(b)
           \/ ScalarIntro(b) \/ StringIntro(b) \/ StringStep(b) \/ ReferenceIndex(b) \/ InlineUnitIntro(b)
    PROVE  Pays
<1>1. /\ Quiet /\ Unnested /\ UNCHANGED in_array_element
      /\ next_state \notin CommentStates /\ next_state' \notin CommentStates
      /\ next_state' \in TextPlaces => next_state \in TextPlaces
      /\ \/ next_state' \notin QuietPlaces
         \/ next_state \in QuietPlaces /\ token_type' = token_type
  <2> USE DEF CommentStates, TextPlaces, ValueStates, ElementStates, LiteralStates, StringStates,
              QuietPlaces, KeyStates, OutroStates, ResyncStates
  <2>1. CASE Blank(b)
    BY <2>1 DEF Blank, Moves
  <2>2. CASE ByteOrderMark(b)
    BY <2>2 DEF ByteOrderMark, Moves
  <2>3. CASE IdentifierIntro(b)
    BY <2>3 DEF IdentifierIntro, Begins
  <2>4. CASE CopyByte(b)
    <3>1. Moves(next_state) /\ next_state \in {"identifier", "type_body", "scalar", "inline_unit", "string",
                                               "reference_index", "esc_hex"}
      BY <2>4 DEF CopyByte
    <3> QED BY <3>1 DEF Moves
  <2>5. CASE TypeIntro(b) \/ ScalarIntro(b) \/ StringIntro(b)
    BY <2>5 DEF TypeIntro, ScalarIntro, StringIntro, Begins
  <2>6. CASE StringStep(b) \/ ReferenceIndex(b) \/ InlineUnitIntro(b)
    BY <2>6 DEF StringStep, ReferenceIndex, InlineUnitIntro, Moves
  <2> QED BY <2>1, <2>2, <2>3, <2>4, <2>5, <2>6
<1>2. Place = next_state /\ Place' = next_state'
  BY <1>1 DEF Place
<1> QED BY <1>1, <1>2, MovesAccount DEF Pays, TokenOver

\* A comment is read where it stands.
LEMMA CommentPays ==
    ASSUME Nested, Nested', TokenOver, status = "running", NEW b \in Bytes,
           CommentIntro(b) \/ CommentByte(b) \/ CommentOutro(b) \/ FirstCommentOutro(b)
    PROVE  Pays
<1>1. CASE FirstCommentOutro(b) /\ (Fail(<<>>) \/ ErrorOn(b, <<>>, array_items))
  BY <1>1, FailAccounts, ErrorAccounts, NoEvent DEF Pays
<1>2. CASE ~(FirstCommentOutro(b) /\ (Fail(<<>>) \/ ErrorOn(b, <<>>, array_items)))
  <2>1. Quiet /\ Unnested /\ UNCHANGED <<in_array_element, token_type>> /\ Place' = Place
    BY <1>2 DEF CommentIntro, CommentByte, CommentOutro, FirstCommentOutro, Moves, Place, CommentStates,
                Nested, LexTypeOK
  <2> QED BY <2>1, MovesAccount DEF Pays, TokenOver
<1> QED BY <1>1, <1>2

LEMMA CommentErrorPays ==
    ASSUME Nested, Nested', TokenOver, status = "running", CommentErrorOn
    PROVE  Pays
<1>1. CASE Fail(<<>>)
  BY <1>1, FailAccounts, NoEvent DEF Pays
<1>2. CASE ~Fail(<<>>)
  <2>1. /\ Emit(<<CommentError>>) /\ array_items' = array_items
        /\ UNCHANGED <<next_state, last_state, token_type, in_array_element>>
    BY <1>2 DEF CommentErrorOn, arrays
  <2>2. Uncounted(sent')
    BY <2>1, PlainMarks, Emitted
  <2>3. Owed' <= Owed
    BY <2>1, OwedNow, OwedNext, BudgetNumbers DEF Place
  <2>4. TokenOver'
    BY <2>1 DEF TokenOver, Place
  <2> QED BY <2>1, <2>2, <2>3, <2>4, Untold, BudgetNumbers DEF Pays
<1> QED BY <1>1, <1>2

LEMMA RejectPays ==
    ASSUME Nested, Nested', TokenOver, status = "running", NEW b \in Bytes, Reject(b)
    PROVE  Pays
BY CommentErrorPays, ErrorAccounts, NoEvent DEF Reject, Pays

\* A key, an annotation, the "/" between two rows, the end of a struct: no
\* element, and no more to tell than before.
LEMMA BetweenPays ==
    ASSUME Nested, Nested', TokenOver, status = "running", NEW b \in Bytes,
           ValueIntro(b) \/ TypeOutro(b) \/ ArrayDimSep(b) \/ StructOutro(b)
    PROVE  Pays
<1> USE DEF Place, CommentStates, TextPlaces, ValueStates, ElementStates, LiteralStates, StringStates,
            QuietPlaces, KeyStates, OutroStates, ResyncStates
<1>1. CASE ValueIntro(b)
  <2>1. Uncounted(sent')
    <3>1. Uncounted(<<Mark("assignment_start")>>)
      BY MarkUncounted DEF EventNames, ElementEvents
    <3> QED BY <1>1, <3>1, Emitted DEF ValueIntro
  <2>2. Owed' = 0
    BY <1>1, OwedNext DEF ValueIntro
  <2>3. array_nesting_level' # 0 => array_items' = array_items
    BY <1>1 DEF ValueIntro, BudgetAtKey
  <2>4. TokenOver'
    BY <1>1 DEF ValueIntro, TokenOver
  <2> QED BY <2>1, <2>2, <2>3, <2>4, Untold, BudgetNumbers DEF Pays
<1>2. CASE TypeOutro(b)
  <2>1. PICK t \in ValueTypes : Emit(<<Event("annotation", t)>>)
    BY <1>2 DEF TypeOutro
  <2>2. Uncounted(sent')
    <3>1. Uncounted(<<Event("annotation", t)>>)
      BY OneEvent DEF Types, EventNames, ElementEvents
    <3> QED BY <2>1, <3>1, Emitted
  <2>3. Owed' <= Owed
    BY <1>2, OwedNow, OwedNext, BudgetNumbers DEF TypeOutro
  <2>4. array_items' = array_items /\ TokenOver'
    BY <1>2 DEF TypeOutro, TokenOver, arrays
  <2> QED BY <2>2, <2>3, <2>4, Untold, BudgetNumbers DEF Pays
<1>3. CASE ArrayDimSep(b)
  <2>1. Uncounted(sent')
    <3>1. Uncounted(<<Mark("dim_start")>>)
      BY MarkUncounted DEF EventNames, ElementEvents
    <3> QED BY <1>3, <3>1, Emitted DEF ArrayDimSep
  <2>2. Owed' = 0
    BY <1>3, OwedNext DEF ArrayDimSep
  <2>3. array_items' = array_items /\ TokenOver'
    BY <1>3 DEF ArrayDimSep, TokenOver
  <2> QED BY <2>1, <2>2, <2>3, Untold, BudgetNumbers DEF Pays
<1>4. CASE StructOutro(b)
  <2>1. CASE ErrorOn(b, <<>>, array_items)
    BY <2>1, ErrorAccounts, NoEvent DEF Pays
  <2>2. CASE ~ErrorOn(b, <<>>, array_items)
    <3>1. Emit(<<Mark("struct_end")>>) /\ next_state' = "struct_outro" /\ array_items' = array_items
          /\ token_type' = token_type /\ next_state \in KeyStates
      BY <1>4, <2>2 DEF StructOutro, arrays
    <3>2. Uncounted(sent')
      BY <3>1, PlainMarks, Emitted
    <3>3. Owed' = 0
      BY <3>1, OwedNext
    <3>4. TokenOver'
      BY <3>1 DEF TokenOver
    <3> QED BY <3>1, <3>2, <3>3, <3>4, Untold, BudgetNumbers DEF Pays
  <2> QED BY <2>1, <2>2
<1> QED BY <1>1, <1>2, <1>3, <1>4

\* While a region is skipped nothing is told but what it closes.
LEMMA SkipPays ==
    ASSUME Nested, Nested', TokenOver, status = "running", NEW b \in Bytes,
           \/ ResyncSkips(b) \/ ResyncOpenBracket(b) \/ ResyncCloseArray(b) \/ ResyncCloseStruct(b)
           \/ ResyncSemicolon(b) \/ ResyncResumeIdentifier(b)
    PROVE  Pays
<1> USE DEF Place, CommentStates, TextPlaces, ValueStates, ElementStates, LiteralStates, StringStates,
            QuietPlaces, KeyStates, OutroStates, ResyncStates
<1>1. CASE ResyncSkips(b) \/ ResyncOpenBracket(b)
  <2>1. Quiet /\ array_items' = array_items /\ token_type' = token_type
        /\ next_state \in ResyncStates /\ next_state' \in ResyncStates
    BY <1>1 DEF ResyncSkips, ResyncOpenBracket, Moves, Unnested, arrays
  <2>2. Owed' = 0 /\ TokenOver'
    BY <2>1, OwedNext DEF TokenOver
  <2> QED BY <2>1, <2>2, NoEvent, Untold, BudgetNumbers DEF Pays, Quiet
<1>2. CASE ResyncCloseArray(b)
  <2>1. /\ Emit(<<Mark("row_end")>>) \/ Quiet
        /\ array_items' = array_items /\ token_type' = token_type
        /\ next_state \in ResyncStates /\ next_state' \in ResyncStates
    BY <1>2 DEF ResyncCloseArray, PopFrame, arrays
  <2>2. Uncounted(sent')
    <3>1. Uncounted(<<Mark("row_end")>>)
      BY MarkUncounted DEF EventNames, ElementEvents
    <3> QED BY <2>1, <3>1, NoEvent, Emitted DEF Quiet
  <2>3. Owed' = 0 /\ TokenOver'
    BY <2>1, OwedNext DEF TokenOver
  <2> QED BY <2>1, <2>2, <2>3, Untold, BudgetNumbers DEF Pays
<1>3. CASE ResyncCloseStruct(b)
  <2>1. /\ \/ Quiet /\ array_items' = array_items
           \/ \E base \in 0..array_nesting_level :
                CloseArraysTo(base, array_items) /\ Emit(Append(RowEnds(base), Mark("struct_end")))
        /\ token_type' = token_type
        /\ next_state \in ResyncStates /\ next_state' \in ResyncStates
    BY <1>3 DEF ResyncCloseStruct, arrays
  <2>2. Uncounted(sent') /\ (array_nesting_level' # 0 => array_items' = array_items)
    <3>1. ASSUME NEW base \in 0..array_nesting_level,
                 CloseArraysTo(base, array_items), Emit(Append(RowEnds(base), Mark("struct_end")))
          PROVE  Uncounted(sent') /\ (array_nesting_level' # 0 => array_items' = array_items)
      <4>1. Append(RowEnds(base), Mark("struct_end")) = RowEnds(base) \o <<Mark("struct_end")>>
        BY ClosedMarks DEF Uncounted
      <4>2. Uncounted(RowEnds(base) \o <<Mark("struct_end")>>)
        BY ClosedMarks, Concatenated
      <4> QED BY <3>1, <4>1, <4>2, Emitted DEF CloseArraysTo
    <3> QED BY <2>1, <3>1, NoEvent DEF Quiet
  <2>3. Owed' = 0 /\ TokenOver'
    BY <2>1, OwedNext DEF TokenOver
  <2> QED BY <2>2, <2>3, Untold, BudgetNumbers DEF Pays
<1>4. ASSUME NEW s, NEW token, Resume(s, token), <<s, token>> \in {<<"value_outro", "unknown">>, <<"identifier", "identifier">>}
      PROVE  Pays
  <2> DEFINE depth == IF struct_nesting_level < resync_saved_struct_nesting
                      THEN struct_nesting_level ELSE resync_saved_struct_nesting
  <2>1. PICK base \in 0..array_nesting_level :
          /\ CloseArraysTo(base, array_items)
          /\ Emit(Marks("struct_end", struct_nesting_level - depth) \o RowEnds(base))
    BY <1>4 DEF Resume
  <2>2. struct_nesting_level - depth \in Nat
    BY LimitsAssumption DEF Nested, NestingTypeOK
  <2>3. Uncounted(Marks("struct_end", struct_nesting_level - depth))
    <3>1. "struct_end" \in EventNames /\ "struct_end" \notin ElementEvents
      BY DEF EventNames, ElementEvents
    <3> HIDE DEF depth
    <3> QED BY <2>2, <3>1, MarksUncounted
  <2> HIDE DEF depth
  <2>4. Uncounted(sent')
    BY <2>1, <2>3, ClosedMarks, Concatenated, Emitted
  <2>5. array_nesting_level' # 0 => array_items' = array_items
    BY <2>1 DEF CloseArraysTo
  <2>6. next_state' = s /\ token_type' = token
    BY <1>4 DEF Resume
  <2>7. Owed' = 0 /\ TokenOver'
    BY <1>4, <2>6, OwedNext DEF TokenOver
  <2> QED BY <2>4, <2>5, <2>7, Untold, BudgetNumbers DEF Pays
<1> QED BY <1>1, <1>2, <1>3, <1>4 DEF ResyncSemicolon, ResyncResumeIdentifier

LEMMA MalformedPays ==
    ASSUME Nested, Nested', TokenOver, status = "running", NEW b \in Bytes,
           SkipMalformed(b) \/ MalformedComment(b) \/ MalformedText(b)
    PROVE  Pays
<1>1. CASE Fail(<<>>)
  BY <1>1, FailAccounts, NoEvent DEF Pays
<1>2. CASE SkipMalformed(b)
  <2>1. Quiet /\ array_items' = array_items /\ token_type' = token_type
        /\ next_state \in ResyncStates /\ next_state' \in ResyncStates
    BY <1>2 DEF SkipMalformed, Moves, Unnested, arrays, ResyncStates
  <2>2. Owed' = 0 /\ TokenOver'
    BY <2>1, OwedNext
       DEF TokenOver, Place, CommentStates, TextPlaces, ValueStates, ElementStates, LiteralStates, StringStates,
           QuietPlaces, ResyncStates
  <2> QED BY <2>1, <2>2, NoEvent, Untold, BudgetNumbers DEF Pays, Quiet
<1>3. CASE MalformedComment(b) /\ ~Fail(<<>>)
  <2>1. Emit(<<CommentError>>) /\ array_items' = array_items
        /\ UNCHANGED <<token_type, in_array_element>> /\ Place' = Place
    BY <1>3 DEF MalformedComment, Unnested, arrays, Place, CommentStates, Nested, LexTypeOK
  <2>2. Uncounted(sent')
    BY <2>1, PlainMarks, Emitted
  <2>3. Owed' <= Owed
    BY <2>1, OwedNow, OwedNext, BudgetNumbers
  <2>4. TokenOver'
    BY <2>1 DEF TokenOver
  <2> QED BY <2>1, <2>2, <2>3, <2>4, Untold, BudgetNumbers DEF Pays
<1>4. CASE MalformedText(b) /\ ~Fail(<<>>)
  <2>1. PICK base \in 0..array_nesting_level : EnterResync(base, array_items) /\ Emit(<<Error>> \o RowEnds(base))
    BY <1>4 DEF MalformedText
  <2>2. Uncounted(sent')
    BY <2>1, ClosedMarks, Concatenated, Emitted
  <2>3. Owed' = 0 /\ token_type' = "unknown" /\ (array_nesting_level' # 0 => array_items' = array_items)
    BY <2>1, OwedNext DEF EnterResync, CloseArraysTo
  <2> QED BY <2>2, <2>3, Untold, BudgetNumbers DEF Pays, TokenOver
<1> QED BY <1>1, <1>2, <1>3, <1>4

LEMMA BytePays ==
    ASSUME Nested, Nested', TokenOver, NEW b \in Bytes, Byte(b)
    PROVE  Pays
<1>1. status = "running"
  BY DEF Byte
<1>2. CASE Dispatch(b)
  BY <1>1, <1>2, RejectPays, QuietPays, CommentPays, BetweenPays, ValueOutroPays, NewArrayValuePays, ArrayOutroPays,
     ArrayIntroPays, ContainerPays, SkipPays DEF Dispatch
<1> QED BY <1>1, <1>2, MalformedPays DEF Byte

LEMMA OtherStepPays ==
    ASSUME IInv, Nested', TokenOver, BeginRead \/ OctetChunk \/ OctetStreamEnd \/ EndOfInput \/ InputFails
    PROVE  Pays
<1> USE DEF IInv
<1>1. CASE BeginRead
  <2>1. Emit(<<Mark("stream_start")>>) /\ array_items' = array_items
        /\ UNCHANGED <<next_state, last_state, token_type, in_array_element>> /\ status = "opened"
    BY <1>1 DEF BeginRead, Unnested, arrays, lexing
  <2>2. ElementsTold = 0
    BY <2>1 DEF ElementsTold
  <2>3. TokenOver'
    BY <2>1 DEF TokenOver, Place
  <2>4. Owed' <= Owed
    BY <2>1, OwedNow, OwedNext, BudgetNumbers DEF Place
  <2> QED BY <2>1, <2>2, <2>3, <2>4, BudgetNumbers, BudgetNumbersNext DEF Pays, Accounted
<1>2. CASE OctetChunk \/ OctetStreamEnd
  <2>1. /\ Emit(<<Mark("octets")>>) \/ Emit(<<Mark("octets_end")>>)
        /\ array_items' = array_items
        /\ \/ next_state' = next_state /\ next_state = "octet_stream_intro"
           \/ next_state' = "octet_stream_outro" /\ token_type' = "unknown"
    BY <1>2 DEF OctetChunk, OctetStreamEnd, Unnested, arrays, lexing
  <2>2. Uncounted(sent')
    <3>1. Uncounted(<<Mark("octets")>>) /\ Uncounted(<<Mark("octets_end")>>)
      <4>1. \A ev \in {"octets", "octets_end"} : ev \in EventNames /\ ev \notin ElementEvents
        BY DEF EventNames, ElementEvents
      <4> QED BY <4>1, MarkUncounted
    <3> QED BY <2>1, <3>1, Emitted
  <2>3. Owed' = 0 /\ TokenOver'
    BY <2>1, OwedNext
       DEF TokenOver, Place, CommentStates, TextPlaces, ValueStates, ElementStates, LiteralStates, StringStates,
           QuietPlaces, KeyStates, OutroStates, ResyncStates
  <2> QED BY <2>1, <2>2, <2>3, Untold, BudgetNumbers DEF Pays
<1>3. CASE InputFails \/ Fail(<<>>)
  BY <1>3, FailAccounts, NoEvent DEF InputFails, Pays
<1>4. CASE EndOfInput /\ ~Fail(<<>>)
  <2>1. PICK n \in Nat : sent' = Append(Marks("comment_error", n), Mark("stream_end"))
    BY <1>4 DEF EndOfInput, TypeOK
  <2>2. /\ array_items' = array_items /\ status' \in {"accepted", "failed"}
        /\ UNCHANGED <<next_state, last_state, token_type, in_array_element>> /\ status # "failed"
    BY <1>4 DEF EndOfInput, Unnested, arrays, lexing
  <2>3. Uncounted(sent')
    <3>1. Uncounted(Marks("comment_error", n)) /\ Uncounted(<<Mark("stream_end")>>)
      <4>1. \A ev \in {"comment_error", "stream_end"} : ev \in EventNames /\ ev \notin ElementEvents
        BY DEF EventNames, ElementEvents
      <4> QED BY <4>1, MarkUncounted, MarksUncounted
    <3>2. sent' = Marks("comment_error", n) \o <<Mark("stream_end")>>
      BY <2>1, <3>1 DEF Uncounted
    <3> QED BY <3>1, <3>2, Concatenated
  <2>4. Owed' <= Owed /\ TokenOver'
    BY <2>2, OwedNow, OwedNext, BudgetNumbers DEF TokenOver, Place
  <2> QED BY <2>2, <2>3, <2>4, Untold, BudgetNumbers DEF Pays
<1> QED BY <1>1, <1>2, <1>3, <1>4

-----------------------------------------------------------------------------
(* The invariant of the budget, and what it comes to.                      *)

LEMMA BudgetStarts == BudgetInit => BudgetInv
BY DEF BudgetInit, Init, BudgetInv, Owed, Place, KeyStates, OutroStates, ResyncStates, InnermostIsArray

LEMMA StepPays ==
    ASSUME IInv, IInv', TokenOver, Next
    PROVE  Pays
BY BytePays, OtherStepPays DEF IInv, Next

LEMMA TokenOverIs == BudgetInv => TokenOver
BY DEF BudgetInv, TokenOver, QuietPlaces

LEMMA BudgetKept == IInv /\ BudgetInv /\ [BudgetNext]_budgetVars => IInv' /\ BudgetInv' /\ [told + ElementsTold <= max_array_items]_budgetVars
<1> SUFFICES ASSUME IInv, BudgetInv, [BudgetNext]_budgetVars
             PROVE  IInv' /\ BudgetInv' /\ [told + ElementsTold <= max_array_items]_budgetVars
  OBVIOUS
<1>1. IInv'
  BY NextIInv DEF BudgetNext, budgetVars
<1>2. Nested /\ Nested' /\ array_items <= max_array_items
  BY <1>1 DEF IInv, Nested, NestingTypeOK
<1>3. CASE UNCHANGED budgetVars
  BY <1>1, <1>3 DEF budgetVars, vars, lexing, arrays, BudgetInv, Owed, Place, InnermostIsArray, OpenLevel
<1>4. CASE BudgetNext
  <2>1. Pays
    BY <1>1, <1>4, StepPays, TokenOverIs DEF BudgetNext
  <2>2. /\ told \in Nat /\ told + Owed <= array_items
        /\ told' = IF array_nesting_level' = 0 THEN 0 ELSE told + ElementsTold
    BY <1>4 DEF BudgetNext, Tells, BudgetInv
  <2>3. told' \in Nat /\ (array_nesting_level' = 0 => told' = 0)
    BY <1>2, <2>1, <2>2, BudgetNumbers DEF Pays, Accounted
  <2>4. array_nesting_level' = 0 => Owed' = 0
    BY DEF Owed, InnermostIsArray
  <2>5. told' + Owed' <= array_items'
    BY <1>2, <2>1, <2>2, <2>4, BudgetNumbers, BudgetNumbersNext DEF Pays, Accounted
  <2>6. told + ElementsTold <= max_array_items
    BY <1>2, <2>1, <2>2, BudgetNumbers, LimitsAssumption DEF Pays, Accounted
  <2> QED BY <1>1, <2>1, <2>3, <2>5, <2>6 DEF BudgetInv, Pays, TokenOver, QuietPlaces
<1> QED BY <1>3, <1>4

\* No element is told past max_array_items, for every limit, set of types and
\* document: every element is charged to array_items before it is told.
THEOREM BudgetHolds == BudgetSpec => ElementsWithinBudget
<1>1. BudgetInit => IInv /\ BudgetInv
  BY BudgetStarts, InitIInv DEF BudgetInit
<1> QED BY <1>1, BudgetKept, PTL DEF BudgetSpec, ElementsWithinBudget
=============================================================================

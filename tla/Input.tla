------------------------------- MODULE Input -------------------------------
(***************************************************************************)
(* The reader's input side: the bytes of a document arrive in pieces of    *)
(* any size, are read one at a time or a run at a time, are counted into   *)
(* lines, columns and offsets, and are thrown away when the document is    *)
(* broken.  Bytes are real ones; of the state table only assignments of a  *)
(* symbol, a string or an octet stream are kept, with comments and         *)
(* recovery: a byte that would leave these rows sets the row "beyond".     *)
(***************************************************************************)
EXTENDS Integers, Sequences, FiniteSets

\* What has been read when a run starts: ".n=a;".
Opening == <<46, 110, 61, 97, 59>>

\* A document's limits: string, name and symbol length, text and file bytes
\* (0: none), and continue_on_error.  Its source hands out bytes up to the
\* next of some cuts.
Fresh(doc, lim, cuts) ==
    [doc |-> Opening \o doc, lim |-> lim, cuts |-> cuts, src |-> 5, cut |-> FALSE,
     status |-> "running", processed_bytes |-> 5, text_bytes |-> 5, octet_bytes |-> 0,
     next_state |-> "value_outro", last_state |-> "value_outro", token_type |-> "unknown", str |-> <<>>,
     need |-> 0, lo |-> 0, hi |-> 0, byte |-> 59, prev_byte |-> 59, line |-> 1, column |-> 5,
     failed |-> "none", recovery_count |-> 0, skipped_bytes |-> 0, resync_start_bytes |-> 0,
     sent |-> <<>>, errors |-> <<>>, seen |-> <<>>]

Lesser(a, b)  == IF a < b THEN a ELSE b
Consumed(s)   == s.text_bytes + s.octet_bytes
ResyncRows    == {"resync", "resync_dot", "resync_string", "resync_string_escape", "resync_comment"}
StringRows    == {"string_intro", "copy_string_byte", "escape_from_copy"}
\* rows in which white space is nothing
SpaceRows     == {"value_outro", "identifier_outro", "value_intro", "symbol_outro", "string_outro",
                  "octet_stream_outro"}

Space         == {9, 10, 11, 12, 13, 32}
Control       == (0..8) \cup (14..31) \cup {127}
Letters       == (65..90) \cup (97..122) \cup {95}
FirstOfName   == Letters \cup (195..244)
OfName        == Letters \cup (48..57) \cup {43, 45} \cup ((128..255) \ {194})
Printable     == (32..126) \cup (128..255)
-----------------------------------------------------------------------------
(* UTF-8: what may follow a first byte, and one byte fed at a time.        *)
Leader(b) ==
    CASE b < 128        -> <<0, 0, 0>>
      [] b \in 194..223 -> <<1, 128, 191>>
      [] b = 224        -> <<2, 160, 191>>
      [] b = 237        -> <<2, 128, 159>>
      [] b \in 225..239 -> <<2, 128, 191>>
      [] b = 240        -> <<3, 144, 191>>
      [] b \in 241..243 -> <<3, 128, 191>>
      [] b = 244        -> <<3, 128, 143>>
      [] OTHER          -> <<>>

Utf8(s, need, lo, hi) == [s EXCEPT !.need = need, !.lo = lo, !.hi = hi]
WellFormed(s, b) == IF s.need > 0 THEN b \in s.lo .. s.hi ELSE Leader(b) # <<>>
Fed(s, b) ==
    IF s.need > 0 THEN Utf8(s, s.need - 1, 128, 191)
    ELSE LET u == Leader(b) IN Utf8(s, u[1], u[2], u[3])

-----------------------------------------------------------------------------
(* Positions and errors: <<code, line, column, byte, offset>>.             *)
TabStop(column)   == 4 * ((column \div 4) + 1)
LastTextOffset(s) == Consumed(s) - 1

Tell(s, code, column, byte, offset) ==
    [s EXCEPT !.errors = Append(@, <<code, s.line, column, byte, offset>>)]
TellHere(s, code) == Tell(s, code, s.column, s.byte, LastTextOffset(s))
Stop(s) == [s EXCEPT !.status = "stopped"]
SetEofError(s, code) ==
    Tell(s, code, IF s.need = 0 THEN s.column + 1 ELSE s.column, 0, s.processed_bytes)

AdvanceLine(s, prev) ==
    CASE s.byte = 13 -> [s EXCEPT !.line = @ + 1, !.column = 0]
      [] s.byte = 10 -> [s EXCEPT !.line = IF prev = 13 THEN @ ELSE @ + 1, !.column = 0]
      [] OTHER       -> s

-----------------------------------------------------------------------------
(* Recovery.                                                               *)
EnterResync(s) ==
    [Utf8(s, 0, 0, 0) EXCEPT
        !.str = <<>>, !.token_type = "unknown", !.failed = "none",
        !.recovery_count = @ + 1, !.resync_start_bytes = s.text_bytes - 1,
        !.next_state =
            IF @ \in StringRows \/ s.byte = 34 THEN "resync_string"
            ELSE IF s.byte = 35 THEN "resync_comment" ELSE "resync"]

RecoverInComment(s, endsLine) ==
    [Utf8(s, 0, 0, 0) EXCEPT
        !.failed = "none", !.recovery_count = @ + 1, !.skipped_bytes = @ + 1,
        !.next_state = IF endsLine THEN s.last_state ELSE @]

\* What was skipped ends before the boundary the reader resumes at.
ResyncReset(s, boundary) ==
    LET end == s.text_bytes - boundary
    IN [Utf8(s, 0, 0, 0) EXCEPT
           !.skipped_bytes = IF end > s.resync_start_bytes THEN @ + end - s.resync_start_bytes ELSE @,
           !.token_type = "unknown", !.str = <<>>]

-----------------------------------------------------------------------------
(* The rows.                                                               *)
To(s, row)    == [s EXCEPT !.next_state = row]
Fail(s, code) == [s EXCEPT !.failed = code]

PushStr(s, max, overflow, row) ==
    IF Len(s.str) = max THEN Fail(s, overflow)
    ELSE [s EXCEPT !.str = Append(@, s.byte), !.next_state = row]
PushName(s)   == PushStr(s, s.lim.name, "identifier_too_long", "identifier_body")
PushSymbol(s) == PushStr(s, s.lim.symbol, "symbol_too_long", "symbol_body")

Finalize(s, then) ==
    CASE s.token_type = "unknown" -> then
      [] s.token_type = "identifier" /\ s.str = <<>> -> Fail(s, "empty_identifier")
      [] OTHER -> [then EXCEPT !.sent = Append(@, <<s.token_type, s.str>>), !.str = <<>>]
ValueIntro(s) == Finalize(s, [s EXCEPT !.token_type = "null_value", !.next_state = "value_intro"])
ValueOutro(s) == Finalize(s, [s EXCEPT !.token_type = "unknown", !.next_state = "value_outro"])
Commented(s)  == [s EXCEPT !.last_state = s.next_state, !.next_state = "comment"]
Unexpected(s) == Fail(s, "unexpected_input_byte")
Escapes       == [b \in {116, 110, 118, 102, 114, 34, 92} |->
                     CASE b = 116 -> 9 [] b = 110 -> 10 [] b = 118 -> 11 [] b = 102 -> 12
                       [] b = 114 -> 13 [] OTHER -> b]

\* Before an assignment, and after a value: white space, comments, one byte.
Between(s, b, on, then) ==
    CASE b \in Space -> s
      [] b = 35      -> Commented(s)
      [] b = on      -> then
      [] OTHER       -> Unexpected(s)

ResyncAct(s, b) ==
    CASE s.next_state = "resync_dot" /\ b \in FirstOfName ->
            PushName([ResyncReset(s, 2) EXCEPT !.token_type = "identifier"])
      [] b = 34 -> To(s, "resync_string")
      [] b = 35 -> To(s, "resync_comment")
      [] b = 46 -> To(s, "resync_dot")
      [] b = 59 -> To(ResyncReset(s, 1), "value_outro")
      [] OTHER  -> To(s, "resync")

Act(s, b) ==
    CASE s.next_state = "value_outro" ->
            Between(s, b, 46, [s EXCEPT !.str = <<>>, !.token_type = "identifier",
                                        !.next_state = "identifier_intro"])
      [] s.next_state \in {"identifier_intro", "identifier_body"} ->
            IF b \in Space THEN To(s, "identifier_outro")
            ELSE IF b = 61 THEN ValueIntro(s)
            ELSE IF b \in (IF s.next_state = "identifier_intro" THEN FirstOfName ELSE OfName)
                 THEN PushName(s) ELSE Unexpected(s)
      [] s.next_state = "identifier_outro" -> Between(s, b, 61, ValueIntro(s))
      [] s.next_state = "value_intro" ->
            CASE b = 0  -> [s EXCEPT !.token_type = "octet_stream", !.next_state = "octet_stream_intro",
                                     !.sent = Append(@, <<"octet_stream_start", <<>> >>)]
              [] b = 34 -> [s EXCEPT !.token_type = "string", !.next_state = "string_intro"]
              [] b \in FirstOfName -> PushSymbol([s EXCEPT !.str = <<>>, !.token_type = "symbol"])
              [] b \in (48..57) \cup {38, 45, 46, 60, 91, 123} -> To(s, "beyond")
              [] OTHER -> Between(s, b, 59, ValueOutro(s))
      [] s.next_state = "symbol_body" ->
            IF b \in Space THEN To(s, "symbol_outro")
            ELSE IF b = 59 THEN ValueOutro(s)
            ELSE IF b \in OfName THEN PushSymbol(s) ELSE Unexpected(s)
      [] s.next_state \in {"symbol_outro", "octet_stream_outro"} -> Between(s, b, 59, ValueOutro(s))
      [] s.next_state \in {"string_intro", "copy_string_byte"} ->
            CASE b = 34 -> To(s, "string_outro_nosp")
              [] b = 92 -> To(s, "escape_from_copy")
              [] b \in Control -> Unexpected(s)
              [] OTHER  -> PushStr(s, s.lim.string, "string_too_long", "copy_string_byte")
      [] s.next_state = "escape_from_copy" ->
            IF Len(s.str) = s.lim.string /\ b \notin {117, 120} THEN Fail(s, "string_too_long")
            ELSE IF b \notin DOMAIN Escapes THEN Fail(s, "illegal_escape_sequence")
            ELSE [s EXCEPT !.str = Append(@, Escapes[b]), !.next_state = "copy_string_byte"]
      [] s.next_state \in {"string_outro_nosp", "string_outro"} ->
            IF b = 34 THEN [s EXCEPT !.token_type = "string", !.next_state = "string_intro"]
            ELSE IF b \in Space THEN To(s, "string_outro")
            ELSE IF s.next_state = "string_outro" /\ b \in FirstOfName \cup {36, 37, 40, 194} THEN To(s, "beyond")
            ELSE Between(s, b, 59, ValueOutro(s))
      [] s.next_state = "comment" ->
            IF b \in {10, 13} THEN To(s, s.last_state) ELSE IF b \in Control THEN Unexpected(s) ELSE s
      [] s.next_state \in {"resync", "resync_dot"} -> ResyncAct(s, b)
      [] s.next_state = "resync_string" ->
            To(s, IF b = 34 THEN "resync" ELSE IF b = 92 THEN "resync_string_escape" ELSE "resync_string")
      [] s.next_state = "resync_string_escape" -> To(s, "resync_string")
      [] s.next_state = "resync_comment" ->
            To(s, IF b \in {10, 13} THEN "resync" ELSE "resync_comment")
      [] OTHER -> Unexpected(s)
-----------------------------------------------------------------------------
(* One byte.                                                               *)
CountColumn(s, begins) ==
    [s EXCEPT !.column = IF s.byte = 9 THEN TabStop(@) ELSE IF begins THEN @ + 1 ELSE @]

\* The row's action, and recovery when it refuses the byte; a lone ";" that
\* was refused is itself the boundary.
Dispatch(s, prev, begins, lineAdvanced) ==
    LET a == Act(CountColumn(s, begins), s.byte)
        Advanced(t) == IF lineAdvanced THEN t ELSE AdvanceLine(t, prev)
        told == Advanced(TellHere(a, a.failed))
        r    == Utf8(EnterResync(told), told.need, told.lo, told.hi)
    IN CASE a.failed = "none"                 -> Advanced(a)
         [] ~s.lim.continue                   -> Stop(told)
         [] told.next_state = "comment"       -> RecoverInComment(told, FALSE)
         [] r.next_state = "resync" /\ s.byte = 59 -> To(ResyncReset(r, 1), "value_outro")
         [] OTHER                             -> r

\* Malformed in a region that is being skipped: skipped, and a byte that
\* cut a character short is read as the one it begins.
MalformedSkipped(s, prev, pending) ==
    LET t == [Utf8(s, 0, 0, 0) EXCEPT !.next_state = IF @ = "resync_dot" THEN "resync" ELSE @]
    IN IF ~pending \/ ~WellFormed(t, s.byte) THEN [t EXCEPT !.column = @ + 1]
       ELSE Dispatch(Fed([t EXCEPT !.column = IF s.byte = 9 THEN @ ELSE @ + 1], s.byte), prev, FALSE, FALSE)

Malformed(s, prev, pending) ==
    LET begins == ~pending \/ s.byte < 128 \/ s.byte >= 192
        told   == AdvanceLine(TellHere(CountColumn(s, begins), "invalid_utf8_byte"), prev)
        ended  == s.byte \in {9, 10, 13}
        r      == IF s.next_state = "comment" THEN RecoverInComment(told, s.byte \in {10, 13})
                  ELSE EnterResync(told)
        opener == s.next_state # "comment" /\ s.next_state \notin StringRows /\ s.byte \in {34, 35}
        late   == [r EXCEPT !.column = IF begins THEN @ ELSE @ + 1]
    IN CASE ~s.lim.continue                -> Stop(told)
         [] ~pending \/ opener \/ ended    -> r
         [] ~WellFormed(r, s.byte)         -> late
         [] OTHER                          -> Dispatch(Fed(late, s.byte), prev, FALSE, TRUE)

ReadByte(s0, b) ==
    LET pending == s0.need > 0
        s == [s0 EXCEPT !.text_bytes = @ + 1, !.byte = b, !.prev_byte = b]
        t == IF WellFormed(s0, b) THEN Dispatch(Fed(s, b), s0.prev_byte, ~pending, FALSE)
             ELSE IF s.next_state \in ResyncRows THEN MalformedSkipped(Utf8(s, 0, 0, 0), s0.prev_byte, pending)
             ELSE Malformed(Utf8(s, 0, 0, 0), s0.prev_byte, pending)
    IN IF s0.lim.text > 0 /\ s0.text_bytes = s0.lim.text
       THEN Stop(Tell(s0, "text_data_too_long",
                      CountColumn([s0 EXCEPT !.byte = b], ~pending).column, b, Consumed(s0)))
       ELSE [t EXCEPT !.seen = Append(@, [before |-> s0.next_state, after |-> t.next_state,
                                          faults |-> Len(t.errors) - Len(s0.errors)])]
-----------------------------------------------------------------------------
(* A run of bytes at once, from position i of the document to the end of   *)
(* what has been pulled.                                                   *)
OwnBytes(row) ==
    CASE row = "copy_string_byte" -> Printable \ {34, 92}
      [] row \in {"identifier_body", "symbol_body"} -> OfName
      [] OTHER -> {}
TokenMax(s) ==
    CASE s.next_state = "copy_string_byte" -> s.lim.string
      [] s.next_state = "symbol_body"      -> s.lim.symbol
      [] OTHER                             -> s.lim.name

\* The bytes of the whole character at i, or 0.
CharAt(data, i, len) ==
    LET u == Leader(data[i])
    IN IF u = <<>> \/ i + u[1] > len THEN 0
       ELSE IF \A k \in 1..u[1] : data[i + k] \in (IF k = 1 THEN u[2] .. u[3] ELSE 128..191)
            THEN u[1] + 1 ELSE 0

RECURSIVE RunEnd(_, _, _, _)
RunEnd(data, i, len, own) ==
    IF i > len THEN i
    ELSE IF data[i] \notin own \/ CharAt(data, i, len) = 0 THEN i
    ELSE RunEnd(data, i + CharAt(data, i, len), len, own)

RECURSIVE ClampToUtf8(_, _, _, _)
ClampToUtf8(data, i, n, len) ==
    IF n > 0 /\ i + n <= len /\ data[i + n] \in 128..191
    THEN ClampToUtf8(data, i, n - 1, len) ELSE n

\* Mutant: a run moves the column by its bytes.
CountBytes(run)  == Len(run)
CountStarts(run) == Cardinality({k \in DOMAIN run : run[k] \notin 128..191})

TextLeft(s, n) == IF s.lim.text = 0 THEN n ELSE Lesser(n, s.lim.text - s.text_bytes)

RunLength(s, i, len) ==
    LET own == OwnBytes(s.next_state)
    IN IF s.doc[i] \notin own THEN 0
       ELSE ClampToUtf8(s.doc, i,
               TextLeft(s, Lesser(RunEnd(s.doc, i, len, own) - i, TokenMax(s) - Len(s.str))), len)

TakeRun(s, run) ==
    LET last == run[Len(run)]
    IN [s EXCEPT !.str = @ \o run, !.text_bytes = @ + Len(run), !.column = @ + CountStarts(run),
                 !.byte = last, !.prev_byte = last]

RECURSIVE Spaces(_, _, _)
Spaces(data, i, len) == IF i <= len /\ data[i] \in Space THEN Spaces(data, i + 1, len) ELSE i

RECURSIVE TakeSpaces(_, _)
TakeSpaces(s, run) ==
    IF run = <<>> THEN s
    ELSE LET b == Head(run)
             t == [s EXCEPT !.text_bytes = @ + 1, !.byte = b, !.prev_byte = b,
                            !.column = IF b = 9 THEN TabStop(@) ELSE @ + 1]
         IN TakeSpaces(AdvanceLine(t, s.prev_byte), Tail(run))

SpaceLength(s, i, len) ==
    LET n == Spaces(s.doc, i, len) - i
    IN IF s.next_state \in SpaceRows /\ TextLeft(s, n) = n THEN n ELSE 0

\* Reads on to the end of what has been pulled, to an octet stream, or to
\* an error that ends the read.
RECURSIVE InterpretInputBuffer(_, _)
InterpretInputBuffer(s, bulk) ==
    LET i == Consumed(s) + 1
        n == IF bulk /\ s.need = 0 THEN RunLength(s, i, s.processed_bytes) ELSE 0
        w == IF bulk /\ s.need = 0 THEN SpaceLength(s, i, s.processed_bytes) ELSE 0
        Run(k) == SubSeq(s.doc, i, i + k - 1)
    IN IF i > s.processed_bytes \/ s.status # "running" \/ s.next_state = "octet_stream_intro" THEN s
       ELSE InterpretInputBuffer(
               IF n > 0 THEN TakeRun(s, Run(n))
               ELSE IF w > 0 THEN TakeSpaces(s, Run(w))
               ELSE ReadByte(s, s.doc[i]), bulk)
-----------------------------------------------------------------------------
(* The source, octet streams, and the loop over what the source hands out. *)
Pull(s, want) ==
    LET ends == {c \in s.cuts \cup {Len(s.doc)} : c > s.src}
        next == CHOOSE c \in ends : \A d \in ends : c <= d
    IN IF ends = {} THEN 0 ELSE Lesser(want, next - s.src)

StopAt(s, code, byte, offset) == Stop(Tell(s, code, s.column, byte, offset))

\* need bytes of an octet stream that are not in the text buffer.
RECURSIVE PullExact(_, _)
PullExact(s, need) ==
    LET got == Pull(s, need)
        t   == [s EXCEPT !.src = @ + got, !.processed_bytes = @ + got]
    IN CASE need = 0 -> s
         [] need > 0 /\ s.cut -> StopAt(s, "file_too_long", 0, s.lim.file)
         [] need > 0 /\ ~s.cut /\ got = 0 -> StopAt(s, "read_complete_chunk_failed", 0, s.processed_bytes)
         [] OTHER -> IF s.lim.file > 0 /\ t.processed_bytes > s.lim.file
                     THEN StopAt(t, "file_too_long", 0, s.lim.file)
                     ELSE PullExact(t, need - got)

OsReadExact(s, n) ==
    LET residual == Lesser(s.processed_bytes - Consumed(s), n)
        t == PullExact(s, n - residual)
    IN IF t.status = "stopped" THEN t ELSE [t EXCEPT !.octet_bytes = @ + n]
LastOctets(s, n) == SubSeq(s.doc, Consumed(s) - n + 1, Consumed(s))

RECURSIVE ReadOctetStream(_)
ReadOctetStream(s) ==
    LET t   == OsReadExact(s, 1)
        tag == LastOctets(t, 1)[1]
        l   == OsReadExact(t, 2)
        len == LastOctets(l, 2)[1] + 256 * LastOctets(l, 2)[2]
        chunklen == IF len = 0 THEN 65536 ELSE len
        c   == OsReadExact(l, chunklen)
    IN IF t.status = "stopped" THEN t
       ELSE IF tag = 0 THEN [t EXCEPT !.token_type = "unknown", !.str = <<>>,
                                      !.sent = Append(@, <<"octet_stream_end", <<>> >>),
                                      !.next_state = "octet_stream_outro"]
       ELSE IF tag # 1 THEN StopAt(t, "octet_stream_out_of_sync", tag, Consumed(t) - 1)
       ELSE IF l.status = "stopped" THEN l
       ELSE IF c.status = "stopped" THEN c
       ELSE ReadOctetStream([c EXCEPT !.sent = Append(@, <<"octet_chunk", LastOctets(c, chunklen)>>)])

RECURSIVE ReadBuffer(_, _)
ReadBuffer(s, bulk) ==
    LET t == InterpretInputBuffer(s, bulk)
    IN IF Consumed(s) = s.processed_bytes \/ s.status # "running" THEN s
       ELSE ReadBuffer(IF t.next_state = "octet_stream_intro" /\ t.status = "running"
                       THEN ReadOctetStream(t) ELSE t, bulk)

\* A document may end between assignments, in a comment there too; one that
\* ends within a character of such a comment has an error more.
EndOfInput(s) ==
    LET whole == s.next_state = "value_outro" \/ (s.next_state = "comment" /\ s.last_state = "value_outro")
        cutShort == SetEofError(s, "invalid_utf8_byte")
        skipped == IF s.next_state \in ResyncRows /\ s.text_bytes > s.resync_start_bytes
                   THEN [s EXCEPT !.skipped_bytes = @ + s.text_bytes - s.resync_start_bytes] ELSE s
    IN CASE whole /\ s.need = 0 -> [s EXCEPT !.status = "accepted"]
         [] whole /\ s.need > 0 /\ s.lim.continue ->
               [Utf8(cutShort, 0, 0, 0) EXCEPT !.status = "accepted", !.recovery_count = @ + 1,
                                               !.skipped_bytes = @ + 1]
         [] whole /\ s.need > 0 /\ ~s.lim.continue -> Stop(cutShort)
         [] OTHER -> Stop(SetEofError(skipped, "got_incomplete_bvnr_stream"))

RECURSIVE LexRun(_, _)
LexRun(s, bulk) ==
    LET got  == Pull(s, 65536)
        over == s.lim.file > 0 /\ s.processed_bytes + got > s.lim.file
        nb   == IF over THEN s.lim.file - s.processed_bytes ELSE got
        t    == ReadBuffer([s EXCEPT !.src = @ + got, !.processed_bytes = @ + nb, !.cut = over], bulk)
    IN IF got = 0 THEN EndOfInput(s)
       ELSE IF t.status # "running" THEN t
       ELSE IF over THEN Stop(SetEofError(t, "file_too_long"))
       ELSE LexRun(t, bulk)
-----------------------------------------------------------------------------
(* What a document comes to: what is sent, told and counted of it, and     *)
(* where the reader is left.                                               *)
Outcome(s) ==
    <<s.status, s.next_state, s.token_type, s.str, s.need, s.prev_byte, s.line, s.column, s.text_bytes,
      s.octet_bytes, s.sent, s.errors, s.recovery_count, s.skipped_bytes>>

ByteAtATime(doc, lim) == LexRun(Fresh(doc, lim, {}), FALSE)
InRuns(doc, lim, cuts) == LexRun(Fresh(doc, lim, cuts), TRUE)

\* It is the same however the document is cut into pieces and whether its
\* bytes are taken one at a time or in runs.  (No document here is beyond
\* the rows kept.)
PiecesAgree(doc, lim) ==
    LET ref == Outcome(ByteAtATime(doc, lim))
        n   == 5 + Len(doc)
    IN /\ ref[2] # "beyond"
       /\ \A k \in 5..(n - 1) : Outcome(InRuns(doc, lim, {k})) = ref
       /\ Outcome(InRuns(doc, lim, 5..n)) = ref

\* An error names a byte of the document, where it stands.
ErrorsPoint(doc, lim) ==
    LET s == ByteAtATime(doc, lim)
    IN \A i \in DOMAIN s.errors :
          LET byte == s.errors[i][4]  offset == s.errors[i][5]
          IN byte # 0 => offset < Len(s.doc) /\ s.doc[offset + 1] = byte

\* skipped_bytes is how many bytes were thrown away one by one: those that
\* left the reader skipping, but for the "." of the key it resumes at, and
\* one for each error within a comment.
SkipsCounted(doc, lim) ==
    LET s == ByteAtATime(doc, lim)
        h == s.seen
        Resumes(i) == /\ h[i].after = "resync_dot" /\ i < Len(h)
                      /\ h[i + 1].after = "identifier_body"
        skipped == {i \in DOMAIN h : h[i].after \in ResyncRows /\ ~Resumes(i)}
        inComments == {x \in (DOMAIN h) \X (1..2) :
                          h[x[1]].before = "comment" /\ x[2] <= h[x[1]].faults}
        atTheEnd == IF \E e \in DOMAIN s.errors : s.errors[e][1] = "invalid_utf8_byte" /\ s.errors[e][5] = Len(s.doc)
                    THEN 1 ELSE 0
    IN (s.status = "accepted" \/ s.errors[Len(s.errors)][1] = "got_incomplete_bvnr_stream") =>
          s.skipped_bytes = Cardinality(skipped) + Cardinality(inComments) + atTheEnd
=============================================================================

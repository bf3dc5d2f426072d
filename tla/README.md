# bovnar in TLA+

A verification development of the bovnar serialization library
(`src/`): TLA+ modules of its stateful parts, TLC configurations that check
them on small instances, and TLAPS proofs of what holds for every value of the
limits.  Every definition is translated from the C source under `src/src`; the
entry for it in `PROJECT.json` names the lines.

```
tlc -workers 2 -config MCReader.cfg MCReader     # model-check one run
tlapm ReaderProofs.tla                           # check one module's proofs
```

Contents: 1 the system, 2 the modules and the code, 3 the runs, 4 bounds and
abstractions, 5 fairness, 6 the proofs, 7 disagreements found, 8 what is not
modelled, 9 the plan.


## 1. The system

bovnar is a C99 library without threads and without persistence.  A *reader*
turns bytes into a stream of events and calls the consumer back with each; a
*writer* turns events into bytes; everything else is a consumer of the one or a
driver of the other.  What is hard is therefore mostly not concurrency but
*state machines*: seven or eight partly redundant records of "where are we"
(state-table row, nesting levels, array frames, saved widths, flags, key path,
annotation in force, channel buffers) advanced by callbacks within callbacks,
each of which may fail half way, with error recovery that must bring all of them
back into agreement.  Concurrency enters where documents cross a pipe between
two programs, either of which may die; and arithmetic is hard everywhere a
number, a date or a float changes its representation.

| Component | State it keeps | Operations | Hard | Correct when |
|---|---|---|---|---|
| Text scanner and structure (`lexer/`) | state-table row, token buffer, struct and array levels, a frame per array, row widths, item budget, UTF-8 progress, positions | one dispatch per byte or run of bytes, end of input, one chunk or end of an octet stream | frames, levels and state row are three views of one nesting; handlers that fail after having delivered; bulk copying beside the byte machine; tags cut by buffer ends | events nest, keys and rows never mix, limits hold, a document is accepted only closed, and every cut of the bytes gives the same |
| Error recovery (`lexer/`, resync) | saved depths, brackets skipped, sub-state for strings, escapes and comments | enter, skip, resume | starts in the middle of any handler; must know what is string and what is code; must close exactly the arrays of the abandoned statement | the consumer still sees a well-nested stream; text and structure stay in step; the bytes thrown away are counted |
| Validator (`validator/`) | annotation in progress, type, unit and spelling in force, key path, unit rules | one call per token | what is in force is put back by serial number; the path must not lie after an overflow | every value carries the type and unit written for it; a rule applies to the field it names |
| Writer (`writer/`) | two halves: the ordering gate and the serialiser, each with its own per-depth arrays; a text buffer | one call per event, version, finish | the halves must agree on where commas, units and semicolons are due though neither asks the other | what it accepts, the reader reads, and reads as the same events |
| Canonical observer (`writer/bovnar_canon_observer.c`) | a serialiser | one call per event | no gate between the reader's events and the text | canonical form says the same and re-reads as itself |
| Multiplexer (`stream/`) | none; a chunk buffer per call | begin, send, end | messages longer than a chunk | messages arrive in order, once |
| Demultiplexer (`stream/`) | partial message or length per channel, key scope, latched error | one call per event, set_key | lengths cut by chunks, channels interleaved, reuse after a failed read | what is told of a channel is what its bytes say; a loss is reported |
| Document streams (`stream/`) | one reader reused per frame, a growing payload buffer, a counter | frame_write, doc_stream_read | short reads, continuing past a failed document, a sender that dies | each frame is read once, failures stay in their frame, truncation is not a clean end |
| DOM builder (`dom/`) | stack of open containers, a deferred pop, row widths, shared unit blocks with reference counts | one call per event; destroy | allocation failure at any event; sharing | tree mirrors the events, counts are exact, nothing leaks |
| DOM queries | none | lookups by path | matrices take two indices | a path finds the value it names |
| Byte sources and sinks (`io/`) | descriptor or memory position | pull, push | short transfers, EINTR, the other end gone | every byte once, in order; nobody waits for ever |
| Numbers (`utils/bvn_int.c`, `bvn_float.c`, `bvn_float_ieee.c`, string helpers) | none | parse, format, convert, arithmetic | rounding once, limbs, widths, bases | results are those of exact arithmetic |
| Dates and instants (`utils/bvn_gregorian_date.c`, `bvn_datetime*.c`) | none | calendar, epochs, leap seconds, literals | two counts that differ by leap seconds, ends of int64 | conversions invert each other |
| Unit conversion, unit tables, command line, bindings | – | – | – | – |

How they interact.  `bvnr_read` pulls bytes from a source, feeds the lexer,
which calls `bvn_val_receive` at token boundaries; the validator calls the
consumer (`on_verified`, `on_error`).  A consumer returns false to end the read.
The demultiplexer, the DOM builder and the canonical observer are such
consumers.  The writer is called from the outside with the same events and
pushes text to a sink; the canonical observer drives the writer's second half,
the serialiser, without its first.  The multiplexer and the embedding of
documents are ordinary clients of the writer.  `bvnr_doc_stream_read` opens one
reader anew for every frame, and `bvn_dom_parse_fd` takes everything a
descriptor gives before it parses.


## 2. The modules and the code

| Module | Models | Code it stands for |
|---|---|---|
| `EventStream` | what a consumer is promised: an abstract specification of the event stream | `bovnar.h`, `bvnr_event_t` |
| `Reader` | the reader: one action `Byte(b)` per byte class with the whole handler, `OctetChunk`, `OctetStreamEnd`, `EndOfInput`, `InputFails` | `bovnar_lexer.c`, `bovnar_state_table.c`, the structural half of `bovnar_validator.c` |
| `ReaderRefinement` | the mapping of the reader's state to `EventStream` | frames and levels |
| `ReaderObserved` | the reader beside a plain scan of the same bytes, and beside a count of the elements told | `resync_*` states, `array_items` |
| `ReaderProofs`, `ReaderRefinementProofs` | theorems about `Reader`, about its two observers, and that it implements `EventStream` | |
| `Input` | the reader's input side on real bytes: pieces, runs, positions, limits, octet framing | `bvn_lex_run`, `bvn_try_bulk_run`, `bvn_read_octet_stream` and what they call |
| `TypeInForce` | type, unit and the unit's spelling from annotation to value | `bovnar_validator.c`, the array frames of `bovnar_lexer.c` |
| `Canonical` | the canonical observer over the reader's events | `bovnar_canon_observer.c`, `bvn_ser_serialize_event` |
| `TypeLaws` | what those two are checked against | |
| `KeyPath`, `KeyPathProofs` | `bvn_key_path_t` under any document; theorems | `bvn_path_*` in `bovnar_validator.c` |
| `Writer` | the writer: one action per event, gate and serialiser together | `bovnar_writer.c` |
| `RoundTrip`, `WriterProofs` | a writer whose text a `Reader` reads (`INSTANCE`); theorems about the writer alone and about the two | both |
| `Demux` | the demultiplexer under any document and any chunks | `bovnar_stream.c`, section 3 |
| `MuxDemux`, `MuxProofs` | `bvnr_mux_*`, or any other producer, feeding `Demux`; theorems about both | `bovnar_stream.c`, section 3 |
| `DomBuilder`, `DomProofs` | the event consumer that builds a tree: one action per event, each allocation may fail; lookups by path, with their limits; theorems | `bovnar_dom_builder.c`; nodes, unit blocks and lookups of `bovnar_dom.c` |
| `DomShape` | the homogeneity check of a finished tree | `bovnar_dom_builder.c` |
| `DomDocument`, `DomDocumentProofs` | the builder fed by an instance of `EventStream`, and what its tree is judged against; theorems | |
| `DomChecked` | such a document with the check of its finished tree (`DomShape`) | `bvn_dom_parse_policy` |
| `FdChannel` | descriptors on a pipe | `bovnar_io.c` |
| `TextOut` | the writer's buffer in front of a sink | `bovnar_writer.c` |
| `DocStream` | frames of documents: sender and reader | `bovnar_stream.c` |
| `Pipe`, `PipeProofs` | two programs and a pipe: `TextOut` and the DOM's slurp, or `DocStream`; theorems | |
| `Calendar`, `Instants` | dates, epochs, leap seconds, summer time, datetime literals | `bvn_gregorian_date.c`, `bvn_datetime.c`, `bovnar_validator.c` |
| `CivilTime` | what dates and instants are checked against | |
| `BigInt`, `IntegerText` | big integers; integer literals of every base and width | `bvn_int.c`, `bovnar_validator.c`, `bovnar_writer.c`, `bovnar_dom*.c`, `bovnar_utils.c` |
| `NumberLaws` | what integers are checked against | |
| `Rounding`, `FloatLiteral`, `FloatFormats` | rounding, literals to floats, floats to their shortest text, decimal formats and fixed point | `bvn_float.c`, `bvn_float_ieee.c`, `bvn_float_impl.h` |
| `FloatLaws` | what floats are checked against | |
| `Library` | calls of the functions that keep no state, one per step | |
| `MCReader`, `MCKeyPath`, `MCRoundTrip`, `MCMuxDemux`, `MCDom`, `MCLibrary` | instances for TLC | |

**Reader.**  `next_state` is the row of the state table, and a byte belongs to
the class of bytes the table tells apart.  The handler of a table entry is one
operator with the name of the C function in CamelCase (`bvn_action_array_outro`
is `ArrayOutro`), and an action takes the handler with everything it calls: the
token handed to the validator, the events delivered, the error raised and, with
`continue_on_error`, recovery entered with the arrays closed that the abandoned
statement owned.  `arr_frames`, `array_items`, `curr_row_size`,
`array_row_size`, `struct_nesting_level` and the others have the code's names.
A handler that asks for its byte to be read again sets `again`.  The bytes of a
literal are not there; that a literal is malformed, too long or does not fit its
type is a choice made at the byte where the code finds out.

**EventStream** keeps only what is open, what may come next and the type in
force.  `ReaderRefinement` rebuilds the stack of open containers from frames
that store only "structs open when this array opened"; `DeliversEventStream` is
the claim that every batch of events a byte causes, error or not, is one the
abstract stream allows.

**Input** has what `Reader` leaves out: bytes.  A document is a sequence of
them, handed over in pieces of any size by `Pull`; the same document is read a
byte at a time, a run at a time (`TakeRun`, `TakeSpaces`), and in every cut.
Only the rows of the state table that assignments of symbols, strings and octet
streams use, comments and recovery are there; a byte that leaves them puts the
reader in a row "beyond", and the document says nothing.

**TypeInForce** has a document as tokens.  `Take` is the handler of one; the
record is the validator's (`value_type`, `parsed_unit`, `unit_src`,
`parsed_unit_serial`, `inferred_default_vtype`, `has_annotation_unit`) with the
frames in which an array keeps them.  **Canonical** takes the events told and
writes tokens, with the serialiser's flags (`emitted_unit`, `need_comma`, ...)
under their names; these tokens are read again by `TypeInForce`.  A unit is a
member of a small set with two spellings of one of them, a literal one of nine
forms.  **TypeLaws** looks each value's type and unit up in the document.

**KeyPath.**  The document (`open`, `key`, `at`) is the environment, the fields
of `bvn_key_path_t` the state, and `bvn_path_set_key`, `push`, `pop` the
transitions, called where the validator calls them.

**Writer.**  Each action is one call of `bvnr_write_event` that succeeds: the
guard is what `bvn_writer_validate_event` asks, the effect is the update of the
gate *and* of the serialiser, and `text` of the call is recorded as a sequence of
the reader's byte classes.  `CallFails` latches the error.  In `RoundTrip` that
text goes to an instance of `Reader`; the two run in lockstep.

**Demux.**  The consumer callback is called from within the loop of
`demux_feed`; a byte of a length, or a run of message bytes, is one step, and no
other event is taken until the fragment is used up.  A read may fail at any
event; the demultiplexer outlives it.  In `MuxDemux` chunks come from
`bvnr_mux_send` or are any chunks at all; `bytes` records each channel's bytes
and `Parse` says what they mean as a whole.

**DOM.**  `DomBuilder` has two heaps, of nodes and of unit blocks, each
numbered in the order they were made, so that "freed", "shared" and "still held"
can be told apart.  An event is one action; each allocation in it may fail, and
the event is then refused with exactly what the code has undone.  The unit is a
parameter of every event that makes a node: a struct, an array and an octet
stream take the unit in force as a value does (`builder_node_unit`, without a
spelling), and so may hold a block of their own, share the last one, or fail at
it.  An array's pop is deferred, as in the code, because a `/` may follow.
`Lookup` has the limits of `bvn_dom_lookup`: a key that does not fit
`segment[256]`, or more than the 32 indices of `idx[]` after one key, and the
path leads nowhere (`WithinLimits`).  `DomDocument` lets the
reader say whatever `EventStream` allows, records what was `told`, and has the
checks of the whole tree and `Destroy`.  Which unit is in force where an array or
octet stream stands is left open (`InForce`; `TypeInForce` has the rule).  At a
struct it is always the default: a struct takes no annotation, the reader refuses
one where a type is in force, and an array's element leaves no unit behind.  `BuilderSpec`, which the proofs are
about, lets anybody call: any events in any order, but that a struct ends only
where one is the innermost scope.  Every action of `DomDocument` is one of its
actions and what the stream says of it; that the stream ends no other struct is
`StructEndsItself`.

**Pipe.**  `FdChannel` is `push_fd` and `pull_fd` over a kernel's pipe that
takes and gives any part of what is asked.  The actions of the three processes
interleave freely: the writing program (`TextOut`, or `DocStream`'s sender), the
kernel, and the reading program (the slurp of `bvn_dom_parse_fd`, or
`bvnr_doc_stream_read`).  Either program may die at any step, which closes its
end.

**Library.**  The functions that keep no state are operators.  A step of
`Library` calls one with one input, and its properties are action properties:
they judge what that call answers.  Definitions and laws are apart: `Calendar`,
`Instants`, `BigInt`, `IntegerText`, `Rounding`, the `Float*` modules,
`Input`, `TypeInForce` and `Canonical` are translated from the code, `CivilTime`,
the `*Laws` modules and the last part of `Input` say what it should have
answered.


## 3. The runs

| Run (cfg) | States | What it shows |
|---|---|---|
| `reader` (`MCReader`) | 1.0 M | The reader's views of nesting agree through every error and recovery, and it implements `EventStream` |
| `reader_observed` (`ReaderObserved`) | 0.8 M | Recovery never loses track of string, comment and code, nor of characters; the element budget is never exceeded |
| `key_path` (`MCKeyPath`) | 37 k | A reported path is right outside arrays always, everywhere while nothing was lost, and known where it fits |
| `round_trip` (`MCRoundTrip`) | 1.3 M | The reader takes whatever the writer accepts, and reads the same events |
| `mux_demux` (`MCMuxDemux`) | 0.7 M | Messages are told in order, once, whatever the chunks; losses are reported; scope and limits hold |
| `dom` (`MCDom`) | 1.4 M | The tree is the document, paths find its values within a lookup's limits and nothing beyond them, counts are exact, and nothing outlives a document or a failure |
| `pipe` (`Pipe`) | 0.2 M | Text and frames cross a pipe whole, and nobody waits for ever |
| `library` (`MCLibrary`) | 110 k | The stateless functions agree with their definitions |
| `key_path_tables`, `escape_cut_short`, `abandoned_type`, `long_fraction` | | counterexamples: section 7 |

The properties, by what they protect against:

* *Nesting after errors* – `FramesOrdered` (arrays nest in the structs they were
  opened in), `BoundaryOutsideArrays` and `RowsInsideArrays` (the state row and
  the frames agree on whether a key or an element is due),
  `InlineUnitsOutsideArrays` (the flag `in_array_element` agrees with the
  frames), `AcceptedIsClosed`, and above them `DeliversEventStream`.
* *Recovery* – `LexicalAgreement`, `CharactersTracked`.  `LexicalAgreement`
  excepts, by name, the two bytes after which the reader does lose track (7.2, 7.12).
* *Budget* – `ElementsWithinBudget`: never is an element *told* past
  `max_array_items`, through nested rows, `/` dimensions and arrays in structs.
* *Stale paths* – `RightOutsideTables`, `RightWhenLossless`,
  `KnownWhereItFits`.
* *Two halves of the writer* – `UnitsMirrored` (the serialiser's "a unit was
  written" is what the gate says governs), `RowsNested`.
* *Writer against reader* – `ReadsBack`, `SidesAgree` (the two agree on levels
  and type in force between calls), `FinishedIsWhole` (what `write_finish`
  reports as success is accepted).  `ReadsBack` excepts, by name, what 7.6 and
  7.7 describe.
* *Demultiplexing* – `MessagesOfStream` (against the reference `Parse`),
  `SentIsTold`, `LossIsLatched`, `NothingBleeds`, `ScopedOutsideTables`,
  `ChannelsBounded`.
* *The tree* – `TreeMirrorsEvents` (the tree against the list of events told),
  `StructEndsItself` (whatever nests in it, a struct that ends is the innermost
  scope), `PathsFindValues` (a path finds its value, or nothing if it has more
  indices after a key than a lookup takes; never another value),
  `BlocksCounted` (a unit block's count is the number of its holders, values and
  containers and the builder), `EverythingFreed`.
* *The pipe* – `TextWhole` (what was handed over is a gapless prefix, all of it
  after a successful finish; what is parsed is what was handed over),
  `FramesWhole` (documents are told whole, in order and judged right; success
  means the stream ended between frames); and as liveness `NoOneWaits`.
* *The library* – `CivilTimeAgrees`, `NumbersAgree`, `FloatsAgree`;
  `InputAgrees` (one document, one outcome, in every cut; errors stand where
  they say; `skipped_bytes` is what recovery threw away); `TypesAgree` (every
  value is told with the type, unit and spelling written for it, a misfit is
  refused, and the canonical form says the same and is a fixed point).

Each is paired in `PROJECT.json` with a plausible bug (an operator whose name
ends in what is wrong: `BudgetSpent_late`, `Unterminated_never`,
`ReceiveTypeUnitSerial`, ...) under which the run finds it violated.  Some are bugs
the code once had: the comment in `bvn_val_receive_type` tells of the last.


## 4. Bounds and abstractions

*Bytes and literals.*  In `Reader` documents are sequences of byte classes, one
per group of bytes that every row of the state table treats alike.  Literals
have no characters; every outcome the code can come to about one is a choice
where it comes to it.  So every structural behaviour of the code is a behaviour
of the model, and a few of the model's are not the code's (a one-byte literal
may be "too long"), which is the safe side for the properties here.

*Reader.*  Two levels of structs and of arrays are what it takes for every
relation between a frame and its neighbours: an array in a struct in an array in
a struct, an error in the innermost with the outer ones left open, and a level
refused because the limit is reached.  Two items let the budget run out at a
`,`, at a nested `[`, at a `/` row and in a struct's own array.  One annotated
type beside the plain one is enough to tell an element of the right type from a
wrong one.  `MaxSkippedBrackets` = 1 bounds brackets inside a skipped region,
whose counting is the same at any depth.  `Flags` takes recovery on and off, and
recovery with the two flags that turn a recoverable error into a fatal one.
`ReaderObserved` has one level of structs less, the same array limits, and
recovery on: the scan and the count do not depend on outer structs.

*Input.*  A document is a beginning that puts the reader in one row, up to four
bytes from those the row tells apart, and an end by which a lost track shows.
Strings hold three bytes, symbols three and names two, so that a limit falls
before, inside and after a run and inside a two- or three-byte character.  The
pieces are all cuts of the document in one and in two, and single bytes.  On
12 351 such documents the operators were compared with the compiled library,
event by event, position by position.

*Types.*  About 8 800 documents: every annotation before every form of literal
with every unit after it; arrays of up to three elements of twenty-five kinds, among
them rows, rows continued by `/`, structs with a typed member and structs whose
member is abandoned, under four annotations.  Three elements are what it takes
for one to change what is in force, one to put it back and one to see it.
Widths, bases and digits are not told apart; a unit inside an array is refused
by the grammar before it gets here.  `MaxArrays` = 4 is never reached.  On some
11 000 documents, those among them, the events told, the refusals and the
canonical text were compared with the compiled library.

*KeyPath.*  Keys of one, two and three bytes, a key buffer of two, a path of six
bytes and of two components, and structs four deep: key, byte and depth limits
run out separately, in every order, and at different structs of one document.

*Writer and RoundTrip.*  One struct level and two array levels, rows of two
elements, one numeric family that takes a unit, one that does not, one unit.
The writer is called only when the reader has read everything, which loses
nothing because neither looks at the other.  The caller stays within the
reader's `max_array_items` (the writer has no such limit) and does not overfill
a `/` row (`Overfull`: the writer refuses it at the row's end, the reader at the
element; either way the document fails).  TLC explores under the `VIEW` `live`:
states are identified that differ only in what a closed row left behind in
per-depth arrays that is overwritten before it is read, and in history the
invariants do not read.  Both the next-state relation and the invariants are
functions of `live`, so no reachable violation is lost.

*MuxDemux.*  A varint byte holds four values and a varint two bytes, the last of
which holds two values (128, ten and two in the code).  The bytes {0, 1, 2, 5}
then give every kind of length: zero, one byte, two bytes, cut short, over
`max_message` (4), no varint, and longer than a varint.  Chunks have three bytes
(65536 in the code), so messages of 0 to 5 bytes take one chunk or several.  Two
channels are kept, and a third id is in reach.  Another producer puts
three channel bytes in a stream (`MaxStream`), `bvnr_mux_send` two messages
(`MaxSent`).  One struct level around (`MaxOpen`) is enough for a
key inside an element of an array.  `Keys` are interchangeable, so TLC takes
them as symmetric.  `ReusedAfterFailure` says whether the caller keeps a
demultiplexer whose read failed: in the passing run it does not.

*DOM.*  Documents of five values and containers (`MaxNodes`), three deep, with
up to three rows to an array: enough for a matrix in an array in a struct, a
second row that differs from the first, and a failure with several containers
open.  The builder records two row widths (`RecordedRows`; eight in the code), so
the third is not recorded.  A unit block may have three holders (`RefsMax`), so
a fourth holder of the unit gets a block of its own.  Arrays and octet streams
stand under the default unit or one that needs a block and that values use too
(`InForce`); `no_unit` is a static block like the default and is left to the
values.  A lookup takes three indices after a key (`MaxIndices`; 32 in the code):
an array in an array in an array is the last that is found, and with a matrix
among the three a path is one index too long.  The two keys of a document are of
the longest identifier the reader lets through (`MaxIdentifier`, 255 in the
code), which just fits `SegmentSize`; a third is one byte longer and must not
get as far.  The first three values
(`VariedNodes`) take any unit and spelling, the rest the plainest, which keeps
the product of the choices in reach; sharing and its limit need no more.  A
payload is one value: the tree's shape and the holding of blocks do not look at
it.

*Pipe.*  A pipe of two bytes, a buffer of two, pushes of up to three bytes and
seven bytes of text: a push is smaller than the buffer, fills it, or goes past
it; a write is taken in part.  A header of two bytes (magic and length), frames
of length 0, 2 and 4 with a limit of 3, and a stray byte (length -1); a payload
buffer that starts at one byte, and a slurp that starts at one and may take six:
every buffer grows and every limit is hit.  Three frames let one fail between
two good ones.

*Numbers.*  A limb has two bits (32 in the code), so twenty-bit
integers have the ten limbs and all the carries of much larger ones; an integer
has at most sixteen limbs.  Digits are taken one at a time where the code takes
nine or seven, which changes no result, only how often it multiplies.  A float
has a precision of 3, 5 or 8 bits, exponent fields of 3 to 5; limits that are
large in the code are scaled with them: `MaxBits` 27 (bits of a numerator),
`Reserve` 8, `GuardBits` 2, `FloorBits` 6, `WideSig` 4, `WideBits` 10,
`ExpLimit` 30, `HexLimit` 35, `RoDigits` 4, `RoMargin` 2, `DecExpLimit` 30.  The
literals are those around every midpoint and limit of these formats, and longer
than what is kept of them.

*Dates.*  Years 1590 to 2130 and modified Julian days within 100 000 of the
epoch; days around every kind of leap year, every leap second with its
neighbours, the years summer time changed its rules, and instants at the ends of
the 64-bit count.

*The environment.*  The calling code may do anything the interface lets it, in
any order, and may refuse any event.  Allocation may fail where the model has
the allocation.  The demultiplexer's document is one read without recovery.


## 5. Fairness

Within one program none is assumed and no liveness is stated.  The library has
no schedule of its own: it moves when its caller calls, each call runs to its
end, and a caller may stop at any point.  "Eventually" has no meaning there
beyond the termination of a loop, which the models take as steps.  What matters
is what holds *whenever* the caller stops, and that is stated as safety:
`AcceptedIsClosed`, `FinishedIsWhole`, `LossIsLatched`, `EverythingFreed`.

Across a pipe two programs and a kernel do have a schedule, and `PipeSpec` states
it: weak fairness of each program's own steps (`WriterSteps`, `Sends`, `Reads`,
`Slurps`), since nothing in the library blocks but a read or a write; of a
caller that finishes a document it began and exits (`WriterFinish`,
`WriterExits`), without which a pipe never ends; and of the kernel (`PipeTakes`,
and refusing once there is no reader), which POSIX promises of a pipe with room.
No fairness is assumed of what *may* happen: errors, interrupts, vetoes, a
program that dies.  Under it `NoOneWaits` holds: both ends are given up in the
end.

Deadlock is checked in `key_path` and `mux_demux`.  It is not where things end: a
read after `accepted` or `failed`, a writer after `bvnr_write_finish` or a
latched error, a destroyed tree, two programs that have exited, and a `Library`
step, which is one call.


## 6. The proofs

TLAPS checks these for every set of types, keys, families and units, every value
of the limits, and inputs of any length.  The only assumptions are the named
ones next to the constants (limits are positive or natural numbers, `Plain` is
not a type, and so on), which TLC evaluates in the runs.

| Theorem | States |
|---|---|
| `ReaderProofs!TypeCorrect` | `Spec => []TypeOK` |
| `ReaderProofs!FramesNest` | `[]FramesOrdered` |
| `ReaderProofs!KeysOutsideArrays`, `RowsStayInside` | `[]BoundaryOutsideArrays`, `[]RowsInsideArrays` |
| `ReaderProofs!NoUnitOnElements` | `[]InlineUnitsOutsideArrays` |
| `ReaderProofs!AcceptedDocumentsClosed` | `[]AcceptedIsClosed` |
| `ReaderProofs!ScanAgrees`, `ScanCharacters` | `[]LexicalAgreement`, `[]CharactersTracked` |
| `ReaderProofs!BudgetHolds` | the action property `ElementsWithinBudget` |
| `ReaderRefinementProofs!EventsDelivered` | `Spec => DeliversEventStream`: the reader implements `EventStream` |
| `KeyPathProofs!PathTypeCorrect`, `PathRightOutsideTables`, `PathRightWhenLossless`, `PathComesBack` | the key path's invariants |
| `WriterProofs!WriterTypeCorrect`, `WriterRowsNest`, `WriterUnitsAgree` | the writer's invariants |
| `WriterProofs!SidesCountAlike`, `FinishedDocumentsWhole` | `[]SidesAgree`, `[]FinishedIsWhole` of the round trip |
| `WriterProofs!NothingTurnedAway` | of `ReadsBack`, what can be said of a state: nothing where the reader stands turns the next piece away |
| `MuxProofs!DemuxTypeCorrect`, `DemuxBounded`, `StreamsApart`, `ScopeRespected` | the demultiplexer's invariants |
| `MuxProofs!MuxImplementsDemux` | the composition with a producer is an implementation of `Demux` |
| `MuxProofs!MessagesAreTheStreams`, `SentArrives`, `LossIsNeverSilent` | `[]MessagesOfStream`, `[]SentIsTold`, the action property `LossIsLatched` |
| `PipeProofs!TextCrossesWhole`, `FramesCrossWhole` | `[]TextWhole`, `[]FramesWhole` |
| `DomProofs!BlocksNeverLost`, `EverythingGivenBack` | `[]BlocksCounted`, `[]EverythingFreed` |
| `DomDocumentProofs!TreeIsTheDocument`, `StructsEndThemselves` | `[]TreeMirrorsEvents`, the action property `StructEndsItself` |
| `DomDocumentProofs!ValuesFoundByPath` | `[]PathsFindValues`, for any `MaxIndices` and any keys the reader lets through |
| `DomDocumentProofs!ReaderCallsBuilder` | `ToldSpec => BuilderSpec`: a reader that keeps to `EventStream` makes only the calls `BuilderSpec` allows |

Each module follows the same plan: an inductive `IInv`, a lemma per action that
it is kept, one theorem `Spec => []IInv`, and the properties as corollaries.

*Reader.*  `IInv` is `TypeOK /\ Nested`.  None of the properties is inductive by
itself: that `}` may only be read outside arrays depends on the frame of the
innermost array having a struct level at most the current one, that on how
frames are wiped at `;`, and that in turn on the state row agreeing with the
frames.  `Nested` says all of it at once, including inside skipped regions
(where the saved depths must be those of a statement boundary).

*The reader observed.*  `LexInv` relates the row of the state table to the
scan: what the row takes the next byte for is where the scan stands, and what is
owed of a character (`utf8_need`) is what the scan is inside of.  It is kept by
every row but for the two deviations that `LexicalAgreement` excepts, which the
proof finds at the two rows 7.2 and 7.12 name and nowhere else.  `BudgetInv` says
that elements told and the element under way that is not told yet are together
within `array_items`, and that where an element is over no token is left; each
batch of events is then counted once.

*The reader against EventStream.*  `EventStream` has a stack of containers and a
set of views a batch may lead to; the reader has frames and a state row.  The
proof has four parts.  `Leads(c, evs, d)` is a walk through a batch, a view after
each event; walks compose, and one that starts at the consumer's view makes the
batch legal (`LeadsDelivers`), also when a callback stops it half-way
(`EmitDelivers`).  `StackRight` says where each container of the rebuilt stack
stands, so that a handler which opens or closes one is seen to push or pop it
(`StackWith` and what follows).  `Shown` gives the consumer's view for every row
of the state table.  Then there is one lemma per handler, which names the walk and
the view at its end.  Recovery is the long one: the row ends it tells are a walk
over the arrays the innermost struct owns, however many they are.  The
invariant is `IInv` with three more conjuncts: `TokenOver` and `TokenUnder`
(where a value may be over there is something to tell, a null or the value, and
where it has been told there is nothing left to tell twice), and that nothing is
open before the read begins.

*KeyPath.*  A pop must undo the push it belongs to.  `IInv` adds to `TypeOK`
that pushes balance (`lost` plus the components are the open structs), that the
recorded keys are those of the outer structs, which key is in flight, and that
nothing is missing while `lossless`.  `PathComesBack` needs `LossInv` as well:
a push is lost only where the path would not have fitted, and lengths are those of
the prefixes.

*Writer.*  `WriterUnitsAgree` needs `RowsNested` for the per-depth entries to
belong to the open rows, and `RoomAfterRow`: where a `/` may still follow a
closed row there is a saved entry at that depth for the row it announces.

*Round trip.*  Neither side's state says anything of the other's while text is
unread, so no relation between the two is inductive that leaves the text out.
`Standing` is what the reader has of a place: the state row, whether a token is
pending, the open structs, for each open row its struct, elements and width, and
how many events it still owes.  `After(r, piece)` is where one piece of text
takes such a place, and `Leads(r, t, s)` that reading `t` leads from `r` to `s`.
`TripInv` says that the unread text leads from `Standing` to a place that is
`Synced` with the writer: as many structs, for each row what the writer's arrays
say (`GateRows`), and the state row that the writer's flags imply (`Placed`).  It
also has what makes `Placed` a state (`Flagged`: which flags exclude each other,
where a row has an element, where a comma is due) and what the history variables
say (`History`).  The proof has two halves.  On the reader's side there is a
lemma for each piece of text (`TakesDot` to `TakesLbr`): if `Reader` takes it and
goes on, it goes where `After` says, the rest of the way is unchanged
(`ReadLeads`).  On the writer's side there is one for each event (`...Follows`):
the text it writes is a walk from the old synced place to a new one, put
together from walks for a comma, a `;`, a literal (`CommaGoes`, `SemiGoes`).
When nothing is unread the reader stands where the writer is (`AllRead`), of
which `SidesAgree` and `FinishedIsWhole` are readings.  Both hold whatever
deviation has happened, and `SidesAgree` also of rows that are `Overfull`.

`NothingTurnedAway` is the part of `ReadsBack` that needs no `ENABLED`: for the
next piece the state table has an entry in the reader's row, and what the handler
tests of levels, of the row's owner and width and of the element flag comes out
for it (`Welcome`).  Most of it is in `TripInv`: a walk only takes a piece where
it is one for the place (`Takable`).  The rest is `Aimed`, kept beside it:
whether the literal at hand is an element is what the innermost row says
(`Steady`; an inline unit is refused inside `[...]`), a `/` is preceded by
nothing but blanks since a row closed, and no blank goes into an octet stream
(`Separated`).  Excepted are texts after a `/` that no row precedes (7.6); an
illegible annotation (7.7) is a matter of what is between `<` and `>`, which
`Welcome` does not ask.

*Demux.*  `ScopeRespected` needs that `key_match` is right for the key of the
open value *and* for those of all the arrays around it that no key was read in
since (`Scopes`), and that a stream's verdict was taken under that key
(`Streams`).  `StreamsApart` holds on the condition `~ReusedAfterFailure`;
with a caller that reuses the demultiplexer TLC finds it violated (7.9).  `DemuxBounded` counts a finite set
of channels that grows one at a time.

*Mux and demux.*  The reference `Parse` and `Ends` are recursive functions
over the bytes of a channel; what they say of one byte more is proved from
their definition (`EndsDefined`, `ValueStep`).  `Told` says of a channel that
what was told is the messages up to some end, and `Underway` that what is
buffered is what follows: the first bytes of a length, or of a message.
`SentArrives` needs that a length written in base-128 digits is read back
(`VarintEncodes`), whatever its size, and that the chunks `bvnr_mux_send` cuts are a
partition of the message.

*Pipe.*  One equation carries each theorem: what the program handed over is what
the kernel took, what is on its way in the push, and what is buffered, in this
order; what the other program has is a prefix of what was taken.  For frames
the place of every byte of the stream in its frame (`BytesUpTo`) is defined by
recursion over the frames, and the reader's part (magic, length, payload) must
agree with the place it has reached.

*DOM.*  `IInv` is, between events, `Sound` of the heap: `Held`, that units are
blocks that were made and counts are numbers of holders; `Rooted`, that every
live node but the document has exactly one place in exactly one older live
node; `Scoped`, that open scopes are live nodes, the document lowest.  The first
is kept by the order of taking and giving references in `builder_node_unit`,
whatever allocation fails, for the node of a value, a struct, an array or an
octet stream alike; a container whose unit cannot be had, or that cannot be
attached or entered, is destroyed with the reference it took.  `EverythingGivenBack` needs `Rooted`: while
`bvn_dom_node_destroy` works, the nodes on its stack are the roots of the live
ones, none of them twice; every step destroys one, so after as many steps as
there are nodes the stack is empty, and live nodes without a root would have no
oldest.  The theorems are about `BuilderSpec`, any calls in any order.

*The tree and the events.*  The account of the events (`Accounts`) is a
recursive function; one event more changes only its end (`AccountsAppended`).
Whether a row's end closes its array is known one event later, to the account as
to the builder, so the proof works with `Pending`, the account before that
closing, which the builder's heap mirrors exactly while the pop is deferred:
`Mirrors` says that the nodes are the values (`Grown`) and the scopes the open
containers, in order, each in the one before (`Nested`).  `Lined` puts the same
stack beside `EventStream`'s, and `Awaiting` says for each thing the stream may
be waiting for which fields of the builder (`pop`, `continue`, `octets`, the key)
remember what.  Every event then takes a `Fits` state to a `Fits` state, or is
refused and keeps what was told (`Kept`).

`PathsFindValues` speaks of the end and needs the history of every array, so
`Fits` carries `Measured` as well.  For an array that is open, `InGrid` says
that all its rows so far have one width (`Filled`: value number `column` of row
`row` is entry `(row - 1) * W + column + 1`), that `row_start_count` is where the
open row starts, and that the widths recorded on its node are those of the rows
that ended (`Ruled`); `Squared` says it of an array that has ended.  When
`stream_end` may be said nothing is open but the document, so every array is
`Squared`; that is `Whole`.  In a `Whole` tree a key that is there once leads to
its member (`MemberFound`), a column to its value in an array of one row
(`ElementFound`), a row and a column to theirs in a matrix, whether the row is
recorded or, beyond `RecordedRows`, worked out from the first (`CellFound`).
A lookup is a recursion over segments and over the indices of a segment; that
one segment or one index more is one step more is `LookupStep` and
`ReachedStep`, and `PathsLocated` follows a value from its container, which was
told before it, as long as its path is `Addressable`.  Every segment but the last
stays as it was and the last only gets longer (`AddressableStep`), so a value's
container is within the limits if the value is; a path with a segment beyond
them is followed to that segment and no further (`BeyondLimits`).  `Grown` and
`Whole` know that the keys of members are `ReadableKeys`, so that a key's length
never is what stops a look-up (`SegmentFits`).

The theorems are about `ToldSpec`,
in which the checks of the whole tree may say anything; `DomSpec` of the run,
where they say what `CrossChecked` does, allows fewer steps.

*Recursion.*  No theorem needs the library's induction rules, which take an
operator as a parameter.  Recursive definitions are functions on an interval of
naturals; that one exists, and what holds of each of its values, is shown by a
least counterexample (`LeastNatural`, from `WFMin`).

*Only model-checked.*  `ReadsBack` says that the reader *can* take what is
written next (`ENABLED`), and `NoOneWaits` is liveness under fairness: both are out
of the prover's reach.  Of `ReadsBack`, beyond `NothingTurnedAway`, this leaves
that the events told are those due, with the same types and units, that a `/` row
grows no wider than the one before it, and that the element limit suffices.  The library's laws speak of arithmetic and text of every
length through operators that only TLC's runs use; they are checked on the inputs
of section 4 and no others.


## 7. Disagreements found

Each was met while modelling and confirmed with the compiled library.  Four are
shown by a run that TLC finds violated; `PROJECT.json`, "findings", quotes the
lines.

With a run:

**7.1** `key_path_tables` (`bovnar_validator.c:198`) – popping a struct whose
push was lost leaves the last key read inside it in flight; the next element of
the array is matched against the rules for that key.

**7.2** `escape_cut_short` (`bovnar_lexer.c:466`) – a backslash that cuts a `\x`
or `\u` escape short is dropped; a quote it escapes then ends the skip.

**7.3** `long_fraction` (`bvn_float.c:2719`) – a fixed-point literal too long for
a big integer is judged by its length, and refused or taken for zero whatever
its value.

**7.4** `abandoned_type` (`bovnar_lexer.c:1907`, and `:417`) – recovery resets
the type and the unit in force but not `inferred_default_vtype`: after a struct
in an array is abandoned behind a datetime annotation, the array's next bare
integer is told as that datetime.  `TypesAgree` excepts exactly these documents
(`OutlivesError`).

Without one; the modules keep the formula each violates, or the properties that
hold except for it say so by name:

**7.5** `ResumesWithinCharacter` in `ReaderObserved` (`bovnar_lexer.c:1895`) –
recovery that resumes at a key beginning with a multi-byte letter forgets it is
inside that letter: in `.a = 1;@.é = 2;` the good assignment is lost, though
`doc/03_bovnar_spec.md:2133` resumes at any byte that can begin an identifier.

**7.6** `SeparatorAfterRow` in `RoundTrip` (`bovnar_writer.c:1182`) – the flag "a
row just closed" is cleared only by the next row or `/`, so the writer writes a
`/` where its reader refuses it, and reports success.

**7.7** `AnnotationsLegible` in `RoundTrip` (`bovnar_writer.c:1137`) – family and
parameters are accepted in any order and number within `<` and `>`; the reader
refuses most.

**7.8** `ScopedToKey` in `Demux` (`bovnar_stream.c:571`) – a key read inside an
element of an array decides the scope of the array's later octet streams.

**7.9** `NothingBleeds` with `ReusedAfterFailure = TRUE` (`bovnar_stream.c:598`) –
a read that fails inside a stream leaves partial messages behind, and they frame
the next stream.

**7.10** `BytesCounted` in `Pipe` (`bovnar_writer.c:149`) –
`doc/08_bovnar_readwrite_api.md:1199` says that the count of bytes written is the
true total of those handed off and those still buffered; a push that fails half
way is counted by the sink and still in the buffer.

**7.11** `ZeroIsUnsigned` in `Library` (`bvn_int.c:797`) – the comment at
`bvn_int.c:44` says that zero is never negative; the remainder of a division may
be.

**7.12** `LexicalAgreement` with `escaped_stray` (`bovnar_lexer.c:2684`) – in a
skipped string a byte that is not UTF-8 right after a backslash does not use up
the escape, so in `.a = "\q\<80>"; .b = 2;` the closing quote is skipped as
escaped, though `doc/03_bovnar_spec.md:2179` says malformed bytes are skipped
like others.

**7.13** The `bvn_parse_*` helpers take a `0x` prefix in base 16 (`strtoll`),
which no literal of the format may have.


## 8. What is not modelled

* *Literals and annotations byte by byte* – in `Reader` a literal has no bytes,
  in `Input` only symbols and strings are there; what a whole literal denotes is
  in `IntegerText`, `FloatLiteral` and `Instants`, what an annotation governs in
  `TypeInForce`.  The rows of the state table between the two are data.
* *Caches* of annotations and inline units in the validator: keyed by the whole
  text and immutable, they answer what parsing again would.
* *Unit conversion and unit policy* – which rule applies and what it demands of
  a unit; the path it is matched against is modelled.  *Tables* of units,
  currencies and profiles – data and lookups, with no order of steps.
* *Canonical observer* – the version directive, layout, unit flags.
* *Embedded documents* – one octet stream and one nested read, each modelled for
  itself.  *Memory sources and sinks*, *custom sinks* – no state beyond a
  position.
* *Trees assembled by hand* – a key of theirs may be longer than `segment[256]`
  or contain the `.` and `[` of a path; a document's may not, its reader running with
  the default `max_identifier_length`.
* *`to_ieee_binary`, `to_fixed_point`* – called by tests only.  *Float, string
  and unit getters of the DOM* – one conversion each, modelled apart from it.
* *Allocation failure inside a number*, other than where the DOM stores it.
* *Command line and bindings* – drivers of the library.


## 9. The plan

Done: `Reader` with `EventStream`, its observers and proofs; `KeyPath` and its
proofs; `Writer`, its proofs and `RoundTrip`; `Demux`, its proofs and
`MuxDemux`; `DomBuilder` under `EventStream`; `DocStream`, `TextOut` and `Pipe`;
`Input`; the arithmetic of numbers and dates; `TypeInForce` and `Canonical`.

Proved since: both observers of the reader, the refinement of `EventStream` by
the reader, the remaining invariant of the key path, the multiplexer against the
messages of its bytes, the pipe, the builder's counts and destruction, the
tree and its paths against the events told, and the two invariants of the round
trip.

Left to prove: lemmas on the library's operators without recursion.

Where a new run has the same next-state relation as one that is there, its
properties join that run.

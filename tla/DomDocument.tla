------------------------------ MODULE DomDocument ------------------------------
(***************************************************************************)
(* The builder fed by the reader.  What the reader may say is EventStream, *)
(* which ReaderRefinement shows the reader to implement; the rows of one   *)
(* array have one width, as the validator enforces.  `told` is the list of *)
(* events the builder accepted: the tree is judged against it alone.  What *)
(* the checks of the whole tree say at the end is left open here           *)
(* (DomChecked makes them).                                                *)
(***************************************************************************)
EXTENDS DomBuilder

CONSTANTS
    ValueTypes, Plain,   \* EventStream's: the builder reads neither
    Dressings,           \* the [unit, src] pairs its values may carry
    Plainest,            \* one of them
    InForce,             \* the units that may be in force where an array or octet stream stands
    MaxIdentifier,       \* the reader's max_identifier_length, UINT8_MAX
    MaxNodes,            \* bound: nodes of a tree
    MaxDepth,            \* bound: containers open at once
    MaxRows,             \* bound: rows of a matrix
    MaxEvents,           \* bound: events of a document, the last excepted
    MaxChunks,           \* bound: chunks of an octet stream
    VariedNodes          \* bound: up to this size units and octets vary and allocations
                         \* and reads fail; larger trees grow in shape alone

VARIABLES open, expect, force, sent, told

Stream == INSTANCE EventStream

ASSUME DocumentAssumption ==
    /\ Plain # Stream!Struct
    /\ Kinds \cap {"document", "struct", "array", "octets"} = {}
    /\ Dressings \subseteq [unit : Units, src : Spellings \cup {NoSpelling}] /\ Plainest \in Dressings
    /\ InForce \subseteq Units /\ DefaultUnit \in InForce
    /\ MaxIdentifier \in Nat /\ MaxIdentifier < SegmentSize

vars == <<nodes, blocks, builder, outcome, open, expect, force, sent, told>>

-----------------------------------------------------------------------------
(* What the events alone say: the list of values in document order, each   *)
(* with the container it stands in, its key, its row and its place in that *)
(* row, from 0.  A row that ends closes its array unless the next event is *)
(* "/".                                                                    *)
Value(frame, key, kind, content) ==
    [parent |-> frame.id, key |-> key, kind |-> kind, row |-> frame.row, column |-> frame.width,
     content |-> content]

Frame(id) == [id |-> id, row |-> 1, width |-> 0, first |-> -1]

Placed(s, kind, content) ==
    LET n   == Len(s.open)
        top == s.open[n]
    IN [s EXCEPT !.values = Append(@, Value(top, s.key, kind, content)),
                 !.open[n].width = @ + 1, !.key = NoKey]

Entered(s, kind) ==
    LET p == Placed(s, kind, <<>>) IN [p EXCEPT !.open = Append(@, Frame(Len(p.values) + 1))]

\* What e adds, said between an event `before` and one `after`.
Told(s, before, e, after) ==
    LET n == Len(s.open)
    IN CASE e.ev = "assignment_start" -> [s EXCEPT !.key = e.key]
         [] e.ev = "data"             -> Placed(s, e.kind, <<>>)
         [] e.ev = "struct_start"     -> Entered(s, "struct")
         [] e.ev = "struct_end"       -> [s EXCEPT !.open = Front(@)]
         [] e.ev = "row_start"        -> IF before = "dim_start"
                                         THEN [s EXCEPT !.open[n].row = @ + 1, !.open[n].width = 0]
                                         ELSE Entered(s, "array")
         [] e.ev = "row_end"          -> IF after = "dim_start" THEN [s EXCEPT !.open[n].first = s.open[n].width]
                                         ELSE [s EXCEPT !.open = Front(@)]
         [] e.ev = "octets_start"     -> [s EXCEPT !.octets = <<>>]
         [] e.ev = "octets"           -> [s EXCEPT !.octets = Append(@, e.chunk)]
         [] e.ev = "octets_end"       -> Placed(s, "octets", s.octets)
         [] OTHER                     -> s

NothingTold == [open |-> <<Frame(Document)>>, values |-> <<>>, key |-> NoKey, octets |-> <<>>]

\* The account after the first n of some events, and of all that were accepted.
Accounts(events) ==
    LET name(i) == IF i \in DOMAIN events THEN events[i].ev ELSE "none"
        after[n \in 0..Len(events)] ==
            IF n = 0 THEN NothingTold ELSE Told(after[n - 1], name(n - 1), events[n], name(n + 1))
    IN after
Account == Accounts(told)[Len(told)]

\* Value v of the account is node v + 1: the document came first.
InContainer(acc, id) == {v \in DOMAIN acc.values : acc.values[v].parent = id}
NodeOf(v) == v + 1

-----------------------------------------------------------------------------
(* The validator keeps the rows of one array to the first one's width.     *)
RowHasRoom == LET top == Last(Account.open) IN top.first = -1 \/ top.width < top.first
RowIsFull  == LET top == Last(Account.open) IN top.first = -1 \/ top.width = top.first

Event(ev) == [ev |-> ev]

\* The reader says e, and the builder answers.
Tell(e, answer) ==
    /\ Len(told) < MaxEvents
    /\ Stream!Say(Stream!Mark(e.ev))
    /\ answer
    /\ told' = IF outcome' = "reading" THEN Append(told, e) ELSE told

MoreNodes  == Len(nodes) <= MaxNodes
MoreDepth  == Len(open) < MaxDepth
\* A longer key is error_identifier_too_long, and no event.
ReadableKeys == {k \in Keys : KeyLength[k] <= MaxIdentifier}
KeysInUse  == {e.key : e \in Range(nodes[Top(DeferredPop(Heap)).node].kids)}
MayVary    == Len(nodes) <= VariedNodes
Faults(fs) == IF MayVary THEN fs \cup {"none"} ELSE {"none"}

TellStart == Tell(Event("stream_start"), outcome = "reading" /\ UNCHANGED domVars)

TellAssignment ==
    /\ MoreNodes
    /\ \E k \in IF MayVary THEN ReadableKeys ELSE ReadableKeys \ KeysInUse, fault \in Faults({"key"}) :
          Tell([ev |-> "assignment_start", key |-> k], AssignmentStart(k, fault))

\* A struct takes no annotation, so none of its own and none of an array's unit
\* is in force where it starts; the default one needs no block.
TellStruct ==
    /\ MoreNodes /\ MoreDepth /\ RowHasRoom
    /\ \E fault \in Faults({"node", "attach", "push"}) :
          Tell(Event("struct_start"), StructStart(DefaultUnit, fault))

TellStructEnd == Tell(Event("struct_end"), StructEnd)

\* Which unit is in force is TypeInForce's matter: any may be.
TellRow ==
    /\ IF expect = "row" THEN TRUE ELSE MoreNodes /\ MoreDepth /\ RowHasRoom
    /\ \E unit \in IF MayVary /\ expect # "row" THEN InForce ELSE {DefaultUnit},
          fault \in Faults({"node", "unit", "attach", "push"}) :
          Tell(Event("row_start"), ArrayRowStart(unit, fault))

TellRowEnd == RowIsFull /\ Tell(Event("row_end"), ArrayRowEnd)

\* told ends in the row_end of the array the "/" belongs to
TellSlash ==
    /\ \E id \in DOMAIN nodes : id = Top(Heap).node /\ nodes[id].rows < MaxRows
    /\ \E fault \in Faults({"dims"}) : Tell(Event("dim_start"), ArrayDimStart(fault))

TellOctetsStart == MayVary /\ RowHasRoom /\ Tell(Event("octets_start"), OctetStreamStart)

TellOctets ==
    /\ Len(builder.chunks) < MaxChunks
    /\ \E c \in Chunks, fault \in Faults({"octets"}) :
          Tell([ev |-> "octets", chunk |-> c], OctetChunk(c, fault))

TellOctetsEnd ==
    \E unit \in InForce, fault \in Faults({"node", "unit", "attach"}) :
          Tell(Event("octets_end"), OctetStreamEnd(unit, fault))

TellData ==
    /\ MoreNodes /\ RowHasRoom
    /\ \E k \in Kinds, d \in IF MayVary THEN Dressings ELSE {Plainest}, fault \in Faults({"node", "unit", "attach"}) :
          Tell([ev |-> "data", kind |-> k], Data(k, d.unit, d.src, fault))

\* The document ends, and the whole tree is checked; or the reader stops at an
\* error of its own.
TellEnd(checked) ==
    /\ outcome = "reading"
    /\ Stream!Say(Stream!Mark("stream_end"))
    /\ ReadEnds(checked) /\ UNCHANGED told

ReaderFails ==
    /\ MayVary \/ outcome = "refused"
    /\ Stream!Break
    /\ ReadEnds("malformed") /\ UNCHANGED told

Destroy == DocumentDestroy /\ UNCHANGED <<open, expect, force, sent, told>>

DomInit == Init /\ Stream!Init /\ told = <<>>

Tells ==
    \/ TellStart \/ TellAssignment \/ TellStruct \/ TellStructEnd \/ TellRow \/ TellRowEnd
    \/ TellSlash \/ TellOctetsStart \/ TellOctets \/ TellOctetsEnd \/ TellData
    \/ ReaderFails \/ Destroy

\* Whatever the checks say.
ToldNext == Tells \/ \E checked \in Reports : TellEnd(checked)
ToldSpec == DomInit /\ [][ToldNext]_vars

-----------------------------------------------------------------------------
DomTypeOK ==
    /\ outcome \in {"reading", "refused", "read", "destroyed"}
    /\ \A id \in DOMAIN nodes : nodes[id].unit \in -1..Len(blocks)
    /\ \A u \in DOMAIN blocks : blocks[u].refs \in 0..RefsMax
    /\ builder.last \in 0..Len(blocks)

(* A struct that ends is the innermost scope, once the array that was      *)
(* waiting to be popped is: whatever was opened inside it has been left.   *)
StructEndsItself ==
    [][Len(told') > Len(told) /\ Last(told').ev = "struct_end" =>
          Top(DeferredPop(Heap)).kind = "struct"]_vars

\* An event was refused: its node may hang in the tree although its event is
\* not among those accepted.
Refused == outcome = "refused" \/ builder.error \in {"value_out_of_range", "callback_failed"}

\* The entries of container id, by the events.
Entries(acc, id) ==
    LET entries[n \in 0..Len(acc.values)] ==
            IF n = 0 THEN <<>>
            ELSE IF acc.values[n].parent = id
            THEN Append(entries[n - 1], Entry(acc.values[n].key, NodeOf(n)))
            ELSE entries[n - 1]
    IN entries[Len(acc.values)]

(* At every moment the tree is the document told so far: every value in    *)
(* the container the events put it in, under its key, in order, and        *)
(* nothing else -- whatever nests in whatever, and although an array's end *)
(* is only known an event later.                                           *)
TreeMirrorsEvents ==
    LET acc == Account IN
    /\ \A v \in DOMAIN acc.values :
          LET n == nodes[NodeOf(v)] IN
          n.kind = acc.values[v].kind /\ n.value = acc.values[v].content
    /\ \A id \in {Document} \cup {NodeOf(v) : v \in DOMAIN acc.values} :
          LET said == Entries(acc, id) IN
          IF Refused THEN IsPrefix(said, nodes[id].kids) ELSE said = nodes[id].kids

\* How a reader of the document would address each value, container first.
Paths ==
    LET acc == Account
        IsMatrix(id) == \E v \in InContainer(acc, id) : acc.values[v].row > 1
        Deeper(path, is) ==
            [path EXCEPT ![Len(path)] = [key |-> @.key, indices |-> @.indices \o is]]
        paths[v \in DOMAIN acc.values] ==
            LET value == acc.values[v]
                up == value.parent
                named == [key |-> value.key, indices |-> <<>>]
            IN IF up = Document THEN <<named>>
               ELSE IF acc.values[up - 1].kind = "struct" THEN Append(paths[up - 1], named)
               ELSE IF IsMatrix(up) THEN Deeper(paths[up - 1], <<value.row - 1, value.column>>)
               ELSE Deeper(paths[up - 1], <<value.column>>)
    IN paths

KeysUnique(id) ==
    IsInjective([i \in DOMAIN nodes[id].kids |-> nodes[id].kids[i].key])

\* No key of the path has more indices after it than a look-up can take.
Addressable(path) == \A i \in DOMAIN path : Len(path[i].indices) <= MaxIndices

(* A document read to its end, of one shape or not: every value is found   *)
(* under its path, through structs, nested arrays and the rows of a        *)
(* matrix, those past the recorded widths included -- whatever keys the    *)
(* reader lets through, but only to the depth of arrays idx[] has room     *)
(* for: what stands deeper has a path that leads nowhere, never elsewhere. *)
PathsFindValues ==
    (outcome = "read" /\ ~Refused /\ builder.error # "malformed"
        /\ \A id \in DOMAIN nodes : nodes[id].kind \in {"struct", "document"} => KeysUnique(id)) =>
    LET paths == Paths IN
    \A v \in DOMAIN paths : Lookup(paths[v]) = IF Addressable(paths[v]) THEN NodeOf(v) ELSE Nothing

=============================================================================

------------------------------ MODULE DomBuilder ------------------------------
(***************************************************************************)
(* The event consumer that materialises a document as a tree of nodes      *)
(* (bovnar_dom_builder.c, with the node and unit-block code of             *)
(* bovnar_dom.c).  One action per verified event; each may fail at any of  *)
(* the allocations it makes, and then refuses the event, which ends the    *)
(* read.  Nodes and unit blocks live in two heaps and are numbered in the  *)
(* order they were made, so that "freed" and "still held" can be told      *)
(* apart.                                                                  *)
(***************************************************************************)
EXTENDS Integers, Sequences, SequencesExt, FiniteSets, FiniteSetsExt

CONSTANTS
    Keys,          \* the keys a document may use
    KeyLength,     \* KeyLength[k]: the bytes of key k
    NoKey,         \* the empty key buffer
    Units,         \* the units a value may carry, the two below among them
    DefaultUnit,   \* BVN_UNIT_NO_PREFIX(bu_none)
    NoUnit,        \* BVN_UNIT_NONE: no unit at all
    Spellings,     \* unit texts a document may use
    NoSpelling,    \* an event that carries none
    Denotes,       \* Denotes[s]: the unit s spells
    Canonical,     \* the spellings bvn_unit_to_string would produce
    RefsMax,       \* UINT32_MAX, the largest reference count
    RecordedRows,  \* the rows_per_dim[8] a matrix records
    SegmentSize,   \* segment[256]: a key of a path and its NUL
    MaxIndices,    \* idx[32]: the indices after one key of a path
    Kinds,         \* the scalars a document may hold
    Chunks         \* what an octet stream may deliver

ASSUME BuilderAssumption ==
    /\ NoKey \notin Keys /\ NoSpelling \notin Spellings
    /\ {DefaultUnit, NoUnit} \subseteq Units
    /\ DefaultUnit # NoUnit
    /\ Canonical \subseteq Spellings
    /\ Denotes \in [Spellings -> Units \ {DefaultUnit, NoUnit}]
    /\ KeyLength \in [Keys -> Nat \ {0}]
    /\ RefsMax \in Nat /\ RefsMax >= 2
    /\ RecordedRows \in Nat /\ RecordedRows >= 1
    /\ SegmentSize \in Nat /\ MaxIndices \in Nat

VARIABLES
    nodes,     \* bvn_dom_node_t, by number; the document is node 1
    blocks,    \* bvn_dom_unit_t, by number
    builder,   \* bvn_builder_t without its buffers' capacities
    outcome    \* "reading", "refused" (a callback said no), "read", "destroyed"

domVars == <<nodes, blocks, builder, outcome>>

-----------------------------------------------------------------------------
\* Where a handler allocates, and may fail.
FailPoints == {"none", "key", "node", "unit", "attach", "push", "dims", "octets"}

\* What the reader or the checks of the whole tree report, and what the
\* builder adds.
Reports == {"none", "malformed", "duplicate_key", "element_type", "row_size", "struct_shape"}
Errors  == Reports \cup {"value_out_of_range", "callback_failed"}

Document == 1
Default  == 0        \* bvn_dom_unit_default
Unitless == -1       \* bvn_dom_unit_none
IsStatic(u) == u <= 0

\* No dims allocated: bvn_dom_dims_1d, whose only row is the array.
OneRow == <<>>

NewNode(kind) ==
    [kind |-> kind, kids |-> <<>>, dims |-> OneRow, rows |-> 1,
     unit |-> Default, value |-> <<>>, live |-> TRUE]

Entry(key, id)  == [key |-> key, node |-> id]
Scope(kind, id) == [kind |-> kind, node |-> id, start |-> 0]

\* Everything a handler works on, so that its calls can be put in sequence.
Heap      == [nodes |-> nodes, blocks |-> blocks, b |-> builder]
Ok(h)     == [h |-> h, ok |-> TRUE]
Failed(h) == [h |-> h, ok |-> FALSE]

Top(h) == Last(h.b.scopes)

-----------------------------------------------------------------------------
\* bvn_dom_unit_release: the last holder frees the block.
Released(h, u) ==
    IF IsStatic(u) THEN h ELSE [h EXCEPT !.blocks[u].refs = @ - 1]

\* bvn_dom_unit_is: may this block be handed out again?
UnitIs(block, unit, src) == block.unit = unit /\ block.src = src

\* The spelling builder_node_unit keeps: one that the unit would not give back.
KeptSpelling(src) ==
    IF src \in Canonical THEN NoSpelling ELSE src

(* bvn_dom_unit_get: a static block where there is nothing to remember,    *)
(* else a new block with one reference; 0 blocks made when malloc fails.   *)
UnitGet(h, unit, src, fault) ==
    IF src = NoSpelling /\ unit = DefaultUnit THEN [h |-> h, unit |-> Default, ok |-> TRUE]
    ELSE IF src = NoSpelling /\ unit = NoUnit THEN [h |-> h, unit |-> Unitless, ok |-> TRUE]
    ELSE IF fault = "unit" THEN [h |-> h, unit |-> Default, ok |-> FALSE]
    ELSE [h    |-> [h EXCEPT !.blocks = Append(@, [refs |-> 1, unit |-> unit, src |-> src])],
          unit |-> Len(h.blocks) + 1, ok |-> TRUE]

\* bvn_dom_unit_ref refuses when the count is full: the caller makes another.
MayShare(h, unit, src) ==
    /\ h.b.last # Default
    /\ UnitIs(h.blocks[h.b.last], unit, src)
    /\ h.blocks[h.b.last].refs < RefsMax

\* Mutant: the block the builder held before is kept as well.
RememberedToo(h, u) ==
    IF IsStatic(u) THEN h ELSE [h EXCEPT !.b.last = u, !.blocks[u].refs = @ + 1]

\* "worth remembering": the builder's own reference moves to the new block.
Remembered(h, u) ==
    IF IsStatic(u) THEN h
    ELSE [Released(h, h.b.last) EXCEPT !.b.last = u, !.blocks[u].refs = @ + 1]

\* bvn_dom_node_take_unit
TakeUnit(h, id, u) == [Released(h, h.nodes[id].unit) EXCEPT !.nodes[id].unit = u]

(* builder_node_unit: the block of the node before, where the two agree.   *)
NodeUnit(h, id, unit, src, fault) ==
    LET kept == KeptSpelling(src) IN
    IF MayShare(h, unit, kept)
    THEN Ok(TakeUnit([h EXCEPT !.blocks[h.b.last].refs = @ + 1], id, h.b.last))
    ELSE LET got == UnitGet(h, unit, kept, fault) IN
         IF ~got.ok THEN Failed(h)
         ELSE Ok(TakeUnit(Remembered(got.h, got.unit), id, got.unit))

-----------------------------------------------------------------------------
\* bvn_dom_node_destroy of a node nothing was attached to yet.
Discarded(h, id) == [Released(h, h.nodes[id].unit) EXCEPT !.nodes[id].live = FALSE]

\* Mutant: a value that cannot be added is left alone.
AddedOrLost(h, into, key, id, fault) ==
    IF fault = "attach" THEN Failed(h)
    ELSE Ok([h EXCEPT !.nodes[into].kids = Append(@, Entry(key, id))])

\* The *_nocheck adders: append to the container, or destroy the value.
Added(h, into, key, id, fault) ==
    IF fault = "attach" THEN Failed(Discarded(h, id))
    ELSE Ok([h EXCEPT !.nodes[into].kids = Append(@, Entry(key, id))])

(* builder_attach: the document and a struct take the pending key, an      *)
(* array takes none; only a struct member uses the key up.                 *)
Attached(h, id, fault) ==
    LET top == Top(h) IN
    IF h.b.scopes = <<>> THEN Failed(h)
    ELSE IF top.kind = "array" THEN Added(h, top.node, NoKey, id, fault)
    ELSE LET r == Added(h, top.node, h.b.key, id, fault) IN
         IF r.ok /\ top.kind = "struct" THEN Ok([r.h EXCEPT !.b.key = NoKey]) ELSE r

Pushed(h, kind, id, fault) ==
    IF fault = "push" THEN Failed(h)
    ELSE Ok([h EXCEPT !.b.scopes = Append(@, Scope(kind, id))])

Popped(h) == IF h.b.scopes = <<>> THEN h ELSE [h EXCEPT !.b.scopes = Front(@)]

(* builder_do_deferred_pop: the array whose row closed last is finished    *)
(* after all.                                                              *)
DeferredPop(h) ==
    IF ~h.b.pop THEN h
    ELSE LET g == [h EXCEPT !.b.pop = FALSE] IN
         IF g.b.scopes # <<>> /\ Top(g).kind = "array" THEN Popped(g) ELSE g

(* A value: make the node, give it its unit, attach it.  What a failed     *)
(* step made is destroyed.                                                 *)
Valued(h, kind, value, unit, src, fault) ==
    LET id   == Len(h.nodes) + 1
        made == [h EXCEPT !.nodes = Append(@, [NewNode(kind) EXCEPT !.value = value])]
        dressed == NodeUnit(made, id, unit, src, fault)
    IN IF fault = "node" THEN Failed(h)
       ELSE IF ~dressed.ok THEN Failed(Discarded(made, id))
       ELSE Attached(dressed.h, id, fault)

(* A container is attached before it is filled, and becomes the top scope. *)
(* It holds the unit in force as a value would, but never its spelling.    *)
Opened(h, kind, unit, fault) ==
    LET id == Len(h.nodes) + 1
        attached == Valued(h, kind, <<>>, unit, NoSpelling, fault)
        pushed == Pushed(attached.h, kind, id, fault)
    IN IF ~attached.ok THEN attached
       ELSE IF ~pushed.ok THEN pushed
       ELSE Ok([pushed.h EXCEPT !.b.key = NoKey])

-----------------------------------------------------------------------------
\* on_verified, event by event.
OnAssignmentStart(key, fault) ==
    LET h == DeferredPop(Heap) IN
    IF fault = "key" THEN Failed(h) ELSE Ok([h EXCEPT !.b.key = key])

OnStructStart(unit, fault) == Opened(DeferredPop(Heap), "struct", unit, fault)

OnStructEnd == Ok(Popped(DeferredPop(Heap)))

\* Mutant: a further row starts where the array did.
OnRowStartUncounted(unit, fault) ==
    IF builder.continue THEN Ok([Heap EXCEPT !.b.continue = FALSE])
    ELSE Opened(DeferredPop(Heap), "array", unit, fault)

\* A further row of a matrix is no node, and its unit is not looked at.
OnArrayRowStart(unit, fault) ==
    IF builder.continue
    THEN LET h == [Heap EXCEPT !.b.continue = FALSE] IN
         IF h.b.scopes # <<>> /\ Top(h).kind = "array"
         THEN Ok([h EXCEPT !.b.scopes[Len(h.b.scopes)].start = Len(h.nodes[Top(h).node].kids)])
         ELSE Ok(h)
    ELSE Opened(DeferredPop(Heap), "array", unit, fault)

\* A matrix records the width of the row that closed, if it still has room.
RowRecorded(h) ==
    LET a == h.nodes[Top(h).node]
        width == Len(a.kids) - Top(h).start
    IN IF h.b.scopes = <<>> \/ Top(h).kind # "array" \/ a.dims = OneRow \/ a.rows > RecordedRows
       THEN h
       ELSE [h EXCEPT !.nodes[Top(h).node].dims[a.rows] = width]

\* Mutant: a nested array's deferred pop is left pending.
OnRowEndAtOnce == Ok([RowRecorded(Heap) EXCEPT !.b.pop = TRUE])

OnArrayRowEnd ==
    LET h == RowRecorded(DeferredPop(Heap)) IN Ok([h EXCEPT !.b.pop = TRUE])

(* "/": the array stays open.  Its second row makes it a matrix, whose     *)
(* first row is everything it holds so far.                                *)
OnArrayDimStart(fault) ==
    LET h == [Heap EXCEPT !.b.pop = FALSE, !.b.continue = TRUE]
        a == h.nodes[Top(h).node]
        unrecorded == [r \in 1..RecordedRows |-> IF r = 1 THEN Len(a.kids) ELSE 0]
        matrix == IF a.dims = OneRow THEN unrecorded ELSE a.dims
    IN IF h.b.scopes = <<>> \/ Top(h).kind # "array" THEN Ok(h)
       ELSE IF a.dims = OneRow /\ fault = "dims" THEN Failed(h)
       ELSE Ok([h EXCEPT !.nodes[Top(h).node].dims = matrix,
                         !.nodes[Top(h).node].rows = @ + 1])

OnOctetStreamStart ==
    Ok([DeferredPop(Heap) EXCEPT !.b.octets = TRUE, !.b.chunks = <<>>])

\* ev_data inside an octet stream: builder_oct_append.
OnOctetChunk(chunk, fault) ==
    IF fault = "octets" THEN Failed(Heap)
    ELSE Ok([Heap EXCEPT !.b.chunks = Append(@, chunk)])

OnOctetStreamEnd(unit, fault) ==
    LET r == Valued(Heap, "octets", builder.chunks, unit, NoSpelling, fault) IN
    IF ~r.ok THEN r ELSE Ok([r.h EXCEPT !.b.octets = FALSE, !.b.chunks = <<>>])

\* Any other ev_data.  last_error remembers that the value could not be made.
OnData(kind, unit, src, fault) ==
    LET r == Valued(DeferredPop(Heap), kind, <<>>, unit, src, fault) IN
    IF fault = "node" /\ kind = "number"
    THEN Failed([r.h EXCEPT !.b.error = "value_out_of_range"]) ELSE r

-----------------------------------------------------------------------------
\* The handler's answer: "no" ends the read.
Answer(r) ==
    /\ outcome = "reading"
    /\ nodes' = r.h.nodes /\ blocks' = r.h.blocks /\ builder' = r.h.b
    /\ outcome' = IF r.ok THEN "reading" ELSE "refused"

AssignmentStart(key, fault)   == Answer(OnAssignmentStart(key, fault))
StructStart(unit, fault)      == Answer(OnStructStart(unit, fault))
StructEnd                     == Answer(OnStructEnd)
ArrayRowStart(unit, fault)    == Answer(OnArrayRowStart(unit, fault))
ArrayRowEnd                   == Answer(OnArrayRowEnd)
ArrayDimStart(fault)          == Answer(OnArrayDimStart(fault))
OctetStreamStart              == Answer(OnOctetStreamStart)
OctetChunk(chunk, fault)      == Answer(OnOctetChunk(chunk, fault))
OctetStreamEnd(unit, fault)   == Answer(OnOctetStreamEnd(unit, fault))
Data(kind, unit, src, fault)  == Answer(OnData(kind, unit, src, fault))

-----------------------------------------------------------------------------
(* bvn_dom_parse_policy around the read: the scope stack holds the         *)
(* document; afterwards a refused callback is reported as what the builder *)
(* noted, and the builder's own unit reference is given back.              *)
Init ==
    /\ nodes = <<NewNode("document")>>
    /\ blocks = <<>>
    /\ builder = [scopes |-> <<Scope("document", Document)>>, key |-> NoKey, pop |-> FALSE,
                  continue |-> FALSE, octets |-> FALSE, chunks |-> <<>>,
                  last |-> Default, error |-> "none"]
    /\ outcome = "reading"

\* `read`: what the reader itself made of the document, or, when it was sound,
\* what the checks of the whole tree said.
ParseError(read) ==
    IF outcome = "refused"
    THEN IF builder.error # "none" THEN builder.error ELSE "callback_failed"
    ELSE read

ReadEnds(read) ==
    LET h == DeferredPop(Heap) IN
    /\ outcome \in {"reading", "refused"}
    /\ nodes' = h.nodes
    /\ blocks' = Released(h, h.b.last).blocks
    /\ builder' = [h.b EXCEPT !.last = Default, !.error = ParseError(read)]
    /\ outcome' = "read"

(* bvn_dom_node_destroy: one node off the work stack, its unit given back, *)
(* its children put on.                                                    *)
Destroyed(w) ==
    IF w.stack = <<>> THEN w
    ELSE LET id == Last(w.stack)
             kids == [i \in DOMAIN w.h.nodes[id].kids |-> w.h.nodes[id].kids[i].node]
         IN [stack |-> Front(w.stack) \o kids, h |-> Discarded(w.h, id)]

\* Its work stack after every node it could take off.
AllDestroyed(h) ==
    LET w[n \in 0..Len(h.nodes)] ==
            IF n = 0 THEN [h |-> h, stack |-> <<Document>>] ELSE Destroyed(w[n - 1])
    IN w[Len(h.nodes)].h

\* bvn_dom_doc_destroy, when the work stack can grow.
DocumentDestroy ==
    LET done == AllDestroyed(Heap)
    IN /\ outcome = "read"
       /\ nodes' = done.nodes /\ blocks' = done.blocks
       /\ outcome' = "destroyed"
       /\ UNCHANGED builder

(* Any calls in any order, but for one: nobody ends a struct that is not   *)
(* open (which the reader's own count of structs sees to).                 *)
BuilderNext ==
    \/ \E fault \in FailPoints :
          \/ \E k \in Keys : AssignmentStart(k, fault)
          \/ \E chunk \in Chunks : OctetChunk(chunk, fault)
          \/ \E kind \in Kinds, unit \in Units, src \in Spellings \cup {NoSpelling} :
                Data(kind, unit, src, fault)
          \/ \E unit \in Units :
                StructStart(unit, fault) \/ ArrayRowStart(unit, fault) \/ OctetStreamEnd(unit, fault)
          \/ ArrayDimStart(fault)
    \/ Top(DeferredPop(Heap)).kind = "struct" /\ StructEnd
    \/ ArrayRowEnd \/ OctetStreamStart
    \/ \E read \in Reports : ReadEnds(read)
    \/ DocumentDestroy

BuilderSpec == Init /\ [][BuilderNext]_domVars

-----------------------------------------------------------------------------
AliveIn(h) == {id \in DOMAIN h.nodes : h.nodes[id].live}

\* Who holds block u: nodes, and the builder itself, counted as node 0.
HoldersIn(h, u) ==
    {id \in AliveIn(h) : h.nodes[id].unit = u} \cup (IF h.b.last = u THEN {0} ELSE {})

Counted(h) ==
    \A u \in DOMAIN h.blocks :
        h.blocks[u].refs = Cardinality(HoldersIn(h, u)) /\ h.blocks[u].refs <= RefsMax

(* A unit block is held by exactly the nodes that use it -- values, arrays *)
(* and octet streams alike -- and the builder's own reference: it is never *)
(* freed under one of them, never kept without one, and its count never    *)
(* runs over.                                                              *)
BlocksCounted == Counted(Heap)

(* However the read ended, destroying the document gives everything back,  *)
(* each node and block once.                                               *)
EverythingFreed ==
    outcome = "destroyed" =>
        /\ AliveIn(Heap) = {}
        /\ \A u \in DOMAIN blocks : blocks[u].refs = 0

-----------------------------------------------------------------------------
(* How a path finds its node in the tree (bovnar_dom.c): keys through the  *)
(* document and structs, [N] indices through arrays, a matrix taking two   *)
(* of them.                                                                *)
Nothing == 0      \* NULL

KidNodes(id) == [i \in DOMAIN nodes[id].kids |-> nodes[id].kids[i].node]

IsArray(id)  == id # Nothing /\ nodes[id].kind = "array"
IsStruct(id) == id # Nothing /\ nodes[id].kind = "struct"

\* bvn_dom_arr_row: the width of row r (from 0) as recorded.
RowWidth(a, r) ==
    IF a.dims = OneRow THEN IF r = 0 THEN Len(a.kids) ELSE 0
    ELSE a.dims[r + 1]

WidthsBefore(a, r) ==
    LET widths[n \in 0..r] == IF n = 0 THEN 0 ELSE widths[n - 1] + RowWidth(a, n - 1) IN widths[r]

\* Rows past the recorded ones are known only when those are all of one width.
Uniform(a) ==
    /\ RowWidth(a, 0) # 0
    /\ \A i \in 1..RecordedRows - 1 : RowWidth(a, i) = RowWidth(a, 0)

Cell(id, r, c) ==
    LET a    == nodes[id]
        cols == IF r < RecordedRows THEN RowWidth(a, r) ELSE RowWidth(a, 0)
        off  == (IF r < RecordedRows THEN WidthsBefore(a, r) ELSE r * cols) + c
    IN IF r >= a.rows \/ (r >= RecordedRows /\ ~Uniform(a)) THEN Nothing
       ELSE IF c >= cols \/ off >= Len(a.kids) THEN Nothing
       ELSE KidNodes(id)[off + 1]

Element(id, i) == IF i >= Len(nodes[id].kids) THEN Nothing ELSE KidNodes(id)[i + 1]

(* bvn_dom_apply_indices, index by index: `row` is the first of the two a  *)
(* matrix takes.                                                           *)
Indexed(id, indices) ==
    LET Take(s, i) ==
            IF ~IsArray(s.at) THEN [at |-> Nothing, row |-> <<>>]
            ELSE IF s.row # <<>> THEN [at |-> Cell(s.at, s.row[1], i), row |-> <<>>]
            ELSE IF nodes[s.at].rows >= 2 THEN [at |-> s.at, row |-> <<i>>]
            ELSE [at |-> Element(s.at, i), row |-> <<>>]
        taken[n \in 0..Len(indices)] ==
            IF n = 0 THEN [at |-> id, row |-> <<>>] ELSE Take(taken[n - 1], indices[n])
        end == taken[Len(indices)]
    IN IF end.row # <<>> THEN Nothing ELSE end.at

\* bvn_dom_struct_get and the first segment of a path: the first entry that has the key.
Member(id, key) ==
    LET found == {i \in DOMAIN nodes[id].kids : nodes[id].kids[i].key = key} IN
    IF found = {} THEN Nothing ELSE nodes[id].kids[Min(found)].node

\* A key has to fit segment[], the indices after it idx[].
WithinLimits(seg) ==
    /\ seg.key # NoKey /\ KeyLength[seg.key] < SegmentSize
    /\ Len(seg.indices) <= MaxIndices

(* bvn_dom_lookup: a path is a sequence of segments, each a key and the    *)
(* indices written after it.                                               *)
Lookup(path) ==
    LET Step(at, seg) ==
            IF (at # Document /\ ~IsStruct(at)) \/ ~WithinLimits(seg) THEN Nothing
            ELSE LET member == Member(at, seg.key) IN
                 IF member = Nothing \/ seg.indices = <<>> THEN member
                 ELSE Indexed(member, seg.indices)
        found[n \in 0..Len(path)] == IF n = 0 THEN Document ELSE Step(found[n - 1], path[n])
    IN IF path = <<>> THEN Nothing ELSE found[Len(path)]
=============================================================================

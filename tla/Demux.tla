-------------------------------- MODULE Demux --------------------------------
(***************************************************************************)
(* The octet stream demultiplexer (bvnr_demux_on_event and demux_feed in   *)
(* src/src/stream/bovnar_stream.c).  Each chunk of an octet stream begins  *)
(* with a channel id; the rest is a piece of that channel's own bytes,     *)
(* which are messages, each after its length.  Chunks may cut a message or *)
(* its length anywhere and channels interleave chunk by chunk.             *)
(*                                                                         *)
(* The document the events come from is the environment: `outer', `key',   *)
(* `at', `stale' and `octets' say where in it the reader is, and a read    *)
(* may fail anywhere.  The demultiplexer outlives reads.                   *)
(*                                                                         *)
(* demux_feed is a loop that calls the consumer from within.  Here it is   *)
(* one step for a byte of a length and one for a run of a message's bytes, *)
(* and until it has used up the fragment no other event is taken.          *)
(***************************************************************************)
EXTENDS Integers, Sequences, FiniteSets

CONSTANTS
    Base,                    \* values one varint byte holds (128)
    MaxVarint,               \* bytes of the longest varint (10)
    Top,                     \* values its last byte may hold (2)
    BVNR_DEMUX_MAX_CHANNELS, \* distinct channels a demultiplexer keeps
    max_message,             \* bytes of the longest message it takes
    Keys,                    \* keys of the document
    NoKey,                   \* no key, or no key scope
    ReusedAfterFailure,      \* the caller keeps a demultiplexer whose read failed
    MaxOpen                  \* bound: structs open at once

ASSUME VarintAssumption ==
    /\ Base \in Nat \ {0} /\ MaxVarint \in Nat \ {0} /\ Top \in 1..Base
ASSUME LimitsAssumption ==
    /\ BVNR_DEMUX_MAX_CHANNELS \in Nat /\ max_message \in Nat /\ MaxOpen \in Nat
ASSUME KeysAssumption == NoKey \notin Keys /\ ReusedAfterFailure \in BOOLEAN

VARIABLES
    \* The read.
    reading,
    read_failed,   \* the last read failed
    outer,         \* the open structs: the key, place and staleness around each
    key,           \* the key of the assignment being read
    at,            \* "boundary", "value" or "elements"
    stale,         \* history: a key was read inside an element of this array
    octets,        \* inside an octet stream
    \* bvnr_demux_t.
    in_octet,      \* ... which is multiplexed
    error,
    chans,         \* what each channel seen so far is in the middle of
    scope,         \* key
    key_match,
    \* The call of demux_feed under way, and what it has told.
    frag,          \* bytes of the fragment not yet used
    channel,       \* whose they are; dead, and 0 here, without a fragment
    told           \* the message the last step handed to on_message

document == <<outer, key, at, stale, octets>>
demux    == <<in_octet, error, chans, scope, key_match>>
feeding  == <<frag, channel, told>>
vars     == <<reading, read_failed, document, demux, feeding>>

Byte    == 0..(2 * Base - 1)
More(b) == b >= Base       \* the continuation bit

\* A channel's state.  What is left in buf after a message is dead, and <<>>
\* here: the next message starts from have = 0.
Idle == [active |-> FALSE, need |-> 0, buf |-> <<>>, lvbuf |-> <<>>]

Errors == {"none", "out_of_sync", "out_of_range", "invalid_argument", "callback_failed", "truncated"}

-----------------------------------------------------------------------------
(* Varints.                                                                *)

\* Where the varint that p begins with ends; nowhere if it is cut short or
\* too long.
VarintEnds(p) ==
    {i \in 1..Len(p) : /\ ~More(p[i]) /\ \A j \in 1..(i - 1) : More(p[j])
                       /\ i < MaxVarint \/ (i = MaxVarint /\ p[i] < Top)}

\* The first byte counts least.
VarintValue(v) ==
    LET last[n \in 0..Len(v)] == IF n = 0 THEN 0 ELSE (v[Len(v) - n + 1] % Base) + Base * last[n - 1]
    IN  last[Len(v)]

-----------------------------------------------------------------------------
(* The document.                                                           *)
LeaveDocument == outer' = <<>> /\ key' = NoKey /\ at' = "boundary" /\ stale' = FALSE /\ octets' = FALSE

\* A handler that returns false ends the read; so does the input.
Abort(e) ==
    /\ error' = e
    /\ reading' = FALSE /\ read_failed' = TRUE
    /\ LeaveDocument
    /\ frag' = <<>> /\ channel' = 0

Expecting == reading /\ frag = <<>>
Elsewhere == Expecting /\ ~octets

\* Events of the document that the demultiplexer has no case for.
Ignored == told' = <<>> /\ UNCHANGED <<reading, read_failed, demux, octets, frag, channel>>

\* Nested arrays, and the rows of one that follow a "/", are all "elements": the
\* demultiplexer is told of rows and looks at none of them.
Scalar == /\ Elsewhere /\ at = "value"
          /\ at' = "boundary"
          /\ Ignored /\ UNCHANGED <<outer, key, stale>>

RowStart == /\ Elsewhere /\ at = "value"
            /\ at' = "elements"
            /\ Ignored /\ UNCHANGED <<outer, key, stale>>

RowEnd == /\ Elsewhere /\ at = "elements"
          /\ at' = "boundary"
          /\ Ignored /\ UNCHANGED <<outer, key, stale>>

StructStart ==
    /\ Elsewhere /\ at # "boundary" /\ Len(outer) < MaxOpen
    /\ outer' = Append(outer, [key |-> key, at |-> at, stale |-> stale])
    /\ key' = NoKey /\ at' = "boundary" /\ stale' = FALSE
    /\ Ignored

\* The struct was the value of its key, or an element of the array that is.
StructEnd ==
    /\ Elsewhere /\ at = "boundary" /\ outer # <<>>
    /\ LET around == outer[Len(outer)] IN
          /\ key' = around.key
          /\ at' = (IF around.at = "value" THEN "boundary" ELSE around.at)
          /\ stale' = around.stale
    /\ outer' = SubSeq(outer, 1, Len(outer) - 1)
    /\ Ignored

\* mutant: the scope is compared once it has been set, and never given up
Matches_sticky(k) == scope # NoKey /\ (k = scope \/ key_match)

Matches(k) == scope # NoKey /\ k = scope

AssignmentStart(k) ==
    /\ Elsewhere /\ at = "boundary"
    /\ key' = k /\ at' = "value" /\ stale' = FALSE
    /\ outer' = [i \in 1..Len(outer) |-> [outer[i] EXCEPT !.stale = TRUE]]
    /\ key_match' = Matches(k)
    /\ told' = <<>>
    /\ UNCHANGED <<reading, read_failed, octets, in_octet, error, chans, scope, frag, channel>>

-----------------------------------------------------------------------------
(* Octet streams.                                                          *)
OctetStreamStart ==
    /\ Elsewhere /\ at # "boundary"
    /\ octets' = TRUE
    /\ in_octet' = (scope = NoKey \/ key_match)
    /\ told' = <<>>
    /\ UNCHANGED <<reading, read_failed, outer, key, at, stale, error, chans, scope, key_match, frag, channel>>

\* A message cut off by the end of its stream is lost, and that is latched.
Unfinished(c) == chans[c].active \/ chans[c].lvbuf # <<>>

\* mutant: a message cut off within its length does not count
LossLatched_whole_lengths == error' = IF \E c \in DOMAIN chans : chans[c].active THEN "truncated" ELSE error

LossLatched == error' = IF \E c \in DOMAIN chans : Unfinished(c) THEN "truncated" ELSE error

\* mutant: a length cut off by the end of the stream is kept for the next
ChannelsReset_active == chans' = [c \in DOMAIN chans |-> [Idle EXCEPT !.lvbuf = chans[c].lvbuf]]

ChannelsReset == chans' = [c \in DOMAIN chans |-> Idle]

OctetStreamEnd ==
    /\ Expecting /\ octets
    /\ octets' = FALSE
    /\ at' = (IF at = "value" THEN "boundary" ELSE at)
    /\ in_octet' = FALSE
    /\ LossLatched
    /\ ChannelsReset
    /\ told' = <<>>
    /\ UNCHANGED <<reading, read_failed, outer, key, stale, scope, key_match, frag, channel>>

\* mutant: one channel more is let in
RoomForChannel_late == Cardinality(DOMAIN chans) =< BVNR_DEMUX_MAX_CHANNELS

RoomForChannel == Cardinality(DOMAIN chans) < BVNR_DEMUX_MAX_CHANNELS

NewChannel(id) == [c \in DOMAIN chans \cup {id} |-> IF c = id THEN Idle ELSE chans[c]]

\* The channel id is whole within its chunk, and the channel is one of the
\* few there is room for (and memory, if it is new).
Chunk(p) ==
    /\ Expecting /\ octets
    /\ told' = <<>>
    /\ UNCHANGED <<in_octet, scope, key_match>>
    /\ \/ /\ ~in_octet
          /\ UNCHANGED <<reading, read_failed, document, error, chans, frag, channel>>
       \/ /\ in_octet /\ VarintEnds(p) = {}
          /\ Abort("out_of_sync") /\ UNCHANGED chans
       \/ \E i \in VarintEnds(p) :
            LET id == VarintValue(SubSeq(p, 1, i))
                rest == SubSeq(p, i + 1, Len(p))
            IN
            /\ in_octet
            /\ \/ /\ id \in DOMAIN chans \/ RoomForChannel
                  /\ chans' = IF id \in DOMAIN chans THEN chans ELSE NewChannel(id)
                  /\ frag' = rest
                  /\ channel' = IF rest = <<>> THEN 0 ELSE id
                  /\ UNCHANGED <<reading, read_failed, document, error>>
               \/ /\ id \notin DOMAIN chans
                  /\ Abort(IF RoomForChannel THEN "invalid_argument" ELSE "out_of_sync")
                  /\ UNCHANGED chans

-----------------------------------------------------------------------------
(* demux_feed.                                                             *)
Feeding == reading /\ frag # <<>>
Current == chans[channel]

Uses(n) == /\ frag' = SubSeq(frag, n + 1, Len(frag))
           /\ channel' = (IF n = Len(frag) THEN 0 ELSE channel)

Sets(c) == chans' = [chans EXCEPT ![channel] = c]

\* A whole message, which the consumer takes or refuses.
Deliver(data, n, lv) ==
    /\ Sets([Idle EXCEPT !.lvbuf = lv])
    /\ told' = <<[channel |-> channel, data |-> data]>>
    /\ \/ Uses(n) /\ UNCHANGED <<reading, read_failed, document, error>>
       \/ Abort("callback_failed")

\* mutant: the bytes of a length are not counted off once it is known
LengthUsed_kept == Current.lvbuf

LengthUsed == <<>>

\* mutant: off by one
TooLong_by_one(need) == need \notin 0..(max_message + 1)

TooLong(need) == need \notin 0..max_message

LengthByte ==
    LET lv == Append(Current.lvbuf, frag[1])
        need == VarintValue(lv)
    IN
    /\ Feeding /\ ~Current.active
    /\ UNCHANGED <<in_octet, scope, key_match>>
    /\ \/ /\ Len(Current.lvbuf) >= MaxVarint \/ (~More(frag[1]) /\ Len(lv) \notin VarintEnds(lv))
          /\ Abort("out_of_sync")
          /\ IF Len(Current.lvbuf) >= MaxVarint THEN UNCHANGED chans ELSE Sets([Current EXCEPT !.lvbuf = lv])
          /\ told' = <<>>
       \/ /\ Len(Current.lvbuf) < MaxVarint /\ More(frag[1])
          /\ Sets([Current EXCEPT !.lvbuf = lv])
          /\ Uses(1) /\ told' = <<>>
          /\ UNCHANGED <<reading, read_failed, document, error>>
       \/ /\ Len(lv) \in VarintEnds(lv) /\ TooLong(need)
          /\ Sets(Idle)
          /\ Abort("out_of_range") /\ told' = <<>>
       \/ /\ Len(lv) \in VarintEnds(lv) /\ ~TooLong(need) /\ need = 0
          /\ Deliver(<<>>, 1, LengthUsed)
       \/ /\ Len(lv) \in VarintEnds(lv) /\ ~TooLong(need) /\ need # 0
          /\ Sets([active |-> TRUE, need |-> need, buf |-> <<>>, lvbuf |-> LengthUsed])
          /\ Uses(1) /\ told' = <<>>
          /\ UNCHANGED <<reading, read_failed, document, error>>

MessageBytes ==
    LET left == Current.need - Len(Current.buf)
        take == IF Len(frag) < left THEN Len(frag) ELSE left
        data == Current.buf \o SubSeq(frag, 1, take)
    IN
    /\ Feeding /\ Current.active
    /\ UNCHANGED <<in_octet, scope, key_match>>
    /\ \/ /\ take < left
          /\ Sets([Current EXCEPT !.buf = data])
          /\ Uses(take) /\ told' = <<>>
          /\ UNCHANGED <<reading, read_failed, document, error>>
       \/ /\ take = left
          /\ Deliver(data, take, Current.lvbuf)

\* No memory for the channel's buffer to grow: what it has so far stays.  (The
\* one byte that stands for an empty message is taken to be there.)
AllocFails ==
    /\ Feeding /\ Current.active
    /\ Abort("invalid_argument")
    /\ told' = <<>>
    /\ UNCHANGED <<in_octet, chans, scope, key_match>>

-----------------------------------------------------------------------------
(* Around a read.                                                          *)
ReadBegins ==
    /\ ~reading
    /\ ReusedAfterFailure \/ ~read_failed
    /\ reading' = TRUE /\ read_failed' = FALSE /\ told' = <<>>
    /\ UNCHANGED <<document, demux, frag, channel>>

ReadEnds ==
    /\ Elsewhere /\ outer = <<>> /\ at = "boundary"
    /\ reading' = FALSE
    /\ LeaveDocument /\ told' = <<>>
    /\ UNCHANGED <<read_failed, demux, frag, channel>>

\* The reader gives up: the demultiplexer is not told.
ReadFails ==
    /\ Expecting
    /\ reading' = FALSE /\ read_failed' = TRUE
    /\ LeaveDocument /\ told' = <<>>
    /\ UNCHANGED <<demux, frag, channel>>

\* bvnr_demux_set_key, between reads; the copy of the key may fail.
SetKey(k) ==
    /\ ~reading
    /\ key_match' = FALSE /\ told' = <<>>
    /\ \/ scope' = k /\ UNCHANGED error
       \/ k # NoKey /\ scope' = NoKey /\ error' = "invalid_argument"
    /\ UNCHANGED <<reading, read_failed, document, in_octet, chans, frag, channel>>

\* bvnr_demux_destroy and bvnr_demux_create
Recreate ==
    /\ ~reading
    /\ read_failed' = FALSE
    /\ in_octet' = FALSE /\ error' = "none" /\ chans' = [c \in {} |-> Idle]
    /\ scope' = NoKey /\ key_match' = FALSE
    /\ told' = <<>>
    /\ UNCHANGED <<reading, document, frag, channel>>

Init ==
    /\ reading = FALSE /\ read_failed = FALSE
    /\ outer = <<>> /\ key = NoKey /\ at = "boundary" /\ stale = FALSE /\ octets = FALSE
    /\ in_octet = FALSE /\ error = "none" /\ chans = [c \in {} |-> Idle]
    /\ scope = NoKey /\ key_match = FALSE
    /\ frag = <<>> /\ channel = 0 /\ told = <<>>

DocumentNext ==
    \/ Scalar \/ RowStart \/ RowEnd \/ StructStart \/ StructEnd
    \/ \E k \in Keys : AssignmentStart(k)

CallerNext ==
    \/ ReadBegins \/ ReadEnds \/ ReadFails \/ Recreate
    \/ \E k \in Keys \cup {NoKey} : SetKey(k)

FeedNext == LengthByte \/ MessageBytes \/ AllocFails

DemuxNext ==
    \/ DocumentNext \/ CallerNext \/ FeedNext
    \/ OctetStreamStart \/ OctetStreamEnd
    \/ \E p \in Seq(Byte) \ {<<>>} : Chunk(p)

Spec == Init /\ [][DemuxNext]_vars

-----------------------------------------------------------------------------
(* Properties.                                                             *)
Partial == [active : BOOLEAN, need : 0..max_message, buf : Seq(Byte), lvbuf : Seq(Byte)]
Around  == [key : Keys \cup {NoKey}, at : {"value", "elements"}, stale : BOOLEAN]

TypeOK ==
    /\ reading \in BOOLEAN /\ read_failed \in BOOLEAN
    /\ outer \in Seq(Around)
    /\ key \in Keys \cup {NoKey} /\ at \in {"boundary", "value", "elements"}
    /\ stale \in BOOLEAN /\ octets \in BOOLEAN
    /\ in_octet \in BOOLEAN /\ error \in Errors
    /\ chans = [c \in DOMAIN chans |-> chans[c]]
    /\ \A c \in DOMAIN chans : chans[c] \in Partial
    /\ scope \in Keys \cup {NoKey} /\ key_match \in BOOLEAN
    /\ frag \in Seq(Byte)
    /\ frag # <<>> => reading /\ octets /\ in_octet /\ channel \in DOMAIN chans

\* The memory a demultiplexer holds is bounded by what has arrived and by its
\* limits: no channel past the last, no partial message as long as the longest
\* one, no length longer than a varint, and never a message and the next one's
\* length at once.
PartBounded(c) ==
    /\ c.active => Len(c.buf) < c.need /\ c.lvbuf = <<>>
    /\ Len(c.lvbuf) =< MaxVarint

ChannelsBounded ==
    /\ IsFiniteSet(DOMAIN chans) /\ Cardinality(DOMAIN chans) =< BVNR_DEMUX_MAX_CHANNELS
    /\ \A c \in DOMAIN chans : PartBounded(chans[c])

\* bvnr_demux_on_event's account of ev_octet_stream_end: no partial state bleeds
\* into the next stream on a reused demultiplexer, where it would frame that
\* stream's bytes as the rest of a message of this one.
NothingBleeds == Elsewhere => \A c \in DOMAIN chans : ~Unfinished(c)

\* doc/10 3.2, key scoping: only streams opened under the key are taken for
\* multiplexed; those under other keys are ignored.
ScopedToKey == octets => (in_octet <=> (scope = NoKey \/ key = scope))

\* It is so for the value of a key, and for the elements of an array until a key
\* has been read inside one of them.
ScopedOutsideTables == ~stale => ScopedToKey
=============================================================================

------------------------------- MODULE MuxDemux -------------------------------
(***************************************************************************)
(* Both ends of a multiplexed octet stream: bvnr_mux_begin, bvnr_mux_send  *)
(* and bvnr_mux_end of src/src/stream/bovnar_stream.c, or a producer that  *)
(* uses the wire convention in any other way, and the demultiplexer.  What *)
(* lies between, the writer and the reader, passes chunks on as they are.  *)
(***************************************************************************)
EXTENDS Demux, Functions

CONSTANTS
    ChunkSize,     \* bytes of the largest chunk (65536)
    Channels,      \* channels mux_send is called for
    Messages,      \* messages it is called with
    SomeBytes,     \* bound: bytes another producer's chunks are made of
    MaxStream,     \* bound: channel bytes another producer puts in one stream
    MaxSent        \* bound: messages mux_send puts in one stream

VARIABLES
    producer,      \* of the stream being read: "none", "mux_send" or "other"
    outgoing,      \* chunks mux_send has written and the demultiplexer not read
    \* History of the stream being read.
    sent,          \* messages sent, in order
    received,      \* messages told, in order
    streams        \* by channel: its bytes that demux_feed has used, and the
                   \* messages told of it

history == <<producer, outgoing, sent, received, streams>>
muxVars == <<vars, history>>

-----------------------------------------------------------------------------
(* The sender.                                                             *)

\* bvn_varint_encode
Varint(v) ==
    LET bytes[n \in 0..v] == IF n < Base THEN <<n>> ELSE <<(n % Base) + Base>> \o bytes[n \div Base]
    IN  bytes[v]

ASSUME MuxAssumption ==
    /\ Base > 1
    /\ ChunkSize \in Nat /\ MaxStream \in Nat /\ MaxSent \in Nat
    /\ Channels \subseteq Nat /\ Messages \subseteq Seq(Byte) /\ SomeBytes \subseteq Byte
    /\ \A id \in Channels : Len(Varint(id)) < ChunkSize

\* Chunks of at most ChunkSize bytes, each under the channel's id.
Chunked(id, stream) ==
    LET room   == ChunkSize - Len(Varint(id))
        pieces == CHOOSE n \in 1..Len(stream) : (n - 1) * room < Len(stream) /\ Len(stream) =< n * room
        end(k) == IF k = pieces THEN Len(stream) ELSE k * room
    IN  [k \in 1..pieces |-> Varint(id) \o SubSeq(stream, (k - 1) * room + 1, end(k))]

\* mutant: the length is written in one byte, however long the message
Chunks_short_length(id, data) == Chunked(id, <<Len(data)>> \o data)

\* The length comes first, and rides in the first chunk.
Chunks(id, data) == Chunked(id, Varint(Len(data)) \o data)

Send(id, data) ==
    /\ Expecting /\ octets /\ producer = "mux_send"
    /\ outgoing = <<>> /\ Len(sent) < MaxSent
    /\ outgoing' = Chunks(id, data)
    /\ sent' = Append(sent, [channel |-> id, data |-> data])
    /\ UNCHANGED <<vars, producer, received, streams>>

-----------------------------------------------------------------------------
(* The stream.                                                             *)
Fresh    == [bytes |-> <<>>, messages |-> <<>>]
NoStream == producer' = "none" /\ outgoing' = <<>> /\ sent' = <<>> /\ received' = <<>> /\ streams' = [c \in {} |-> Fresh]

Begin ==
    /\ OctetStreamStart
    /\ producer' \in {"mux_send", "other"}
    /\ UNCHANGED <<outgoing, sent, received, streams>>

\* What a step of demux_feed has used of the fragment, and told.
Heard(stream) ==
    [bytes    |-> stream.bytes \o SubSeq(frag, 1, Len(frag) - Len(frag')),
     messages |-> stream.messages \o [i \in DOMAIN told' |-> told'[i].data]]

Used == [c \in DOMAIN streams \cup {channel} |->
            IF c # channel THEN streams[c]
            ELSE Heard(IF c \in DOMAIN streams THEN streams[c] ELSE Fresh)]

Feed ==
    /\ FeedNext
    /\ IF reading'
       THEN /\ streams' = Used
            /\ received' = received \o told'
            /\ UNCHANGED <<producer, outgoing, sent>>
       ELSE NoStream

\* A chunk of mux_send's, or any other.
Deliverable == IF producer = "mux_send" THEN IF outgoing = <<>> THEN {} ELSE {outgoing[1]}
               ELSE UNION {[1..n -> SomeBytes] : n \in 1..ChunkSize}

Total == FoldFunction(+, 0, [c \in DOMAIN streams |-> Len(streams[c].bytes)])

Take ==
    \E p \in Deliverable :
        /\ producer = "other" => Total + Len(p) - 1 =< MaxStream
        /\ Chunk(p)
        /\ IF reading'
           THEN /\ outgoing' = IF producer = "mux_send" THEN Tail(outgoing) ELSE outgoing
                /\ UNCHANGED <<producer, sent, received, streams>>
           ELSE NoStream

\* bvnr_mux_end is called when everything is written.
End == outgoing = <<>> /\ OctetStreamEnd /\ NoStream

Elsewise == DocumentNext /\ UNCHANGED history
Call     == CallerNext /\ IF reading THEN NoStream ELSE UNCHANGED history

MuxInit == Init /\ producer = "none" /\ outgoing = <<>> /\ sent = <<>> /\ received = <<>> /\ streams = [c \in {} |-> Fresh]

MuxNext ==
    \/ \E id \in Channels, data \in Messages : Send(id, data)
    \/ Begin \/ Feed \/ Take \/ End \/ Elsewise \/ Call

MuxSpec == MuxInit /\ [][MuxNext]_muxVars

-----------------------------------------------------------------------------
(* The wire convention, read over a channel's bytes as a whole.            *)

\* The message that comes after the first n bytes of s: where its length ends
\* and where it ends itself; past s where s ends first.
MessageAfter(s, n) ==
    LET rest   == SubSeq(s, n + 1, Len(s))
        length == CHOOSE i \in VarintEnds(rest) : TRUE
    IN  IF VarintEnds(rest) = {} THEN [body |-> Len(s) + 1, end |-> Len(s) + 1]
        ELSE [body |-> n + length, end |-> n + length + VarintValue(SubSeq(rest, 1, length))]

\* Where each message of s ends.
Ends(s) ==
    LET ends[k \in 0..Len(s)] == IF k = 0 THEN 0 ELSE MessageAfter(s, ends[k - 1]).end
    IN  ends

Message(s, k) == SubSeq(s, MessageAfter(s, Ends(s)[k - 1]).body + 1, Ends(s)[k])

\* What has been told of a channel are the messages its bytes begin with, each
\* whole, and the one after them is not whole yet.
Framed(stream) ==
    LET s == stream.bytes
        n == Len(stream.messages)
    IN  /\ n =< Len(s) /\ Ends(s)[n] =< Len(s)
        /\ \A k \in 1..n : stream.messages[k] = Message(s, k)
        /\ n < Len(s) => Ends(s)[n + 1] > Len(s)

\* However a channel's bytes are cut into chunks and whatever the other channels
\* interleave, what has been told of it is the messages its bytes are made of.
MessagesOfStream == octets /\ in_octet => \A c \in DOMAIN streams : Framed(streams[c])

\* A length cut short, or a length and part of its message.
LeftOver(stream) == Ends(stream.bytes)[Len(stream.messages)] # Len(stream.bytes)

\* A message is never lost in silence: a stream that ends with one unfinished
\* leaves an error behind, even when the read succeeds.
LossIsLatched ==
    [][End /\ in_octet /\ (\E c \in DOMAIN streams : LeftOver(streams[c])) => error' = "truncated"]_muxVars

\* What bvnr_mux_send sends is told: the messages of the stream so far, in the
\* order they were sent, none twice and none missing once all is read.
SentIsTold ==
    octets /\ in_octet /\ producer = "mux_send" /\ frag = <<>> /\ outgoing = <<>> => received = sent
=============================================================================

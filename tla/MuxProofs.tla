------------------------------ MODULE MuxProofs ------------------------------
(***************************************************************************)
(* The demultiplexer alone, under any document, any cut of the channels'   *)
(* bytes into chunks and every value of the limits; and what is told of a  *)
(* multiplexed stream, for every cut and every interleaving of the         *)
(* channels.                                                               *)
(***************************************************************************)
EXTENDS MuxDemux, SequenceTheorems, FiniteSetTheorems, WellFoundedInduction, TLAPS

-----------------------------------------------------------------------------
(* The demultiplexer alone.  Its inductive invariant is IInv.              *)

\* No document is open between reads.
ReadApart == ~reading => outer = <<>> /\ at = "boundary" /\ ~stale /\ ~octets

\* Whether a stream is multiplexed was settled as it began, under the same key.
Streams == octets => at # "boundary" /\ in_octet = (scope = NoKey \/ key_match)

\* key_match speaks of the last key read.  So it is right for the key of an open
\* value, and for an array around it, unless a key was read since.
RightFor(k) == scope # NoKey => (key_match <=> k = scope)

Scopes ==
    /\ at # "boundary" /\ ~stale => RightFor(key)
    /\ \A i \in 1..Len(outer) : outer[i].at = "elements" /\ ~outer[i].stale => RightFor(outer[i].key)

\* Only inside a multiplexed stream is a message in the middle, or after a read
\* that failed there; a demultiplexer that may not be used again until it is
\* created anew.
Clean ==
    ~ReusedAfterFailure /\ (reading \/ ~read_failed) /\ ~(octets /\ in_octet) =>
        \A c \in DOMAIN chans : ~Unfinished(c)

IInv == TypeOK /\ ChannelsBounded /\ ReadApart /\ Streams /\ Scopes /\ Clean

\* What the channels promise on their own.
Kept ==
    /\ chans = [c \in DOMAIN chans |-> chans[c]]
    /\ \A c \in DOMAIN chans : chans[c] \in Partial
    /\ ChannelsBounded

-----------------------------------------------------------------------------
(* Channels.                                                               *)

\* An idle channel is within every limit.
LEMMA IdleKept == Idle \in Partial /\ PartBounded(Idle)
  BY LimitsAssumption, VarintAssumption, Len(<<>>) = 0 DEF Idle, Partial, PartBounded

\* One channel moves on; the others do not change.
LEMMA SetsKept ==
  ASSUME Kept, channel \in DOMAIN chans, NEW r \in Partial, PartBounded(r), Sets(r)
  PROVE  Kept' /\ DOMAIN chans' = DOMAIN chans /\ chans'[channel] = r
  BY DEF Kept, ChannelsBounded, Sets

\* The end of a stream makes every channel idle.
LEMMA ResetKept == Kept /\ ChannelsReset => Kept' /\ \A c \in DOMAIN chans' : ~Unfinished(c)'
<1> SUFFICES ASSUME Kept, ChannelsReset PROVE Kept' /\ \A c \in DOMAIN chans' : ~Unfinished(c)'
  OBVIOUS
<1>1. DOMAIN chans' = DOMAIN chans /\ \A c \in DOMAIN chans' : chans'[c] = Idle
  BY DEF ChannelsReset
<1>2. Kept'
  BY <1>1, IdleKept DEF Kept, ChannelsBounded, ChannelsReset
<1> QED
  BY <1>1, <1>2 DEF Unfinished, Idle

\* A new channel is let in where there is room, and is idle.
LEMMA NewChannelKept ==
  ASSUME Kept, NEW id, id \notin DOMAIN chans, RoomForChannel, chans' = NewChannel(id)
  PROVE  Kept' /\ id \in DOMAIN chans'
<1>1. DOMAIN chans' = DOMAIN chans \cup {id}
  BY DEF NewChannel
<1>2. IsFiniteSet(DOMAIN chans') /\ Cardinality(DOMAIN chans') = Cardinality(DOMAIN chans) + 1
  BY <1>1, FS_AddElement DEF Kept, ChannelsBounded
<1>3. Cardinality(DOMAIN chans) \in Nat
  BY FS_CardinalityType DEF Kept, ChannelsBounded
<1>4. Cardinality(DOMAIN chans') =< BVNR_DEMUX_MAX_CHANNELS
  BY <1>2, <1>3, LimitsAssumption DEF RoomForChannel
<1>5. \A c \in DOMAIN chans' : chans'[c] \in Partial /\ PartBounded(chans'[c])
  BY <1>1, IdleKept DEF NewChannel, Kept, ChannelsBounded
<1>6. chans' = [c \in DOMAIN chans' |-> chans'[c]]
  BY <1>1 DEF NewChannel
<1> QED
  BY <1>1, <1>2, <1>4, <1>5, <1>6 DEF Kept, ChannelsBounded

\* The rest of a fragment is a fragment.
LEMMA RestTyped ==
  ASSUME NEW s \in Seq(Byte), NEW n \in 0..Len(s)
  PROVE  SubSeq(s, n + 1, Len(s)) \in Seq(Byte) /\ (n = Len(s) <=> SubSeq(s, n + 1, Len(s)) = <<>>)
<1>1. \A i \in (n + 1)..Len(s) : s[i] \in Byte
  OBVIOUS
<1>2. n + 1 \in Int /\ Len(s) \in Int /\ n \in Int
  OBVIOUS
<1>3. /\ SubSeq(s, n + 1, Len(s)) \in Seq(Byte)
      /\ Len(SubSeq(s, n + 1, Len(s))) = IF n + 1 =< Len(s) THEN Len(s) - (n + 1) + 1 ELSE 0
  BY <1>1, <1>2, SubSeqProperties
<1>4. Len(SubSeq(s, n + 1, Len(s))) = 0 <=> n = Len(s)
  BY <1>3, <1>2
<1>5. Len(SubSeq(s, n + 1, Len(s))) = 0 <=> SubSeq(s, n + 1, Len(s)) = <<>>
  BY <1>3, EmptySeq
<1> QED
  BY <1>3, <1>4, <1>5

\* Between reads there is nothing open and no fragment.
LEMMA NothingIsTyped == <<>> \in Seq(Around) /\ <<>> \in Seq(Byte)
  BY EmptySeq

-----------------------------------------------------------------------------
(* The document.                                                           *)

\* Nothing of the demultiplexer or its fragment changes.
LEMMA IgnoredKept == Kept /\ Ignored => Kept'
  BY DEF Ignored, demux, Kept, ChannelsBounded

\* Events the demultiplexer has no case for leave what it knows right.
LEMMA DocumentKeeps == IInv /\ (Scalar \/ RowStart \/ RowEnd) => IInv'
  BY DEF IInv, Scalar, RowStart, RowEnd, Ignored, demux, Elsewhere, Expecting, TypeOK, ChannelsBounded,
         ReadApart, Streams, Scopes, RightFor, Clean, Unfinished

\* A struct's key and place are set aside as it opens.
LEMMA StructStartKeeps == IInv /\ StructStart => IInv'
<1> SUFFICES ASSUME IInv, StructStart PROVE IInv'
  OBVIOUS
<1> DEFINE around == [key |-> key, at |-> at, stale |-> stale]
<1>1. around \in Around /\ outer \in Seq(Around)
  BY DEF IInv, TypeOK, StructStart, Around
<1>2. outer' = Append(outer, around)
  BY DEF StructStart
<1> HIDE DEF around
<1>3. /\ outer' \in Seq(Around) /\ Len(outer') = Len(outer) + 1 /\ outer'[Len(outer) + 1] = around
      /\ \A i \in 1..Len(outer) : outer'[i] = outer[i]
  BY <1>1, <1>2, AppendProperties
<1>4. UNCHANGED <<reading, read_failed, octets, in_octet, error, chans, scope, key_match, frag, channel>>
  BY DEF StructStart, Ignored, demux
<1>5. key' = NoKey /\ at' = "boundary" /\ stale' = FALSE /\ reading /\ ~octets
  BY DEF StructStart, Elsewhere, Expecting
<1>6. TypeOK' /\ ChannelsBounded' /\ ReadApart' /\ Streams' /\ Clean'
  BY <1>3, <1>4, <1>5 DEF IInv, TypeOK, ChannelsBounded, ReadApart, Streams, Clean, Unfinished
<1>7. Scopes'
  <2> SUFFICES ASSUME NEW i \in 1..Len(outer'), outer'[i].at = "elements", ~outer'[i].stale
               PROVE  RightFor(outer[i].key)'
    BY <1>5 DEF Scopes
  <2>1. CASE i \in 1..Len(outer)
    BY <2>1, <1>3, <1>4 DEF IInv, Scopes, RightFor
  <2>2. CASE i = Len(outer) + 1
    BY <2>2, <1>3, <1>4, <1>1 DEF IInv, Scopes, RightFor, around
  <2> QED
    BY <2>1, <2>2, <1>3, <1>1
<1> QED
  BY <1>6, <1>7 DEF IInv

\* They are put back as it closes.
LEMMA StructEndKeeps == IInv /\ StructEnd => IInv'
<1> SUFFICES ASSUME IInv, StructEnd PROVE IInv'
  OBVIOUS
<1> DEFINE around == outer[Len(outer)]
<1>1. outer \in Seq(Around) /\ outer # <<>>
  BY DEF IInv, TypeOK, StructEnd
<1>2. Len(outer) \in Nat \ {0} /\ around \in Around
  BY <1>1
<1>3. /\ key' = around.key /\ stale' = around.stale
      /\ at' = IF around.at = "value" THEN "boundary" ELSE around.at
      /\ outer' = SubSeq(outer, 1, Len(outer) - 1)
  BY DEF StructEnd
<1> HIDE DEF around
<1>4. /\ outer' \in Seq(Around) /\ Len(outer') = Len(outer) - 1
      /\ \A i \in 1..Len(outer') : outer'[i] = outer[i]
  <2>1. \A i \in 1..Len(outer) - 1 : outer[i] \in Around
    BY <1>1, <1>2
  <2>2. 1 \in Int /\ Len(outer) - 1 \in Int
    BY <1>2
  <2>3. /\ SubSeq(outer, 1, Len(outer) - 1) \in Seq(Around)
        /\ Len(SubSeq(outer, 1, Len(outer) - 1)) = IF 1 <= Len(outer) - 1 THEN Len(outer) - 1 - 1 + 1 ELSE 0
        /\ \A i \in 1..Len(outer) - 1 - 1 + 1 : SubSeq(outer, 1, Len(outer) - 1)[i] = outer[1 + i - 1]
    BY <2>1, <2>2, SubSeqProperties
  <2> QED
    <3> DEFINE front == SubSeq(outer, 1, Len(outer) - 1)
    <3>1. outer' = front
      BY <1>3
    <3> HIDE DEF front
    <3>2. front \in Seq(Around) /\ Len(front) = Len(outer) - 1
      <4>1. (IF 1 <= Len(outer) - 1 THEN Len(outer) - 1 - 1 + 1 ELSE 0) = Len(outer) - 1
        BY <1>2
      <4>2. front \in Seq(Around) /\ Len(front) = IF 1 <= Len(outer) - 1 THEN Len(outer) - 1 - 1 + 1 ELSE 0
        BY <2>3 DEF front
      <4> QED
        BY <4>1, <4>2
    <3>3. ASSUME NEW i \in 1..Len(front) PROVE front[i] = outer[i]
      <4>1. i \in 1..Len(outer) - 1 - 1 + 1 /\ 1 + i - 1 = i
        BY <1>2, <3>2
      <4>2. front[i] = outer[1 + i - 1]
        BY <2>3, <4>1 DEF front
      <4> QED
        BY <4>1, <4>2
    <3> QED
      BY <3>1, <3>2, <3>3
<1>5. UNCHANGED <<reading, read_failed, octets, in_octet, error, chans, scope, key_match, frag, channel>>
  BY DEF StructEnd, Ignored, demux
<1>6. reading /\ ~octets
  BY DEF StructEnd, Elsewhere, Expecting
<1>7. TypeOK' /\ ChannelsBounded' /\ ReadApart' /\ Streams' /\ Clean'
  BY <1>2, <1>3, <1>4, <1>5, <1>6 DEF IInv, TypeOK, ChannelsBounded, ReadApart, Streams, Clean, Unfinished, Around
<1>8. Scopes'
  <2>1. \A i \in 1..Len(outer') : i \in 1..Len(outer)
    BY <1>2, <1>4
  <2>2. at' # "boundary" /\ ~stale' => RightFor(key)'
    BY <1>2, <1>3, <1>5 DEF IInv, Scopes, RightFor, around, Around
  <2> QED
    BY <2>1, <2>2, <1>4, <1>5 DEF IInv, Scopes, RightFor
<1> QED
  BY <1>7, <1>8 DEF IInv

\* A key makes every array around it stale: key_match speaks of this key now.
LEMMA AssignmentKeeps == ASSUME IInv, NEW k \in Keys, AssignmentStart(k) PROVE IInv'
<1>1. /\ outer' = [i \in 1..Len(outer) |-> [outer[i] EXCEPT !.stale = TRUE]]
      /\ key' = k /\ at' = "value" /\ stale' = FALSE /\ key_match' = (scope # NoKey /\ k = scope)
      /\ UNCHANGED <<reading, read_failed, octets, in_octet, error, chans, scope, frag, channel>>
      /\ reading /\ ~octets
  BY DEF AssignmentStart, Matches, Elsewhere, Expecting
<1>2. outer' \in Seq(Around) /\ \A i \in 1..Len(outer') : outer'[i].stale
  <2>1. outer \in Seq(Around) /\ Len(outer) \in Nat
    BY DEF IInv, TypeOK
  <2>2. \A r \in Around : [r EXCEPT !.stale = TRUE] \in Around /\ [r EXCEPT !.stale = TRUE].stale = TRUE
    BY DEF Around
  <2>3. \A i \in 1..Len(outer) : outer[i] \in Around
    BY <2>1
  <2> DEFINE marked == [i \in 1..Len(outer) |-> [outer[i] EXCEPT !.stale = TRUE]]
  <2>4. marked \in [1..Len(outer) -> Around]
    BY <2>2, <2>3
  <2>5. marked \in Seq(Around) /\ Len(marked) = Len(outer)
    BY <2>1, <2>4
  <2>6. \A i \in 1..Len(outer) : marked[i].stale = TRUE
    BY <2>2, <2>3
  <2> HIDE DEF marked
  <2>7. outer' = marked
    BY <1>1 DEF marked
  <2> QED
    BY <2>5, <2>6, <2>7
<1>3. TypeOK' /\ ChannelsBounded' /\ ReadApart' /\ Streams' /\ Clean'
  BY <1>1, <1>2 DEF IInv, TypeOK, ChannelsBounded, ReadApart, Streams, Clean, Unfinished
<1>4. Scopes'
  BY <1>1, <1>2 DEF Scopes, RightFor
<1> QED
  BY <1>3, <1>4 DEF IInv

-----------------------------------------------------------------------------
(* Octet streams.                                                          *)

\* The beginning of a stream settles whether it is multiplexed.
LEMMA OctetStreamStartKeeps == IInv /\ OctetStreamStart => IInv'
  BY DEF IInv, OctetStreamStart, Elsewhere, Expecting, TypeOK, ChannelsBounded, ReadApart, Streams, Scopes,
         RightFor, Clean, Unfinished

\* Its end leaves every channel idle.
LEMMA OctetStreamEndKeeps == IInv /\ OctetStreamEnd => IInv'
<1> SUFFICES ASSUME IInv, OctetStreamEnd PROVE IInv'
  OBVIOUS
<1>1. /\ Expecting /\ octets' = FALSE /\ in_octet' = FALSE
      /\ at' = IF at = "value" THEN "boundary" ELSE at
      /\ UNCHANGED <<reading, read_failed, outer, key, stale, scope, key_match, frag, channel>>
  BY DEF OctetStreamEnd
<1>2. Kept' /\ \A c \in DOMAIN chans' : ~Unfinished(c)'
  BY ResetKept DEF OctetStreamEnd, IInv, TypeOK, Kept
<1>3. error' \in Errors
  BY DEF OctetStreamEnd, LossLatched, IInv, TypeOK, Errors
<1>4. TypeOK' /\ ChannelsBounded'
  BY <1>1, <1>2, <1>3 DEF IInv, TypeOK, Kept, Expecting
<1>5. ReadApart' /\ Streams' /\ Scopes' /\ Clean'
  BY <1>1, <1>2 DEF IInv, TypeOK, Expecting, ReadApart, Streams, Scopes, RightFor, Clean
<1> QED
  BY <1>4, <1>5 DEF IInv

\* A handler that returns false leaves the document, and the channels as it
\* found or set them.
LEMMA AbortKeeps ==
  ASSUME IInv, Kept', NEW e \in Errors, Abort(e), UNCHANGED <<in_octet, scope, key_match>>
  PROVE  IInv'
<1>1. /\ error' = e /\ reading' = FALSE /\ read_failed' = TRUE /\ frag' = <<>> /\ channel' = 0
      /\ outer' = <<>> /\ key' = NoKey /\ at' = "boundary" /\ stale' = FALSE /\ octets' = FALSE
  BY DEF Abort, LeaveDocument
<1>2. TypeOK' /\ ChannelsBounded'
  BY <1>1, NothingIsTyped DEF IInv, TypeOK, Kept
<1>3. ReadApart' /\ Streams' /\ Scopes' /\ Clean'
  BY <1>1 DEF ReadApart, Streams, Scopes, Clean
<1> QED
  BY <1>2, <1>3 DEF IInv

\* A step within a multiplexed stream after which the read goes on.
LEMMA StreamGoesOn ==
  ASSUME IInv, Kept', reading, octets, in_octet, frag' \in Seq(Byte), frag' # <<>> => channel' \in DOMAIN chans',
         UNCHANGED <<reading, read_failed, document, error, in_octet, scope, key_match>>
  PROVE  IInv'
<1>1. TypeOK' /\ ChannelsBounded'
  BY DEF IInv, TypeOK, Kept, document
<1>2. ReadApart' /\ Streams' /\ Scopes' /\ Clean'
  BY DEF IInv, ReadApart, Streams, Scopes, RightFor, Clean, document
<1> QED
  BY <1>1, <1>2 DEF IInv

\* A chunk names its channel, or ends the read.
LEMMA ChunkKeeps == ASSUME IInv, NEW p \in Seq(Byte), Chunk(p) PROVE IInv'
<1>1. Expecting /\ octets /\ reading /\ UNCHANGED <<in_octet, scope, key_match>> /\ Kept
  BY DEF Chunk, Expecting, IInv, TypeOK, Kept
<1>2. CASE /\ ~in_octet
           /\ UNCHANGED <<reading, read_failed, document, error, chans, frag, channel>>
  BY <1>1, <1>2 DEF IInv, TypeOK, ChannelsBounded, ReadApart, Streams, Scopes, RightFor, Clean, Unfinished, document
<1>3. CASE Abort("out_of_sync") /\ UNCHANGED chans
  BY <1>1, <1>3, AbortKeeps DEF Errors, Kept, ChannelsBounded
<1>4. ASSUME in_octet, NEW i \in VarintEnds(p), NEW id, id \in DOMAIN chans \/ RoomForChannel,
             chans' = IF id \in DOMAIN chans THEN chans ELSE NewChannel(id),
             frag' = SubSeq(p, i + 1, Len(p)), channel' = IF frag' = <<>> THEN 0 ELSE id,
             UNCHANGED <<reading, read_failed, document, error>>
      PROVE  IInv'
  <2>1. i \in 0..Len(p)
    BY <1>4 DEF VarintEnds
  <2>2. frag' \in Seq(Byte)
    BY <1>4, <2>1, RestTyped
  <2>3. Kept' /\ id \in DOMAIN chans'
    BY <1>1, <1>4, NewChannelKept DEF Kept, ChannelsBounded
  <2> QED
    BY <1>1, <1>4, <2>2, <2>3, StreamGoesOn
<1>5. CASE /\ Abort(IF RoomForChannel THEN "invalid_argument" ELSE "out_of_sync")
           /\ UNCHANGED chans
  BY <1>1, <1>5, AbortKeeps DEF Errors, Kept, ChannelsBounded
<1> QED
  BY <1>2, <1>3, <1>4, <1>5 DEF Chunk

-----------------------------------------------------------------------------
(* demux_feed.                                                             *)

\* The rest of the fragment is the same channel's.
LEMMA UsesTyped ==
  ASSUME IInv, Feeding, NEW n \in 1..Len(frag), Uses(n), DOMAIN chans' = DOMAIN chans
  PROVE  frag' \in Seq(Byte) /\ (frag' # <<>> => channel' \in DOMAIN chans')
<1>1. frag \in Seq(Byte) /\ n \in 0..Len(frag) /\ channel \in DOMAIN chans
  BY DEF IInv, TypeOK, Feeding
<1>2. frag' \in Seq(Byte) /\ (n = Len(frag) <=> frag' = <<>>)
  BY <1>1, RestTyped DEF Uses
<1> QED
  BY <1>1, <1>2 DEF Uses

\* A message told leaves its channel idle, whether the consumer takes it or not.
LEMMA DeliverKeeps ==
  ASSUME IInv, Feeding, NEW data, NEW n \in 1..Len(frag), Deliver(data, n, <<>>),
         UNCHANGED <<in_octet, scope, key_match>>
  PROVE  IInv'
<1>1. Kept /\ channel \in DOMAIN chans /\ reading /\ octets /\ in_octet
  BY DEF IInv, TypeOK, Feeding, Kept
<1>2. Sets(Idle)
  BY DEF Deliver, Idle
<1>3. Kept' /\ DOMAIN chans' = DOMAIN chans
  BY <1>1, <1>2, SetsKept, IdleKept
<1>4. CASE Uses(n) /\ UNCHANGED <<reading, read_failed, document, error>>
  BY <1>1, <1>3, <1>4, UsesTyped, StreamGoesOn
<1>5. CASE Abort("callback_failed")
  BY <1>3, <1>5, AbortKeeps DEF Errors
<1> QED
  BY <1>4, <1>5 DEF Deliver

\* One byte of a length.
LEMMA LengthByteKeeps == IInv /\ LengthByte => IInv'
<1> SUFFICES ASSUME IInv, LengthByte PROVE IInv'
  OBVIOUS
<1> DEFINE lv == Append(Current.lvbuf, frag[1])
           need == VarintValue(lv)
           longer == [Current EXCEPT !.lvbuf = lv]
           begun == [active |-> TRUE, need |-> need, buf |-> <<>>, lvbuf |-> LengthUsed]
<1>1. /\ Feeding /\ ~Current.active /\ UNCHANGED <<in_octet, scope, key_match>>
      /\ Kept /\ channel \in DOMAIN chans /\ reading /\ octets /\ in_octet
  BY DEF LengthByte, IInv, TypeOK, Feeding, Kept
<1>2. /\ frag \in Seq(Byte) /\ frag # <<>> /\ 1 \in 1..Len(frag) /\ frag[1] \in Byte
      /\ Current \in Partial /\ Current.lvbuf \in Seq(Byte) /\ PartBounded(Current)
  BY <1>1 DEF Feeding, IInv, TypeOK, ChannelsBounded, Current, Partial
<1>3. lv \in Seq(Byte) /\ Len(lv) = Len(Current.lvbuf) + 1 /\ Len(Current.lvbuf) \in Nat
  BY <1>2, AppendProperties
<1>4. ASSUME Len(Current.lvbuf) < MaxVarint PROVE longer \in Partial /\ PartBounded(longer)
  <2>1. longer.lvbuf = lv /\ longer.active = Current.active /\ longer \in Partial
    BY <1>2, <1>3 DEF Partial
  <2> QED
    BY <1>1, <1>3, <1>4, <2>1, VarintAssumption DEF PartBounded
<1>5. ASSUME ~TooLong(need), need # 0 PROVE begun \in Partial /\ PartBounded(begun)
  <2>1. need \in 1..max_message
    BY <1>5, LimitsAssumption DEF TooLong
  <2> HIDE DEF need
  <2> QED
    BY <2>1, LimitsAssumption, VarintAssumption, Len(<<>>) = 0 DEF Partial, PartBounded, LengthUsed
<1> HIDE DEF lv, need, longer, begun
<1>6. CASE /\ Abort("out_of_sync")
           /\ IF Len(Current.lvbuf) >= MaxVarint THEN UNCHANGED chans ELSE Sets(longer)
  <2>1. Kept'
    BY <1>1, <1>3, <1>4, <1>6, VarintAssumption, SetsKept DEF Kept, ChannelsBounded
  <2> QED
    BY <1>1, <1>6, <2>1, AbortKeeps DEF Errors
<1>7. CASE /\ Len(Current.lvbuf) < MaxVarint /\ Sets(longer) /\ Uses(1)
           /\ UNCHANGED <<reading, read_failed, document, error>>
  <2>1. Kept' /\ DOMAIN chans' = DOMAIN chans
    BY <1>1, <1>4, <1>7, SetsKept
  <2> QED
    BY <1>1, <1>2, <1>7, <2>1, UsesTyped, StreamGoesOn
<1>8. CASE Sets(Idle) /\ Abort("out_of_range")
  <2>1. Kept'
    BY <1>1, <1>8, IdleKept, SetsKept
  <2> QED
    BY <1>1, <1>8, <2>1, AbortKeeps DEF Errors
<1>9. CASE Deliver(<<>>, 1, LengthUsed)
  BY <1>1, <1>2, <1>9, DeliverKeeps DEF LengthUsed
<1>10. CASE /\ ~TooLong(need) /\ need # 0 /\ Sets(begun) /\ Uses(1)
            /\ UNCHANGED <<reading, read_failed, document, error>>
  <2>1. Kept' /\ DOMAIN chans' = DOMAIN chans
    BY <1>1, <1>5, <1>10, SetsKept
  <2> QED
    BY <1>1, <1>2, <1>10, <2>1, UsesTyped, StreamGoesOn
<1> QED
  BY <1>6, <1>7, <1>8, <1>9, <1>10 DEF LengthByte, lv, need, longer, begun

\* A run of a message's bytes.
LEMMA MessageBytesKeeps == IInv /\ MessageBytes => IInv'
<1> SUFFICES ASSUME IInv, MessageBytes PROVE IInv'
  OBVIOUS
<1> DEFINE left == Current.need - Len(Current.buf)
           take == IF Len(frag) < left THEN Len(frag) ELSE left
           data == Current.buf \o SubSeq(frag, 1, take)
           longer == [Current EXCEPT !.buf = data]
<1>1. /\ Feeding /\ Current.active /\ UNCHANGED <<in_octet, scope, key_match>>
      /\ Kept /\ channel \in DOMAIN chans /\ reading /\ octets /\ in_octet
  BY DEF MessageBytes, IInv, TypeOK, Feeding, Kept
<1>2. /\ frag \in Seq(Byte) /\ frag # <<>>
      /\ Current \in Partial /\ Current.buf \in Seq(Byte) /\ PartBounded(Current) /\ Current.need \in 0..max_message
  BY <1>1 DEF Feeding, IInv, TypeOK, ChannelsBounded, Current, Partial
<1>3. Len(Current.buf) \in Nat /\ Current.need \in Nat /\ Len(Current.buf) < Current.need /\ Current.lvbuf = <<>>
  BY <1>1, <1>2, LimitsAssumption DEF PartBounded
<1>4. left \in Nat \ {0} /\ take \in 1..Len(frag)
  BY <1>2, <1>3
<1>5. data \in Seq(Byte) /\ Len(data) = Len(Current.buf) + take
  <2> DEFINE run == SubSeq(frag, 1, take)
  <2>1. \A i \in 1..take : frag[i] \in Byte
    BY <1>2, <1>4
  <2>2. 1 \in Int /\ take \in Int
    BY <1>2, <1>4
  <2> HIDE DEF take
  <2>3. run \in Seq(Byte) /\ Len(run) = IF 1 =< take THEN take - 1 + 1 ELSE 0
    BY <2>1, <2>2, SubSeqProperties
  <2>4. Len(run) = take
    BY <2>3, <1>2, <1>4
  <2> HIDE DEF run
  <2>5. Current.buf \o run \in Seq(Byte) /\ Len(Current.buf \o run) = Len(Current.buf) + Len(run)
    BY <1>2, <2>3, ConcatProperties
  <2> QED
    BY <2>4, <2>5 DEF run
<1>6. ASSUME take < left PROVE longer \in Partial /\ PartBounded(longer)
  <2>1. Len(data) < Current.need
    BY <1>3, <1>4, <1>5, <1>6
  <2> HIDE DEF data
  <2>2. /\ longer.active = Current.active /\ longer.need = Current.need
        /\ longer.buf = data /\ longer.lvbuf = Current.lvbuf /\ longer \in Partial
    BY <1>2, <1>5 DEF Partial
  <2> QED
    BY <1>2, <1>3, <2>1, <2>2 DEF PartBounded
<1> HIDE DEF left, take, data, longer
<1>7. CASE /\ take < left /\ Sets(longer) /\ Uses(take)
           /\ UNCHANGED <<reading, read_failed, document, error>>
  <2>1. Kept' /\ DOMAIN chans' = DOMAIN chans
    BY <1>1, <1>6, <1>7, SetsKept
  <2> QED
    BY <1>1, <1>4, <1>7, <2>1, UsesTyped, StreamGoesOn
<1>8. CASE Deliver(data, take, Current.lvbuf)
  BY <1>1, <1>3, <1>4, <1>8, DeliverKeeps
<1> QED
  BY <1>7, <1>8 DEF MessageBytes, left, take, data, longer

\* No memory: the channel stays where it was.
LEMMA AllocFailsKeeps == IInv /\ AllocFails => IInv'
<1> SUFFICES ASSUME IInv, AllocFails PROVE IInv'
  OBVIOUS
<1>1. Kept'
  BY DEF AllocFails, IInv, TypeOK, Kept, ChannelsBounded
<1> QED
  BY <1>1, AbortKeeps DEF AllocFails, Errors

-----------------------------------------------------------------------------
(* Around a read.                                                          *)

\* A read begins, ends or fails with no fragment under way; the scope moves and
\* a demultiplexer is made anew only between reads.
LEMMA CallerKeeps == IInv /\ CallerNext => IInv'
<1> SUFFICES ASSUME IInv, CallerNext PROVE IInv'
  OBVIOUS
<1>1. CASE ReadBegins
  BY <1>1 DEF ReadBegins, document, demux, IInv, TypeOK, ChannelsBounded, ReadApart, Streams, Scopes, RightFor,
              Clean, Unfinished
<1>2. CASE ReadEnds
  BY <1>2 DEF ReadEnds, Elsewhere, Expecting, LeaveDocument, demux, IInv, TypeOK, ChannelsBounded, ReadApart,
              Streams, Scopes, RightFor, Clean, Unfinished
<1>3. CASE ReadFails
  <2>1. TypeOK' /\ ChannelsBounded'
    BY <1>3, NothingIsTyped DEF ReadFails, Expecting, LeaveDocument, demux, IInv, TypeOK, ChannelsBounded
  <2>2. ReadApart' /\ Streams' /\ Scopes' /\ Clean'
    BY <1>3 DEF ReadFails, LeaveDocument, ReadApart, Streams, Scopes, Clean
  <2> QED
    BY <2>1, <2>2 DEF IInv
<1>4. CASE Recreate
  <2>1. DOMAIN chans' = {} /\ chans' = [c \in DOMAIN chans' |-> chans'[c]]
    BY <1>4 DEF Recreate
  <2>2. IsFiniteSet(DOMAIN chans') /\ Cardinality(DOMAIN chans') = 0
    BY <2>1, FS_EmptySet
  <2>3. TypeOK'
    BY <1>4, <2>1 DEF Recreate, document, IInv, TypeOK, ReadApart, Errors
  <2>5. ChannelsBounded'
    BY <2>1, <2>2, LimitsAssumption DEF ChannelsBounded
  <2>4. ReadApart' /\ Streams' /\ Scopes' /\ Clean'
    BY <1>4, <2>1 DEF Recreate, document, IInv, ReadApart, Streams, Scopes, RightFor, Clean
  <2> QED
    BY <2>3, <2>4, <2>5 DEF IInv
<1>5. ASSUME NEW k \in Keys \cup {NoKey}, SetKey(k) PROVE IInv'
  <2>1. TypeOK' /\ ChannelsBounded'
    BY <1>5 DEF SetKey, document, IInv, TypeOK, ChannelsBounded, Errors
  <2>2. ReadApart' /\ Streams' /\ Scopes' /\ Clean'
    BY <1>5 DEF SetKey, document, IInv, TypeOK, ReadApart, Streams, Scopes, RightFor, Clean, Unfinished
  <2> QED
    BY <2>1, <2>2 DEF IInv
<1> QED
  BY <1>1, <1>2, <1>3, <1>4, <1>5 DEF CallerNext

-----------------------------------------------------------------------------
(* The theorems.                                                           *)

\* A new demultiplexer has no channels.
LEMMA InitIInv == Init => IInv
<1> SUFFICES ASSUME Init PROVE IInv
  OBVIOUS
<1>1. DOMAIN chans = {} /\ chans = [c \in DOMAIN chans |-> chans[c]]
  BY DEF Init
<1>2. IsFiniteSet(DOMAIN chans) /\ Cardinality(DOMAIN chans) = 0
  BY <1>1, FS_EmptySet
<1>3. TypeOK
  BY <1>1, NothingIsTyped DEF Init, TypeOK, Errors
<1>5. ChannelsBounded
  BY <1>1, <1>2, LimitsAssumption DEF ChannelsBounded
<1>4. ReadApart /\ Streams /\ Scopes /\ Clean
  BY <1>1 DEF Init, ReadApart, Streams, Scopes, Clean
<1> QED
  BY <1>3, <1>4, <1>5 DEF IInv

\* Every step keeps the invariant.
LEMMA NextKeeps == IInv /\ [DemuxNext]_vars => IInv'
<1> SUFFICES ASSUME IInv, [DemuxNext]_vars PROVE IInv'
  OBVIOUS
<1>1. CASE UNCHANGED vars
  BY <1>1 DEF vars, document, demux, feeding, IInv, TypeOK, ChannelsBounded, ReadApart, Streams, Scopes, RightFor,
              Clean, Unfinished
<1>2. CASE DocumentNext
  BY <1>2, DocumentKeeps, StructStartKeeps, StructEndKeeps, AssignmentKeeps DEF DocumentNext
<1>3. CASE CallerNext
  BY <1>3, CallerKeeps
<1>4. CASE FeedNext
  BY <1>4, LengthByteKeeps, MessageBytesKeeps, AllocFailsKeeps DEF FeedNext
<1>5. CASE OctetStreamStart \/ OctetStreamEnd
  BY <1>5, OctetStreamStartKeeps, OctetStreamEndKeeps
<1>6. ASSUME NEW p \in Seq(Byte), Chunk(p) PROVE IInv'
  BY <1>6, ChunkKeeps
<1> QED
  BY <1>1, <1>2, <1>3, <1>4, <1>5, <1>6 DEF DemuxNext

\* The invariant holds in every reachable state: for every document, however the
\* bytes of its streams are cut, and through failed reads.
THEOREM DemuxInvariance == Spec => []IInv
  BY InitIInv, NextKeeps, PTL DEF Spec

\* The demultiplexer's fields keep their types, and a fragment under way always
\* has its channel.
THEOREM DemuxTypeCorrect == Spec => []TypeOK
<1>1. IInv => TypeOK
  BY DEF IInv
<1> QED
  BY <1>1, DemuxInvariance, PTL

\* What a demultiplexer holds stays within its limits, whatever lengths and
\* channel ids a stream declares.
THEOREM DemuxBounded == Spec => []ChannelsBounded
<1>1. IInv => ChannelsBounded
  BY DEF IInv
<1> QED
  BY <1>1, DemuxInvariance, PTL

\* No stream starts with the remains of another, if a demultiplexer whose read
\* failed is not used again.
THEOREM StreamsApart == ASSUME ~ReusedAfterFailure PROVE Spec => []NothingBleeds
<1>1. IInv => NothingBleeds
  BY DEF IInv, Clean, NothingBleeds, Elsewhere, Expecting
<1> QED
  BY <1>1, DemuxInvariance, PTL

\* Outside arrays that hold keys of their own, a stream is demultiplexed exactly
\* when it is in scope.
THEOREM ScopeRespected == Spec => []ScopedOutsideTables
<1>1. IInv => ScopedOutsideTables
  BY DEF IInv, TypeOK, Streams, Scopes, RightFor, ScopedOutsideTables, ScopedToKey
<1> QED
  BY <1>1, DemuxInvariance, PTL

-----------------------------------------------------------------------------
(* Taking sequences apart and joining them.                                *)

\* The first n elements.
LEMMA HeadOf ==
    ASSUME NEW S, NEW s \in Seq(S), NEW n \in 0..Len(s)
    PROVE  /\ SubSeq(s, 1, n) \in Seq(S) /\ Len(SubSeq(s, 1, n)) = n
           /\ \A i \in 1..n : SubSeq(s, 1, n)[i] = s[i]
OBVIOUS

\* All after the first n.
LEMMA TailOf ==
    ASSUME NEW S, NEW s \in Seq(S), NEW n \in 0..Len(s)
    PROVE  /\ SubSeq(s, n + 1, Len(s)) \in Seq(S) /\ Len(SubSeq(s, n + 1, Len(s))) = Len(s) - n
           /\ \A i \in 1..(Len(s) - n) : SubSeq(s, n + 1, Len(s))[i] = s[n + i]
OBVIOUS

\* Those between.
LEMMA PieceOf ==
    ASSUME NEW S, NEW s \in Seq(S), NEW m \in 0..Len(s), NEW n \in m..Len(s)
    PROVE  /\ SubSeq(s, m + 1, n) \in Seq(S) /\ Len(SubSeq(s, m + 1, n)) = n - m
           /\ \A i \in 1..(n - m) : SubSeq(s, m + 1, n)[i] = s[m + i]
OBVIOUS

\* One sequence after another.
LEMMA JoinOf ==
    ASSUME NEW S, NEW s \in Seq(S), NEW t \in Seq(S)
    PROVE  /\ s \o t \in Seq(S) /\ Len(s \o t) = Len(s) + Len(t)
           /\ \A i \in 1..Len(s) : (s \o t)[i] = s[i]
           /\ \A i \in 1..Len(t) : (s \o t)[Len(s) + i] = t[i]
OBVIOUS

\* Sequences of one length with the same elements are one.
LEMMA SameOf ==
    ASSUME NEW S, NEW s \in Seq(S), NEW t \in Seq(S), Len(s) = Len(t), \A i \in 1..Len(s) : s[i] = t[i]
    PROVE  s = t
OBVIOUS

\* The length and the elements of a sequence.
LEMMA LengthOf ==
    ASSUME NEW S, NEW s \in Seq(S)
    PROVE  Len(s) \in Nat /\ \A i \in 1..Len(s) : s[i] \in S
OBVIOUS

\* One element more.
LEMMA JoinOne ==
    ASSUME NEW S, NEW s \in Seq(S), NEW x \in S
    PROVE  /\ s \o <<x>> \in Seq(S) /\ Len(s \o <<x>>) = Len(s) + 1 /\ (s \o <<x>>)[Len(s) + 1] = x
           /\ \A i \in 1..Len(s) : (s \o <<x>>)[i] = s[i]
OBVIOUS

\* The first element, as a sequence.
LEMMA FirstOf ==
    ASSUME NEW S, NEW s \in Seq(S), 1 \in 1..Len(s)
    PROVE  SubSeq(s, 1, 1) = <<s[1]>>
<1> DEFINE one == SubSeq(s, 1, 1)
           x == <<s[1]>>
<1>1. one \in Seq(S) /\ Len(one) = 1 /\ one[1] = s[1]
  <2>1. 1 \in 0..Len(s) /\ 1 \in 1..1
    OBVIOUS
  <2> QED BY <2>1, HeadOf
<1>2. x \in Seq(S) /\ Len(x) = 1 /\ x[1] = s[1]
  OBVIOUS
<1> HIDE DEF one, x
<1>3. \A i \in 1..1 : i = 1
  OBVIOUS
<1>4. one = x
  BY <1>1, <1>2, <1>3, SameOf
<1> QED BY <1>4 DEF one, x

\* What comes at the end does not change what comes before it.
LEMMA PieceJoined ==
    ASSUME NEW S, NEW s \in Seq(S), NEW t \in Seq(S), NEW m \in Nat, NEW n \in 0..Len(s)
    PROVE  SubSeq(s \o t, m + 1, n) = SubSeq(s, m + 1, n)
<1>1. /\ s \o t \in Seq(S) /\ Len(s \o t) = Len(s) + Len(t) /\ Len(s) \in Nat /\ Len(t) \in Nat
      /\ \A i \in 1..Len(s) : (s \o t)[i] = s[i]
  BY JoinOf, LengthOf
<1> DEFINE u == s \o t
<1> HIDE DEF u
<1>2. u \in Seq(S) /\ Len(u) = Len(s) + Len(t) /\ \A i \in 1..Len(s) : u[i] = s[i]
  BY <1>1 DEF u
<1>3. CASE m =< n
  <2>1. m \in 0..Len(s) /\ n \in m..Len(s) /\ m \in 0..Len(u) /\ n \in m..Len(u)
    BY <1>1, <1>2, <1>3
  <2>2. /\ SubSeq(s, m + 1, n) \in Seq(S) /\ Len(SubSeq(s, m + 1, n)) = n - m
        /\ \A i \in 1..(n - m) : SubSeq(s, m + 1, n)[i] = s[m + i]
    BY <2>1, PieceOf
  <2>3. /\ SubSeq(u, m + 1, n) \in Seq(S) /\ Len(SubSeq(u, m + 1, n)) = n - m
        /\ \A i \in 1..(n - m) : SubSeq(u, m + 1, n)[i] = u[m + i]
    BY <1>2, <2>1, PieceOf
  <2>4. \A i \in 1..(n - m) : m + i \in 1..Len(s)
    BY <1>1, <2>1
  <2> QED BY <1>2, <2>2, <2>3, <2>4, SameOf DEF u
<1>4. CASE ~(m =< n)
  <2>1. SubSeq(s, m + 1, n) = <<>> /\ SubSeq(u, m + 1, n) = <<>>
    BY <1>1, <1>2, <1>4
  <2> QED BY <2>1 DEF u
<1> QED BY <1>3, <1>4

\* What is left of s and t together is what is left of s, then t.
LEMMA TailJoined ==
    ASSUME NEW S, NEW s \in Seq(S), NEW t \in Seq(S), NEW n \in 0..Len(s)
    PROVE  SubSeq(s \o t, n + 1, Len(s \o t)) = SubSeq(s, n + 1, Len(s)) \o t
<1> DEFINE u == s \o t
           r == SubSeq(s, n + 1, Len(s))
<1>1. /\ u \in Seq(S) /\ Len(u) = Len(s) + Len(t) /\ Len(s) \in Nat /\ Len(t) \in Nat
      /\ \A i \in 1..Len(s) : u[i] = s[i]
      /\ \A i \in 1..Len(t) : u[Len(s) + i] = t[i]
  BY JoinOf, LengthOf
<1>2. /\ r \in Seq(S) /\ Len(r) = Len(s) - n
      /\ \A i \in 1..(Len(s) - n) : r[i] = s[n + i]
  BY TailOf
<1> HIDE DEF u, r
<1>3. /\ r \o t \in Seq(S) /\ Len(r \o t) = Len(r) + Len(t)
      /\ \A i \in 1..Len(r) : (r \o t)[i] = r[i]
      /\ \A i \in 1..Len(t) : (r \o t)[Len(r) + i] = t[i]
  <2>1. r \in Seq(S)
    BY <1>2
  <2> QED BY <2>1, JoinOf
<1>4. n \in 0..Len(u)
  BY <1>1
<1>5. /\ SubSeq(u, n + 1, Len(u)) \in Seq(S) /\ Len(SubSeq(u, n + 1, Len(u))) = Len(u) - n
      /\ \A i \in 1..(Len(u) - n) : SubSeq(u, n + 1, Len(u))[i] = u[n + i]
  BY <1>1, <1>4, TailOf
<1>6. Len(r \o t) = Len(u) - n
  BY <1>1, <1>2, <1>3
<1>7. ASSUME NEW i \in 1..(Len(u) - n) PROVE u[n + i] = (r \o t)[i]
  <2>1. CASE i =< Len(r)
    <3>1. i \in 1..Len(r) /\ i \in 1..(Len(s) - n) /\ n + i \in 1..Len(s)
      BY <1>1, <1>2, <2>1
    <3> QED BY <1>1, <1>2, <1>3, <3>1
  <2>2. CASE ~(i =< Len(r))
    <3>1. /\ i - Len(r) \in 1..Len(t) /\ Len(r) + (i - Len(r)) = i
          /\ Len(s) + (i - Len(r)) = n + i
      BY <1>1, <1>2, <2>2
    <3> QED BY <1>1, <1>3, <3>1
  <2> QED BY <2>1, <2>2
<1>8. SubSeq(u, n + 1, Len(u)) = r \o t
  BY <1>3, <1>5, <1>6, <1>7, SameOf
<1> QED BY <1>8 DEF u, r

\* Joining is associative.
LEMMA JoinedThrice ==
    ASSUME NEW S, NEW s \in Seq(S), NEW t \in Seq(S), NEW u \in Seq(S)
    PROVE  (s \o t) \o u = s \o (t \o u)
<1>1. /\ s \o t \in Seq(S) /\ Len(s \o t) = Len(s) + Len(t)
      /\ \A i \in 1..Len(s) : (s \o t)[i] = s[i]
      /\ \A i \in 1..Len(t) : (s \o t)[Len(s) + i] = t[i]
  BY JoinOf
<1>2. /\ t \o u \in Seq(S) /\ Len(t \o u) = Len(t) + Len(u)
      /\ \A i \in 1..Len(t) : (t \o u)[i] = t[i]
      /\ \A i \in 1..Len(u) : (t \o u)[Len(t) + i] = u[i]
  BY JoinOf
<1>3. Len(s) \in Nat /\ Len(t) \in Nat /\ Len(u) \in Nat
  BY LengthOf
<1> DEFINE a == s \o t
           b == t \o u
<1>4. /\ a \o u \in Seq(S) /\ Len(a \o u) = Len(a) + Len(u)
      /\ \A i \in 1..Len(a) : (a \o u)[i] = a[i]
      /\ \A i \in 1..Len(u) : (a \o u)[Len(a) + i] = u[i]
  <2>1. a \in Seq(S)
    BY <1>1
  <2> HIDE DEF a
  <2> QED BY <2>1, JoinOf
<1>5. /\ s \o b \in Seq(S) /\ Len(s \o b) = Len(s) + Len(b)
      /\ \A i \in 1..Len(s) : (s \o b)[i] = s[i]
      /\ \A i \in 1..Len(b) : (s \o b)[Len(s) + i] = b[i]
  <2>1. b \in Seq(S)
    BY <1>2
  <2> HIDE DEF b
  <2> QED BY <2>1, JoinOf
<1>6. /\ Len(a) = Len(s) + Len(t) /\ Len(b) = Len(t) + Len(u)
      /\ \A i \in 1..Len(s) : a[i] = s[i]
      /\ \A i \in 1..Len(t) : a[Len(s) + i] = t[i]
      /\ \A i \in 1..Len(t) : b[i] = t[i]
      /\ \A i \in 1..Len(u) : b[Len(t) + i] = u[i]
  BY <1>1, <1>2
<1> HIDE DEF a, b
<1>10. \A i \in 1..Len(s) : (a \o u)[i] = (s \o b)[i]
  <2>1. \A i \in 1..Len(s) : i \in 1..Len(a)
    BY <1>3, <1>6
  <2> QED BY <1>4, <1>5, <1>6, <2>1
<1>11. \A j \in 1..Len(t) : (a \o u)[Len(s) + j] = (s \o b)[Len(s) + j]
  <2> TAKE j \in 1..Len(t)
  <2>1. Len(s) + j \in 1..Len(a) /\ j \in 1..Len(b)
    BY <1>3, <1>6
  <2>2. (a \o u)[Len(s) + j] = a[Len(s) + j] /\ (s \o b)[Len(s) + j] = b[j]
    BY <1>4, <1>5, <2>1
  <2> QED BY <1>6, <2>2
<1>12. \A j \in 1..Len(u) : (a \o u)[Len(a) + j] = (s \o b)[Len(a) + j]
  <2> TAKE j \in 1..Len(u)
  <2>1. Len(t) + j \in 1..Len(b) /\ Len(s) + (Len(t) + j) = Len(a) + j
    BY <1>3, <1>6
  <2>2. (a \o u)[Len(a) + j] = u[j] /\ (s \o b)[Len(s) + (Len(t) + j)] = b[Len(t) + j]
    BY <1>4, <1>5, <2>1
  <2> QED BY <1>6, <2>1, <2>2
<1>7. ASSUME NEW i \in 1..Len(a \o u) PROVE (a \o u)[i] = (s \o b)[i]
  <2>1. CASE i =< Len(s)
    BY <1>10, <2>1
  <2>2. CASE Len(s) < i /\ i =< Len(a)
    <3>1. i - Len(s) \in 1..Len(t) /\ Len(s) + (i - Len(s)) = i
      BY <1>3, <1>6, <2>2
    <3> QED BY <1>11, <3>1
  <2>3. CASE Len(a) < i
    <3>1. i - Len(a) \in 1..Len(u) /\ Len(a) + (i - Len(a)) = i
      BY <1>3, <1>4, <1>6, <2>3
    <3> QED BY <1>12, <3>1
  <2> QED BY <1>3, <1>6, <2>1, <2>2, <2>3
<1>8. Len(a \o u) = Len(s \o b)
  BY <1>3, <1>4, <1>5, <1>6
<1>9. a \o u = s \o b
  BY <1>4, <1>5, <1>7, <1>8, SameOf
<1> QED BY <1>9 DEF a, b

-----------------------------------------------------------------------------
(* Lengths and messages, in the bytes of a channel as a whole.             *)

\* A varint ends in one place, and what comes after it does not move that.
LEMMA EndsOnce ==
    ASSUME NEW p \in Seq(Byte), NEW i \in VarintEnds(p), NEW j \in VarintEnds(p)
    PROVE  i = j
<1>1. /\ i \in 1..Len(p) /\ ~More(p[i]) /\ \A k \in 1..(i - 1) : More(p[k])
      /\ j \in 1..Len(p) /\ ~More(p[j]) /\ \A k \in 1..(j - 1) : More(p[k])
  BY DEF VarintEnds
<1>2. ~(i \in 1..(j - 1)) /\ ~(j \in 1..(i - 1)) /\ Len(p) \in Nat
  BY <1>1, LengthOf
<1> QED BY <1>1, <1>2

\* Where a varint ends does not change as bytes follow.
LEMMA EndsStay ==
    ASSUME NEW p \in Seq(Byte), NEW t \in Seq(Byte), NEW i \in VarintEnds(p)
    PROVE  i \in VarintEnds(p \o t) /\ SubSeq(p \o t, 1, i) = SubSeq(p, 1, i)
<1>1. /\ p \o t \in Seq(Byte) /\ Len(p \o t) = Len(p) + Len(t) /\ Len(p) \in Nat /\ Len(t) \in Nat
      /\ \A k \in 1..Len(p) : (p \o t)[k] = p[k]
  BY JoinOf, LengthOf
<1>2. /\ i \in 1..Len(p) /\ ~More(p[i]) /\ \A k \in 1..(i - 1) : More(p[k])
      /\ i < MaxVarint \/ (i = MaxVarint /\ p[i] < Top)
  BY DEF VarintEnds
<1>3. i \in 1..Len(p \o t) /\ \A k \in 1..(i - 1) : k \in 1..Len(p)
  BY <1>1, <1>2
<1>4. i \in VarintEnds(p \o t)
  BY <1>1, <1>2, <1>3 DEF VarintEnds
<1>5. 0 \in Nat /\ i \in 0..Len(p)
  BY <1>1, <1>2
<1>6. \A m \in Nat : SubSeq(p \o t, m + 1, i) = SubSeq(p, m + 1, i)
  BY <1>5, PieceJoined
<1>7. SubSeq(p \o t, 1, i) = SubSeq(p, 1, i)
  <2> DEFINE u == p \o t
  <2> HIDE DEF u
  <2>1. \A m \in Nat : SubSeq(u, m + 1, i) = SubSeq(p, m + 1, i)
    BY <1>6 DEF u
  <2>2. SubSeq(u, 0 + 1, i) = SubSeq(p, 0 + 1, i)
    BY <2>1, <1>5
  <2>3. 0 + 1 = 1
    OBVIOUS
  <2> QED BY <2>2, <2>3, Zenon DEF u
<1> QED BY <1>4, <1>7

\* Bytes that all say more follows hold no whole varint.
LEMMA EndsNowhere ==
    ASSUME NEW p, \A i \in 1..Len(p) : More(p[i])
    PROVE  VarintEnds(p) = {}
BY DEF VarintEnds

\* The bytes of s after the first n, which begin with the next length.
After(s, n) == SubSeq(s, n + 1, Len(s))

\* The message after n bytes whose length is whole: where its body begins and ends.
LEMMA MessageWhere ==
    ASSUME NEW s \in Seq(Byte), NEW n \in 0..Len(s), NEW i \in VarintEnds(After(s, n))
    PROVE  MessageAfter(s, n) = [body |-> n + i, end |-> n + i + VarintValue(SubSeq(After(s, n), 1, i))]
<1> DEFINE r == SubSeq(s, n + 1, Len(s))
           length == CHOOSE k \in VarintEnds(r) : TRUE
<1>1. r \in Seq(Byte) /\ i \in VarintEnds(r)
  BY TailOf DEF After
<1>2. length \in VarintEnds(r) /\ VarintEnds(r) # {}
  BY <1>1
<1>3. MessageAfter(s, n) = [body |-> n + length, end |-> n + length + VarintValue(SubSeq(r, 1, length))]
  BY <1>2 DEF MessageAfter
<1> HIDE DEF length, r
<1>4. length = i
  BY <1>1, <1>2, EndsOnce
<1> QED BY <1>3, <1>4 DEF After, r

\* No length, no message: it is put beyond what there is.
LEMMA MessageNowhere ==
    ASSUME NEW s, NEW n, VarintEnds(After(s, n)) = {}
    PROVE  MessageAfter(s, n).end = Len(s) + 1
BY DEF After, MessageAfter

\* A message that is whole stays where it is.
LEMMA MessageStays ==
    ASSUME NEW s \in Seq(Byte), NEW t \in Seq(Byte), NEW n \in 0..Len(s),
           MessageAfter(s, n).end \in Nat, MessageAfter(s, n).end =< Len(s)
    PROVE  /\ MessageAfter(s \o t, n) = MessageAfter(s, n)
           /\ MessageAfter(s, n).body \in Nat
           /\ SubSeq(s \o t, MessageAfter(s, n).body + 1, MessageAfter(s, n).end)
                = SubSeq(s, MessageAfter(s, n).body + 1, MessageAfter(s, n).end)
<1>1. /\ s \o t \in Seq(Byte) /\ Len(s \o t) = Len(s) + Len(t) /\ Len(s) \in Nat /\ Len(t) \in Nat
  BY JoinOf, LengthOf
<1>2. PICK i \in VarintEnds(After(s, n)) : TRUE
  BY <1>1, MessageNowhere
<1>3. After(s, n) \in Seq(Byte) /\ After(s \o t, n) = After(s, n) \o t /\ n \in 0..Len(s \o t)
  <2>1. After(s, n) \in Seq(Byte)
    BY TailOf DEF After
  <2>2. After(s \o t, n) = After(s, n) \o t
    BY TailJoined DEF After
  <2> QED BY <1>1, <2>1, <2>2
<1>4. i \in VarintEnds(After(s \o t, n)) /\ SubSeq(After(s \o t, n), 1, i) = SubSeq(After(s, n), 1, i)
  BY <1>3, EndsStay
<1>5. /\ MessageAfter(s, n) = [body |-> n + i, end |-> n + i + VarintValue(SubSeq(After(s, n), 1, i))]
      /\ MessageAfter(s \o t, n) = [body |-> n + i, end |-> n + i + VarintValue(SubSeq(After(s \o t, n), 1, i))]
  BY <1>1, <1>3, <1>4, MessageWhere
<1>6. MessageAfter(s, n).body \in Nat /\ MessageAfter(s, n).end \in 0..Len(s)
  BY <1>1, <1>5 DEF VarintEnds
<1>7. SubSeq(s \o t, MessageAfter(s, n).body + 1, MessageAfter(s, n).end)
                = SubSeq(s, MessageAfter(s, n).body + 1, MessageAfter(s, n).end)
  BY <1>6, PieceJoined
<1> QED BY <1>4, <1>5, <1>6, <1>7

\* Every set of naturals with something in it has a least element.
LEMMA LeastNatural ==
    ASSUME NEW T, T \subseteq Nat, NEW x \in T
    PROVE  \E m \in T : \A k \in T : m <= k
<1> DEFINE R == {p \in Nat \X Nat : p[1] < p[2]}
<1>1. IsWellFoundedOn(R, Nat)
  BY NatLessThanWellFounded DEF OpToRel
<1> HIDE DEF R
<1>2. PICK m \in T : \A k \in T : ~(<<k, m>> \in R)
  BY <1>1, WFMin
<1>3. \A j, k \in Nat : ~(<<k, j>> \in R) => j <= k
  BY DEF R
<1> QED BY <1>2, <1>3

\* The ends of the messages are what their definition by recursion says.
LEMMA EndsDefined ==
    ASSUME NEW s \in Seq(Byte)
    PROVE  /\ Ends(s)[0] = 0
           /\ \A k \in 1..Len(s) : Ends(s)[k] = MessageAfter(s, Ends(s)[k - 1]).end
<1> DEFINE Is(f, n) == f = [k \in 0..n |-> IF k = 0 THEN 0 ELSE MessageAfter(s, f[k - 1]).end]
           None == {n \in Nat : ~\E f : Is(f, n)}
<1>1. ASSUME NEW n \in None PROVE FALSE
  <2> HIDE DEF Is
  <2>1. PICK m \in None : \A k \in None : m <= k
    BY LeastNatural
  <2>2. m \in Nat /\ ~\E f : Is(f, m)
    OBVIOUS
  <2>3. CASE m = 0
    <3>1. Is([k \in 0..0 |-> 0], 0)
      BY DEF Is
    <3> QED BY <2>2, <2>3, <3>1
  <2>4. CASE m # 0
    <3>1. m - 1 \in Nat /\ ~(m <= m - 1)
      BY <2>2, <2>4
    <3>2. PICK f : Is(f, m - 1)
      BY <2>1, <3>1
    <3> DEFINE g == [k \in 0..m |-> IF k = 0 THEN 0 ELSE MessageAfter(s, f[k - 1]).end]
    <3>3. ASSUME NEW k \in 0..m, k # 0 PROVE g[k - 1] = f[k - 1]
      <4>1. k - 1 \in 0..(m - 1) /\ k - 1 \in 0..m
        BY <2>2, <3>3
      <4>2. f[k - 1] = IF k - 1 = 0 THEN 0 ELSE MessageAfter(s, f[k - 1 - 1]).end
        BY <3>2, <4>1 DEF Is
      <4>3. g[k - 1] = IF k - 1 = 0 THEN 0 ELSE MessageAfter(s, f[k - 1 - 1]).end
        BY <4>1
      <4> QED BY <4>2, <4>3
    <3>4. [k \in 0..m |-> IF k = 0 THEN 0 ELSE MessageAfter(s, g[k - 1]).end]
            = [k \in 0..m |-> IF k = 0 THEN 0 ELSE MessageAfter(s, f[k - 1]).end]
      <4> HIDE DEF g
      <4> QED BY <3>3
    <3>5. Is(g, m)
      BY <3>4 DEF Is
    <3> QED BY <2>2, <3>5
  <2> QED BY <2>3, <2>4
<1>2. Len(s) \in Nat
  BY LengthOf
<1>3. \E f : Is(f, Len(s))
  BY <1>1, <1>2
<1>4. Ends(s) = CHOOSE f : Is(f, Len(s))
  BY DEF Ends
<1>5. Is(Ends(s), Len(s))
  <2> HIDE DEF Is
  <2> QED BY <1>3, <1>4
<1>6. ASSUME NEW k \in 0..Len(s) PROVE Ends(s)[k] = IF k = 0 THEN 0 ELSE MessageAfter(s, Ends(s)[k - 1]).end
  <2> DEFINE e == Ends(s)
  <2>1. e = [j \in 0..Len(s) |-> IF j = 0 THEN 0 ELSE MessageAfter(s, e[j - 1]).end]
    BY <1>5
  <2> HIDE DEF e
  <2>2. e[k] = IF k = 0 THEN 0 ELSE MessageAfter(s, e[k - 1]).end
    BY <2>1
  <2> QED BY <2>2 DEF e
<1>7. 0 \in 0..Len(s) /\ \A k \in 1..Len(s) : k \in 0..Len(s) /\ k # 0
  BY <1>2
<1> QED BY <1>6, <1>7

-----------------------------------------------------------------------------
(* A channel, and what has been told of it.                                *)

\* The bytes of a stream after the messages told of it.
Rest(stream) == After(stream.bytes, Ends(stream.bytes)[Len(stream.messages)])

\* What has been told are messages the bytes begin with, each whole.
Sound(stream) ==
    LET s == stream.bytes
        n == Len(stream.messages)
    IN  /\ s \in Seq(Byte) /\ stream.messages \in Seq(Seq(Byte)) /\ n =< Len(s)
        /\ \A k \in 0..n : Ends(s)[k] \in k..Len(s)
        /\ \A k \in 1..n : stream.messages[k] = Message(s, k)

\* What a channel holds is what has come of the next message: its length and
\* the bytes that follow, or the length as far as it has come.
InMiddle(c, rest) ==
    IF c.active THEN \E i \in VarintEnds(rest) : /\ c.need = VarintValue(SubSeq(rest, 1, i))
                                                 /\ c.buf = After(rest, i)
    ELSE c.lvbuf = rest /\ \A i \in 1..Len(rest) : More(rest[i])

\* One message after its length, and nothing else.
Frame(s, data) ==
    \E i \in VarintEnds(s) : VarintValue(SubSeq(s, 1, i)) = Len(s) - i /\ data = After(s, i)

\* What is left of a channel's bytes after the messages told, and how much it is.
LEMMA RestTypedOf ==
    ASSUME NEW st, Sound(st)
    PROVE  /\ Ends(st.bytes)[Len(st.messages)] \in Len(st.messages)..Len(st.bytes)
           /\ Rest(st) \in Seq(Byte) /\ Len(Rest(st)) = Len(st.bytes) - Ends(st.bytes)[Len(st.messages)]
           /\ Len(st.bytes) \in Nat /\ Len(st.messages) \in Nat
<1>1. st.bytes \in Seq(Byte) /\ st.messages \in Seq(Seq(Byte)) /\ Len(st.bytes) \in Nat /\ Len(st.messages) \in Nat
  BY LengthOf DEF Sound
<1>2. Len(st.messages) \in 0..Len(st.messages)
  BY <1>1
<1>3. Ends(st.bytes)[Len(st.messages)] \in Len(st.messages)..Len(st.bytes)
  BY <1>2 DEF Sound
<1>4. Ends(st.bytes)[Len(st.messages)] \in 0..Len(st.bytes)
  BY <1>1, <1>3
<1> QED BY <1>1, <1>3, <1>4, TailOf DEF Rest, After

\* The ends of the messages told do not move as more bytes come.
LEMMA EndsKept ==
    ASSUME NEW st, Sound(st), NEW t \in Seq(Byte), NEW k \in 0..Len(st.messages)
    PROVE  Ends(st.bytes \o t)[k] = Ends(st.bytes)[k]
<1> DEFINE s == st.bytes
           n == Len(st.messages)
           Moved == {j \in 0..n : Ends(s \o t)[j] # Ends(s)[j]}
<1>1. /\ s \in Seq(Byte) /\ s \o t \in Seq(Byte) /\ Len(s \o t) = Len(s) + Len(t)
      /\ Len(s) \in Nat /\ Len(t) \in Nat /\ n \in Nat /\ n =< Len(s)
  BY JoinOf, LengthOf DEF Sound
<1>2. \A j \in 0..n : Ends(s)[j] \in 0..Len(s)
  BY <1>1 DEF Sound
<1>3. ASSUME NEW x \in Moved PROVE FALSE
  <2>1. Moved \subseteq Nat
    BY <1>1
  <2> HIDE DEF Moved
  <2>2. PICK m \in Moved : \A j \in Moved : m <= j
    BY <2>1, LeastNatural
  <2>3. m \in 0..n /\ Ends(s \o t)[m] # Ends(s)[m]
    BY <2>2 DEF Moved
  <2>4. m # 0
    BY <1>1, <2>3, EndsDefined
  <2>5. m \in 1..Len(s) /\ m \in 1..Len(s \o t) /\ m - 1 \in 0..n /\ ~(m <= m - 1)
    BY <1>1, <2>3, <2>4
  <2>6. Ends(s \o t)[m - 1] = Ends(s)[m - 1]
    BY <2>2, <2>5 DEF Moved
  <2>7. /\ Ends(s)[m] = MessageAfter(s, Ends(s)[m - 1]).end
        /\ Ends(s \o t)[m] = MessageAfter(s \o t, Ends(s)[m - 1]).end
    BY <1>1, <2>5, <2>6, EndsDefined
  <2>8. Ends(s)[m - 1] \in 0..Len(s) /\ MessageAfter(s, Ends(s)[m - 1]).end \in 0..Len(s)
    BY <1>2, <2>3, <2>5, <2>7
  <2> HIDE DEF s
  <2>9. MessageAfter(s \o t, Ends(s)[m - 1]) = MessageAfter(s, Ends(s)[m - 1])
    BY <1>1, <2>8, MessageStays
  <2> QED BY <2>3, <2>7, <2>9
<1> QED BY <1>3

\* More bytes of a message that is not whole yet.
LEMMA Extended ==
    ASSUME NEW st, Sound(st), NEW t \in Seq(Byte),
           NEW st2, st2 = [bytes |-> st.bytes \o t, messages |-> st.messages]
    PROVE  Sound(st2) /\ Rest(st2) = Rest(st) \o t
<1> DEFINE s == st.bytes
           n == Len(st.messages)
<1>1. /\ s \in Seq(Byte) /\ s \o t \in Seq(Byte) /\ Len(s \o t) = Len(s) + Len(t)
      /\ Len(s) \in Nat /\ Len(t) \in Nat /\ n \in Nat /\ n =< Len(s)
      /\ st.messages \in Seq(Seq(Byte))
  BY JoinOf, LengthOf DEF Sound
<1>2. /\ \A j \in 0..n : Ends(s)[j] \in j..Len(s)
      /\ \A j \in 1..n : st.messages[j] = Message(s, j)
  BY DEF Sound
<1>3. \A j \in 0..n : Ends(s \o t)[j] = Ends(s)[j]
  BY EndsKept
<1>4. st2.bytes = s \o t /\ st2.messages = st.messages
  OBVIOUS
<1> HIDE DEF s, n
<1>5. \A j \in 0..n : Ends(s \o t)[j] \in j..Len(s \o t)
  <2> TAKE j \in 0..n
  <2>0. j \in Int
    BY <1>1
  <2>1. Ends(s \o t)[j] \in j..Len(s)
    BY <1>2, <1>3, Zenon
  <2>2. \A a, b, c \in Int : \A x \in a..b : b =< c => x \in a..c
    OBVIOUS
  <2>3. Len(s) \in Int /\ Len(s \o t) \in Int /\ Len(s) =< Len(s \o t)
    BY <1>1
  <2> QED BY <2>0, <2>1, <2>2, <2>3
<1>6. ASSUME NEW j \in 1..n PROVE Message(s \o t, j) = Message(s, j)
  <2>1. j \in 0..n /\ j - 1 \in 0..n /\ j \in 1..Len(s)
    BY <1>1
  <2>2. Ends(s)[j] = MessageAfter(s, Ends(s)[j - 1]).end
    BY <1>1, <2>1, EndsDefined
  <2>3. Ends(s)[j - 1] \in 0..Len(s) /\ Ends(s)[j] \in Nat /\ Ends(s)[j] =< Len(s)
    BY <1>1, <1>2, <2>1
  <2>4. /\ MessageAfter(s \o t, Ends(s)[j - 1]) = MessageAfter(s, Ends(s)[j - 1])
        /\ SubSeq(s \o t, MessageAfter(s, Ends(s)[j - 1]).body + 1, Ends(s)[j])
             = SubSeq(s, MessageAfter(s, Ends(s)[j - 1]).body + 1, Ends(s)[j])
    BY <1>1, <2>2, <2>3, MessageStays
  <2> QED BY <1>3, <2>1, <2>4 DEF Message
<1>7. Sound(st2)
  <2>1. n =< Len(s \o t) /\ Len(st2.messages) = n
    BY <1>1, <1>4 DEF n
  <2>2. \A j \in 1..n : st2.messages[j] = Message(s \o t, j)
    BY <1>2, <1>4, <1>6
  <2>3. /\ st2.bytes = s \o t /\ st2.bytes \in Seq(Byte) /\ st2.messages \in Seq(Seq(Byte))
    BY <1>1, <1>4
  <2> DEFINE u == s \o t
  <2> HIDE DEF u
  <2> QED BY <1>5, <2>1, <2>2, <2>3 DEF Sound, u
<1>8. Rest(st2) = Rest(st) \o t
  <2>1. n \in 0..n /\ Ends(s)[n] \in 0..Len(s)
    BY <1>1, <1>2
  <2>2. Rest(st2) = After(s \o t, Ends(s)[n])
    BY <1>3, <1>4, <2>1 DEF Rest, n
  <2>3. After(s \o t, Ends(s)[n]) = After(s, Ends(s)[n]) \o t
    BY <1>1, <2>1, TailJoined DEF After
  <2> QED BY <2>2, <2>3 DEF Rest, s, n
<1> QED BY <1>7, <1>8

\* A message told.
LEMMA Completed ==
    ASSUME NEW st, Sound(st), NEW data \in Seq(Byte), Frame(Rest(st), data),
           NEW st2, st2 = [bytes |-> st.bytes, messages |-> st.messages \o <<data>>]
    PROVE  Sound(st2) /\ Rest(st2) = <<>>
<1> DEFINE s == st.bytes
           n == Len(st.messages)
           e == Ends(s)[n]
<1>1. /\ s \in Seq(Byte) /\ Len(s) \in Nat /\ n \in Nat /\ n =< Len(s) /\ st.messages \in Seq(Seq(Byte))
      /\ e \in n..Len(s) /\ e \in 0..Len(s) /\ Rest(st) = After(s, e)
      /\ Rest(st) \in Seq(Byte) /\ Len(Rest(st)) = Len(s) - e
  BY LengthOf, RestTypedOf DEF Sound, Rest
<1>2. /\ \A j \in 0..n : Ends(s)[j] \in j..Len(s)
      /\ \A j \in 1..n : st.messages[j] = Message(s, j)
  BY DEF Sound
<1> DEFINE m == st.messages \o <<data>>
<1>3. /\ m \in Seq(Seq(Byte)) /\ Len(m) = n + 1
      /\ \A j \in 1..n : m[j] = st.messages[j]
      /\ m[n + 1] = data
  <2>1. data \in Seq(Byte) /\ st.messages \in Seq(Seq(Byte))
    BY <1>1
  <2> QED BY <2>1, JoinOne
<1>4. st2.bytes = s /\ st2.messages = m
  OBVIOUS
<1> HIDE DEF s, n, e, m
<1>5. PICK i \in VarintEnds(After(s, e)) :
        /\ VarintValue(SubSeq(After(s, e), 1, i)) = Len(After(s, e)) - i
        /\ data = After(After(s, e), i)
  BY <1>1 DEF Frame
<1>6. i \in 1..(Len(s) - e)
  BY <1>1, <1>5 DEF VarintEnds
<1>7. MessageAfter(s, e) = [body |-> e + i, end |-> e + i + VarintValue(SubSeq(After(s, e), 1, i))]
  BY <1>1, <1>5, MessageWhere
<1>8. MessageAfter(s, e).end = Len(s) /\ MessageAfter(s, e).body = e + i
  <2>1. \A a, b, j \in Nat : b + j + ((a - b) - j) = a
    OBVIOUS
  <2>2. Len(s) \in Nat /\ e \in Nat /\ i \in Nat
    BY <1>1, <1>6
  <2>3. e + i + ((Len(s) - e) - i) = Len(s)
    BY <2>1, <2>2
  <2>4. VarintValue(SubSeq(After(s, e), 1, i)) = (Len(s) - e) - i
    BY <1>1, <1>5
  <2> QED BY <1>7, <2>3, <2>4
<1>9. n + 1 =< Len(s) /\ n + 1 \in 1..Len(s) /\ n + 1 \in Nat /\ (n + 1) - 1 = n /\ n \in 0..n
  BY <1>1, <1>6
<1>10. Ends(s)[n] = e /\ Ends(s)[n + 1] = Len(s)
  <2>1. Ends(s)[n + 1] = MessageAfter(s, Ends(s)[(n + 1) - 1]).end
    BY <1>1, <1>9, EndsDefined
  <2>2. Ends(s)[n] = e
    BY DEF e
  <2> QED BY <1>8, <1>9, <2>1, <2>2
<1>11. \A j \in 0..(n + 1) : Ends(s)[j] \in j..Len(s)
  <2>1. \A j \in 0..(n + 1) : j \in 0..n \/ j = n + 1
    BY <1>1
  <2>2. Len(s) \in (n + 1)..Len(s)
    BY <1>1, <1>9
  <2> QED BY <1>2, <1>10, <2>1, <2>2
<1>12. Message(s, n + 1) = data
  <2>1. Message(s, n + 1) = SubSeq(s, e + i + 1, Len(s))
    BY <1>8, <1>9, <1>10 DEF Message
  <2> DEFINE r == After(s, e)
  <2>2. /\ r \in Seq(Byte) /\ Len(r) = Len(s) - e /\ \A j \in 1..(Len(s) - e) : r[j] = s[e + j]
    BY <1>1, TailOf DEF After
  <2>3. data = SubSeq(r, i + 1, Len(r))
    BY <1>5 DEF After
  <2> HIDE DEF r
  <2>4. i \in 0..Len(r) /\ e + i \in 0..Len(s)
    BY <1>1, <1>6, <2>2
  <2>5. /\ data \in Seq(Byte) /\ Len(data) = Len(r) - i /\ \A j \in 1..(Len(r) - i) : data[j] = r[i + j]
    BY <2>2, <2>3, <2>4, TailOf
  <2> DEFINE q == SubSeq(s, e + i + 1, Len(s))
  <2>6. /\ q \in Seq(Byte) /\ Len(q) = Len(s) - (e + i) /\ \A j \in 1..(Len(s) - (e + i)) : q[j] = s[(e + i) + j]
    BY <1>1, <2>4, TailOf
  <2> HIDE DEF q
  <2>7. Len(q) = Len(data)
    BY <1>1, <1>6, <2>2, <2>5, <2>6
  <2>8. ASSUME NEW j \in 1..Len(q) PROVE q[j] = data[j]
    <3>1. /\ j \in 1..(Len(s) - (e + i)) /\ j \in 1..(Len(r) - i) /\ i + j \in 1..(Len(s) - e)
          /\ e + (i + j) = (e + i) + j
      BY <1>1, <1>6, <2>2, <2>6
    <3> QED BY <2>2, <2>5, <2>6, <3>1
  <2>9. q = data
    BY <2>5, <2>6, <2>7, <2>8, SameOf
  <2> QED BY <2>1, <2>9 DEF q
<1>13. \A j \in 1..(n + 1) : m[j] = Message(s, j)
  <2>1. \A j \in 1..(n + 1) : j \in 1..n \/ j = n + 1
    BY <1>1
  <2> QED BY <1>2, <1>3, <1>12, <2>1
<1>14. Sound(st2)
  BY <1>1, <1>3, <1>4, <1>9, <1>11, <1>13 DEF Sound
<1>15. Rest(st2) = <<>>
  <2>1. Rest(st2) = SubSeq(s, Len(s) + 1, Len(s))
    BY <1>3, <1>4, <1>10 DEF Rest, After
  <2> QED BY <1>1, <2>1
<1> QED BY <1>14, <1>15

-----------------------------------------------------------------------------
(* A step of demux_feed, for the channel it is about.                      *)

\* The step used n bytes, which with the bytes that came before them are not yet
\* a message, or are one, which is told.
Advances(n, before) ==
    LET now == before \o SubSeq(frag, 1, n)
    IN  /\ frag' = After(frag, n) /\ channel' = IF n = Len(frag) THEN 0 ELSE channel
        /\ DOMAIN chans' = DOMAIN chans /\ \A c \in DOMAIN chans : c # channel => chans'[c] = chans[c]
        /\ UNCHANGED <<reading, read_failed, document, error, in_octet, scope, key_match>>
        /\ \/ told' = <<>> /\ InMiddle(chans'[channel], now)
           \/ \E data \in Seq(Byte) : /\ told' = <<[channel |-> channel, data |-> data]>>
                                      /\ Frame(now, data) /\ chans'[channel] = Idle

\* Where a fragment is being used.
LEMMA FeedingWhere ==
    ASSUME IInv, Feeding
    PROVE  /\ octets /\ in_octet /\ reading /\ channel \in DOMAIN chans /\ Current = chans[channel]
           /\ frag \in Seq(Byte) /\ Len(frag) \in Nat /\ 1 \in 1..Len(frag) /\ frag[1] \in Byte
           /\ Current \in Partial /\ PartBounded(Current)
<1>1. octets /\ in_octet /\ channel \in DOMAIN chans /\ reading /\ frag \in Seq(Byte) /\ frag # <<>>
  BY DEF IInv, TypeOK, Feeding
<1>2. Len(frag) \in Nat /\ 1 \in 1..Len(frag) /\ frag[1] \in Byte
  BY <1>1
<1> QED BY <1>1, <1>2 DEF IInv, TypeOK, ChannelsBounded, Current

\* What Sets does to the channels.
LEMMA SetsOne ==
    ASSUME IInv, Feeding, NEW r, Sets(r)
    PROVE  /\ DOMAIN chans' = DOMAIN chans /\ chans'[channel] = r
           /\ \A c \in DOMAIN chans : c # channel => chans'[c] = chans[c]
BY FeedingWhere DEF Sets

\* A length, one byte longer.
LEMMA LengthGrows ==
    ASSUME NEW r \in Seq(Byte), \A i \in 1..Len(r) : More(r[i]), NEW b \in Byte
    PROVE  /\ Append(r, b) = r \o <<b>> /\ Append(r, b) \in Seq(Byte)
           /\ More(b) => \A i \in 1..Len(Append(r, b)) : More(Append(r, b)[i])
           /\ SubSeq(Append(r, b), 1, Len(Append(r, b))) = Append(r, b)
           /\ After(Append(r, b), Len(Append(r, b))) = <<>>
<1> DEFINE lv == Append(r, b)
<1>1. lv = r \o <<b>>
  OBVIOUS
<1>2. /\ lv \in Seq(Byte) /\ Len(lv) = Len(r) + 1 /\ lv[Len(r) + 1] = b
      /\ \A i \in 1..Len(r) : lv[i] = r[i]
  BY <1>1, JoinOne
<1> HIDE DEF lv
<1>3. Len(r) \in Nat
  BY LengthOf
<1>4. \A i \in 1..Len(lv) : i \in 1..Len(r) \/ i = Len(r) + 1
  BY <1>2, <1>3
<1>5. More(b) => \A i \in 1..Len(lv) : More(lv[i])
  BY <1>2, <1>4
<1>6. SubSeq(lv, 1, Len(lv)) = lv /\ SubSeq(lv, Len(lv) + 1, Len(lv)) = <<>>
  BY <1>2
<1> QED BY <1>1, <1>2, <1>5, <1>6 DEF lv, After

\* One byte of a length, used: the channel is further on in the same message, or
\* the message is empty and told.
LEMMA LengthByteStep ==
    ASSUME IInv, LengthByte, reading', NEW r \in Seq(Byte), InMiddle(Current, r)
    PROVE  Advances(1, r)
<1> DEFINE lv == Append(Current.lvbuf, frag[1])
           need == VarintValue(lv)
           now == r \o SubSeq(frag, 1, 1)
<1>1. /\ Feeding /\ ~Current.active /\ UNCHANGED <<in_octet, scope, key_match>>
  BY DEF LengthByte
<1>2. /\ frag \in Seq(Byte) /\ Len(frag) \in Nat /\ 1 \in 1..Len(frag) /\ frag[1] \in Byte
      /\ Current = chans[channel]
  BY <1>1, FeedingWhere
<1>3. Current.lvbuf = r /\ \A i \in 1..Len(r) : More(r[i])
  BY <1>1 DEF InMiddle
<1>4. /\ lv = r \o <<frag[1]>> /\ lv \in Seq(Byte)
      /\ More(frag[1]) => \A i \in 1..Len(lv) : More(lv[i])
      /\ SubSeq(lv, 1, Len(lv)) = lv /\ After(lv, Len(lv)) = <<>>
  BY <1>2, <1>3, LengthGrows
<1>5. SubSeq(frag, 1, 1) = <<frag[1]>>
  BY <1>2, FirstOf
<1>6. now = lv
  BY <1>4, <1>5
<1>12. VarintValue(SubSeq(lv, 1, Len(lv))) = need
  BY <1>4, Zenon DEF need
<1>7. ~(reading' = FALSE)
  OBVIOUS
<1>8. \A n : Uses(n) => frag' = After(frag, n) /\ channel' = IF n = Len(frag) THEN 0 ELSE channel
  BY DEF Uses, After
<1> HIDE DEF lv, need, now
<1>9. CASE /\ More(frag[1]) /\ Sets([Current EXCEPT !.lvbuf = lv]) /\ Uses(1) /\ told' = <<>>
           /\ UNCHANGED <<reading, read_failed, document, error>>
  <2>1. chans'[channel] = [Current EXCEPT !.lvbuf = lv]
    BY <1>1, <1>9, SetsOne
  <2>2. chans'[channel].lvbuf = lv /\ ~chans'[channel].active
    BY <1>1, <2>1, FeedingWhere DEF Partial
  <2>3. InMiddle(chans'[channel], now)
    BY <1>4, <1>6, <1>9, <2>2 DEF InMiddle
  <2> QED BY <1>1, <1>8, <1>9, <2>3, SetsOne DEF Advances, now
<1>10. CASE /\ Len(lv) \in VarintEnds(lv) /\ ~TooLong(need) /\ need = 0 /\ Deliver(<<>>, 1, LengthUsed)
  <2>1. Sets(Idle)
    BY <1>10 DEF Deliver, LengthUsed, Idle
  <2>2. /\ told' = <<[channel |-> channel, data |-> <<>>]>> /\ Uses(1)
        /\ UNCHANGED <<reading, read_failed, document, error>>
    BY <1>7, <1>10 DEF Deliver, Abort
  <2>3. Frame(now, <<>>)
    <3>1. Len(lv) \in Nat
      BY <1>4, LengthOf
    <3>2. VarintValue(SubSeq(lv, 1, Len(lv))) = Len(lv) - Len(lv)
      BY <1>10, <1>12, <3>1
    <3> QED BY <1>4, <1>6, <1>10, <3>2 DEF Frame
  <2>4. <<>> \in Seq(Byte)
    OBVIOUS
  <2> QED BY <1>1, <1>8, <2>1, <2>2, <2>3, <2>4, SetsOne DEF Advances, now
<1>11. CASE /\ Len(lv) \in VarintEnds(lv) /\ ~TooLong(need) /\ need # 0
            /\ Sets([active |-> TRUE, need |-> need, buf |-> <<>>, lvbuf |-> LengthUsed])
            /\ Uses(1) /\ told' = <<>>
            /\ UNCHANGED <<reading, read_failed, document, error>>
  <2>1. chans'[channel] = [active |-> TRUE, need |-> need, buf |-> <<>>, lvbuf |-> LengthUsed]
    BY <1>1, <1>11, SetsOne
  <2>2. InMiddle(chans'[channel], now)
    <3>1. /\ chans'[channel].active /\ chans'[channel].need = need /\ chans'[channel].buf = <<>>
      BY <2>1
    <3> QED BY <1>4, <1>6, <1>11, <1>12, <3>1 DEF InMiddle
  <2> QED BY <1>1, <1>8, <1>11, <2>2, SetsOne DEF Advances, now
<1> QED BY <1>7, <1>9, <1>10, <1>11 DEF LengthByte, Abort, lv, need

\* Bytes of the message, used: the same.
LEMMA MessageBytesStep ==
    ASSUME IInv, MessageBytes, reading', NEW r \in Seq(Byte), InMiddle(Current, r)
    PROVE  \E n \in 1..Len(frag) : Advances(n, r)
<1> DEFINE left == Current.need - Len(Current.buf)
           take == IF Len(frag) < left THEN Len(frag) ELSE left
           run == SubSeq(frag, 1, take)
           data == Current.buf \o run
           now == r \o run
<1>1. /\ Feeding /\ Current.active /\ UNCHANGED <<in_octet, scope, key_match>>
  BY DEF MessageBytes
<1>2. /\ frag \in Seq(Byte) /\ Len(frag) \in Nat /\ 1 \in 1..Len(frag)
      /\ Current = chans[channel] /\ Current \in Partial
      /\ Current.buf \in Seq(Byte) /\ Current.need \in Nat /\ Len(Current.buf) \in Nat
      /\ Len(Current.buf) < Current.need /\ Current.lvbuf = <<>>
  <2>1. Current \in Partial /\ PartBounded(Current) /\ Current.need \in 0..max_message /\ Current.buf \in Seq(Byte)
    BY <1>1, FeedingWhere DEF Partial
  <2> QED BY <1>1, <2>1, FeedingWhere, LimitsAssumption, LengthOf DEF PartBounded
<1>3. left \in Nat \ {0} /\ take \in 1..Len(frag) /\ take \in 0..Len(frag) /\ take =< left
  BY <1>2
<1>4. PICK i \in VarintEnds(r) : Current.need = VarintValue(SubSeq(r, 1, i)) /\ Current.buf = After(r, i)
  BY <1>1 DEF InMiddle
<1>5. ~(reading' = FALSE)
  OBVIOUS
<1>6. \A n : Uses(n) => frag' = After(frag, n) /\ channel' = IF n = Len(frag) THEN 0 ELSE channel
  BY DEF Uses, After
<1>7. run \in Seq(Byte) /\ Len(run) = take
  <2> HIDE DEF take
  <2> QED BY <1>2, <1>3, HeadOf
<1>8. /\ data \in Seq(Byte) /\ Len(data) = Len(Current.buf) + take
      /\ now \in Seq(Byte) /\ Len(now) = Len(r) + take
      /\ i \in VarintEnds(now) /\ SubSeq(now, 1, i) = SubSeq(r, 1, i)
  <2> HIDE DEF run, take
  <2>1. data \in Seq(Byte) /\ Len(data) = Len(Current.buf) + take
    BY <1>2, <1>7, JoinOf
  <2>2. now \in Seq(Byte) /\ Len(now) = Len(r) + take
    BY <1>7, JoinOf
  <2>3. i \in VarintEnds(now) /\ SubSeq(now, 1, i) = SubSeq(r, 1, i)
    BY <1>7, EndsStay
  <2> QED BY <2>1, <2>2, <2>3
<1>9. i \in 0..Len(r) /\ Len(r) \in Nat /\ Len(Current.buf) = Len(r) - i
  <2>1. i \in 0..Len(r) /\ Len(r) \in Nat
    BY LengthOf DEF VarintEnds
  <2> QED BY <1>4, <2>1, TailOf DEF After
<1>10. After(now, i) = data
  <2> HIDE DEF run
  <2> QED BY <1>4, <1>7, <1>9, TailJoined DEF After
<1> HIDE DEF left, take, run, data, now
<1>11. CASE /\ Sets([Current EXCEPT !.buf = data]) /\ Uses(take) /\ told' = <<>>
            /\ UNCHANGED <<reading, read_failed, document, error>>
  <2>1. chans'[channel] = [Current EXCEPT !.buf = data]
    BY <1>1, <1>11, SetsOne
  <2>2. chans'[channel].buf = data /\ chans'[channel].active /\ chans'[channel].need = Current.need
    BY <1>1, <1>2, <2>1 DEF Partial
  <2>3. InMiddle(chans'[channel], now)
    BY <1>4, <1>8, <1>10, <2>2 DEF InMiddle
  <2>4. Advances(take, r)
    BY <1>1, <1>6, <1>11, <2>3, SetsOne DEF Advances, now, run
  <2> QED BY <1>3, <2>4
<1>12. CASE take = left /\ Deliver(data, take, Current.lvbuf)
  <2>1. Sets(Idle)
    BY <1>2, <1>12 DEF Deliver, Idle
  <2>2. /\ told' = <<[channel |-> channel, data |-> data]>> /\ Uses(take)
        /\ UNCHANGED <<reading, read_failed, document, error>>
    BY <1>5, <1>12 DEF Deliver, Abort
  <2>3. Len(now) - i = Current.need
    BY <1>2, <1>3, <1>8, <1>9, <1>12, SMTT(20) DEF left
  <2>4. Frame(now, data)
    BY <1>4, <1>8, <1>10, <2>3 DEF Frame
  <2>5. Advances(take, r)
    BY <1>1, <1>6, <1>8, <2>1, <2>2, <2>4, SetsOne DEF Advances, now, run
  <2> QED BY <1>3, <2>5
<1> QED BY <1>11, <1>12 DEF MessageBytes, left, take, run, data

\* So every pass of demux_feed that does not fail uses bytes of the fragment, in
\* their order, and tells what they complete.
LEMMA FeedStep ==
    ASSUME IInv, FeedNext, reading', NEW r \in Seq(Byte), InMiddle(Current, r)
    PROVE  Feeding /\ \E n \in 1..Len(frag) : Advances(n, r)
<1>1. ~AllocFails
  BY DEF AllocFails, Abort
<1>2. Feeding
  BY <1>1 DEF FeedNext, LengthByte, MessageBytes
<1>3. CASE LengthByte
  BY <1>2, <1>3, LengthByteStep, FeedingWhere
<1>4. CASE MessageBytes
  BY <1>2, <1>4, MessageBytesStep
<1> QED BY <1>1, <1>3, <1>4 DEF FeedNext

-----------------------------------------------------------------------------
(* Varints.                                                                *)

\* Quotient and remainder.
LEMMA Division ==
    ASSUME NEW n \in Nat, NEW b \in Nat, b > 1
    PROVE  /\ n % b \in 0..(b - 1) /\ n \div b \in Nat
           /\ n = (n % b) + b * (n \div b)
OBVIOUS

\* A quotient by more than one is less.
LEMMA DivisionLess ==
    ASSUME NEW n \in Nat, NEW b \in Nat, b > 1, n >= b
    PROVE  n \div b < n
<1>1. /\ n % b \in 0..(b - 1) /\ n \div b \in Nat
      /\ n = (n % b) + b * (n \div b)
  BY Division
<1>2. \A q, m \in Nat : m = b * q => m >= q + q
  OBVIOUS
<1>3. b * (n \div b) >= (n \div b) + (n \div b) /\ b * (n \div b) \in Nat
  BY <1>1, <1>2
<1> QED BY <1>1, <1>3

\* The value of each end of v, and so of v itself.
IsLast(f, v) == f = [n \in 0..Len(v) |-> IF n = 0 THEN 0 ELSE (v[Len(v) - n + 1] % Base) + Base * f[n - 1]]

\* The function exists, and VarintValue is its last value.
LEMMA ValueDefined ==
    ASSUME NEW v \in Seq(Byte)
    PROVE  \E f : IsLast(f, v) /\ VarintValue(v) = f[Len(v)]
<1> DEFINE Is(f, m) == f = [n \in 0..m |-> IF n = 0 THEN 0 ELSE (v[Len(v) - n + 1] % Base) + Base * f[n - 1]]
           None == {n \in Nat : ~\E f : Is(f, n)}
<1>1. ASSUME NEW x \in None PROVE FALSE
  <2> HIDE DEF Is
  <2>1. PICK m \in None : \A k \in None : m <= k
    BY LeastNatural
  <2>2. m \in Nat /\ ~\E f : Is(f, m)
    OBVIOUS
  <2>3. CASE m = 0
    <3>1. Is([k \in 0..0 |-> 0], 0)
      BY DEF Is
    <3> QED BY <2>2, <2>3, <3>1
  <2>4. CASE m # 0
    <3>1. m - 1 \in Nat /\ ~(m <= m - 1)
      BY <2>2, <2>4
    <3>2. PICK f : Is(f, m - 1)
      BY <2>1, <3>1
    <3> DEFINE digit(k) == v[Len(v) - k + 1] % Base
               g == [k \in 0..m |-> IF k = 0 THEN 0 ELSE digit(k) + Base * f[k - 1]]
    <3> HIDE DEF digit
    <3>3. ASSUME NEW k \in 0..m, k # 0 PROVE g[k - 1] = f[k - 1]
      <4>1. k - 1 \in 0..(m - 1) /\ k - 1 \in 0..m
        BY <2>2, <3>3
      <4>2. f[k - 1] = IF k - 1 = 0 THEN 0 ELSE digit(k - 1) + Base * f[k - 1 - 1]
        BY <3>2, <4>1 DEF Is, digit
      <4>3. g[k - 1] = IF k - 1 = 0 THEN 0 ELSE digit(k - 1) + Base * f[k - 1 - 1]
        BY <4>1
      <4> QED BY <4>2, <4>3
    <3>4. [k \in 0..m |-> IF k = 0 THEN 0 ELSE digit(k) + Base * g[k - 1]]
            = [k \in 0..m |-> IF k = 0 THEN 0 ELSE digit(k) + Base * f[k - 1]]
      <4> HIDE DEF g
      <4> QED BY <3>3
    <3>5. Is(g, m)
      BY <3>4 DEF Is, digit
    <3> QED BY <2>2, <3>5
  <2> QED BY <2>3, <2>4
<1>2. Len(v) \in Nat
  BY LengthOf
<1>3. \E f : Is(f, Len(v))
  BY <1>1, <1>2
<1>4. VarintValue(v) = (CHOOSE f : Is(f, Len(v)))[Len(v)]
  BY DEF VarintValue
<1>5. Is(CHOOSE f : Is(f, Len(v)), Len(v))
  <2> HIDE DEF Is
  <2> QED BY <1>3
<1> DEFINE e == CHOOSE f : Is(f, Len(v))
<1>6. IsLast(e, v) /\ VarintValue(v) = e[Len(v)]
  <2>1. Is(e, Len(v)) /\ VarintValue(v) = e[Len(v)]
    BY <1>4, <1>5
  <2> HIDE DEF e
  <2> QED BY <2>1 DEF IsLast
<1> HIDE DEF e
<1> QED BY <1>6

\* One point of such a function.
LEMMA LastAt ==
    ASSUME NEW v \in Seq(Byte), NEW f, IsLast(f, v), NEW n \in 0..Len(v)
    PROVE  f[n] = IF n = 0 THEN 0 ELSE (v[Len(v) - n + 1] % Base) + Base * f[n - 1]
BY DEF IsLast

\* Its values are numbers.
LEMMA LastTyped ==
    ASSUME NEW v \in Seq(Byte), NEW f, IsLast(f, v), NEW n \in 0..Len(v)
    PROVE  f[n] \in Nat
<1> DEFINE Not == {k \in 0..Len(v) : f[k] \notin Nat}
<1>0. Len(v) \in Nat /\ Base \in Nat /\ Base > 1
  BY LengthOf, VarintAssumption, MuxAssumption
<1>1. ASSUME NEW x \in Not PROVE FALSE
  <2>1. Not \subseteq Nat
    BY <1>0
  <2> HIDE DEF Not
  <2>2. PICK m \in Not : \A k \in Not : m <= k
    BY <2>1, LeastNatural
  <2>3. m \in 0..Len(v) /\ f[m] \notin Nat
    BY <2>2 DEF Not
  <2>4. m # 0
    BY <2>3, LastAt
  <2>5. m - 1 \in 0..Len(v) /\ ~(m <= m - 1) /\ Len(v) - m + 1 \in 1..Len(v)
    BY <1>0, <2>3, <2>4
  <2>6. f[m - 1] \in Nat
    BY <2>2, <2>5 DEF Not
  <2>7. v[Len(v) - m + 1] \in Nat
    BY <2>5, LengthOf, <1>0 DEF Byte
  <2>8. v[Len(v) - m + 1] % Base \in Nat
    BY <1>0, <2>7, Division
  <2>9. f[m] = (v[Len(v) - m + 1] % Base) + Base * f[m - 1]
    BY <2>3, <2>4, LastAt
  <2>10. \A a, b, c \in Nat : a + b * c \in Nat
    OBVIOUS
  <2> QED BY <1>0, <2>3, <2>6, <2>8, <2>9, <2>10
<1> QED BY <1>1

\* The first byte counts least.
LEMMA ValueStep ==
    ASSUME NEW b \in Byte, NEW t \in Seq(Byte)
    PROVE  /\ <<b>> \o t \in Seq(Byte) /\ VarintValue(t) \in Nat
           /\ VarintValue(<<b>> \o t) = (b % Base) + Base * VarintValue(t)
<1> DEFINE v == <<b>> \o t
<1>1. /\ v \in Seq(Byte) /\ Len(v) = Len(t) + 1 /\ Len(t) \in Nat /\ v[1] = b
      /\ \A i \in 1..Len(t) : v[1 + i] = t[i]
  <2>1. <<b>> \in Seq(Byte) /\ Len(<<b>>) = 1 /\ <<b>>[1] = b /\ 1 \in 1..1
    OBVIOUS
  <2> DEFINE one == <<b>>
  <2>2. one \in Seq(Byte) /\ Len(one) = 1 /\ one[1] = b /\ 1 \in 1..1
    BY <2>1
  <2> HIDE DEF one
  <2>3. one \o t \in Seq(Byte) /\ Len(one \o t) = 1 + Len(t) /\ Len(t) \in Nat
    BY <2>2, JoinOf, LengthOf
  <2>4. (one \o t)[1] = b /\ \A i \in 1..Len(t) : (one \o t)[1 + i] = t[i]
    <3>1. /\ \A i \in 1..Len(one) : (one \o t)[i] = one[i]
          /\ \A i \in 1..Len(t) : (one \o t)[Len(one) + i] = t[i]
      <4>1. one \in Seq(Byte)
        BY <2>2
      <4> QED BY <4>1, JoinOf
    <3> QED BY <2>2, <3>1
  <2>5. Len(one \o t) = Len(t) + 1
    BY <2>3
  <2> QED BY <2>3, <2>4, <2>5 DEF one
<1> HIDE DEF v
<1>2. PICK f : IsLast(f, v) /\ VarintValue(v) = f[Len(v)]
  BY <1>1, ValueDefined
<1>3. PICK g : IsLast(g, t) /\ VarintValue(t) = g[Len(t)]
  BY ValueDefined
<1> DEFINE Differ == {k \in 0..Len(t) : f[k] # g[k]}
<1>4. ASSUME NEW x \in Differ PROVE FALSE
  <2>1. Differ \subseteq Nat
    BY <1>1
  <2> HIDE DEF Differ
  <2>2. PICK m \in Differ : \A k \in Differ : m <= k
    BY <2>1, LeastNatural
  <2>3. m \in 0..Len(t) /\ f[m] # g[m] /\ m \in 0..Len(v)
    BY <1>1, <2>2 DEF Differ
  <2>4. f[m] = IF m = 0 THEN 0 ELSE (v[Len(v) - m + 1] % Base) + Base * f[m - 1]
    BY <1>1, <1>2, <2>3, LastAt
  <2>5. g[m] = IF m = 0 THEN 0 ELSE (t[Len(t) - m + 1] % Base) + Base * g[m - 1]
    BY <1>3, <2>3, LastAt
  <2>6. m # 0
    BY <2>3, <2>4, <2>5
  <2>7. /\ m - 1 \in 0..Len(t) /\ ~(m <= m - 1) /\ Len(t) - m + 1 \in 1..Len(t)
        /\ Len(v) - m + 1 = 1 + (Len(t) - m + 1)
    BY <1>1, <2>3, <2>6
  <2>8. f[m - 1] = g[m - 1]
    BY <2>2, <2>7 DEF Differ
  <2>9. v[Len(v) - m + 1] = t[Len(t) - m + 1]
    BY <1>1, <2>7
  <2> QED BY <2>3, <2>4, <2>5, <2>6, <2>8, <2>9
<1>5. Len(t) \in 0..Len(t) /\ Len(v) \in 0..Len(v) /\ Len(v) # 0 /\ Len(v) - Len(v) + 1 = 1 /\ Len(v) - 1 = Len(t)
  BY <1>1
<1>6. f[Len(t)] = g[Len(t)]
  BY <1>4, <1>5
<1>7. f[Len(v)] = (v[Len(v) - Len(v) + 1] % Base) + Base * f[Len(v) - 1]
  BY <1>1, <1>2, <1>5, LastAt
<1>8. VarintValue(v) = (b % Base) + Base * VarintValue(t)
  BY <1>1, <1>2, <1>3, <1>5, <1>6, <1>7
<1>9. VarintValue(t) \in Nat
  BY <1>3, <1>5, LastTyped
<1> QED BY <1>1, <1>8, <1>9 DEF v

\* No bytes are worth nothing.
LEMMA ValueOfNone == VarintValue(<<>>) = 0
<1> DEFINE v == <<>>
<1>1. v \in Seq(Byte) /\ Len(v) = 0 /\ 0 \in 0..0
  OBVIOUS
<1> HIDE DEF v
<1>2. PICK f : IsLast(f, v) /\ VarintValue(v) = f[Len(v)]
  BY <1>1, ValueDefined
<1>3. VarintValue(v) = 0
  BY <1>1, <1>2, LastAt
<1> QED BY <1>3 DEF v

\* The bytes of a number: each but the last says that another follows.
Encodes(p, n) ==
    /\ p \in Seq(Byte) /\ Len(p) >= 1 /\ VarintValue(p) = n
    /\ ~More(p[Len(p)]) /\ \A j \in 1..(Len(p) - 1) : More(p[j])

\* The remainder of a byte, with and without the bit that says more follows.
LEMMA Remainder ==
    ASSUME NEW b \in Nat, b > 1, NEW r \in 0..(b - 1)
    PROVE  r % b = r /\ (r + b) % b = r
<1>1. r = 0 * b + r /\ r + b = 1 * b + r
  OBVIOUS
<1> QED BY <1>1, SMTT(60)

\* One byte encodes what is below Base.
LEMMA EncodesLast ==
    ASSUME NEW n \in Nat, n < Base
    PROVE  Encodes(<<n>>, n)
<1>1. Base \in Nat /\ Base > 1 /\ n \in 0..(Base - 1)
  BY VarintAssumption, MuxAssumption
<1>2. n \in Byte /\ ~More(n)
  BY <1>1 DEF Byte, More
<1>3. <<n>> \o <<>> = <<n>> /\ <<>> \in Seq(Byte) /\ Len(<<n>>) = 1 /\ <<n>>[1] = n /\ <<n>> \in Seq(Byte)
  BY <1>2
<1>4. VarintValue(<<n>> \o <<>>) = (n % Base) + Base * VarintValue(<<>>)
  BY <1>2, <1>3, ValueStep
<1>5. (n % Base) + Base * VarintValue(<<>>) = n
  BY <1>1, ValueOfNone, Remainder
<1>6. VarintValue(<<n>>) = n
  BY <1>3, <1>4, <1>5, Zenon
<1>7. \A j \in 1..(1 - 1) : FALSE
  OBVIOUS
<1> DEFINE p == <<n>>
<1>8. p \in Seq(Byte) /\ Len(p) = 1 /\ VarintValue(p) = n /\ ~More(p[1])
  BY <1>2, <1>3, <1>6
<1> HIDE DEF p
<1>9. Encodes(p, n)
  BY <1>7, <1>8 DEF Encodes
<1> QED BY <1>9 DEF p

\* One byte in front of what encodes the quotient encodes the number.
LEMMA EncodesMore ==
    ASSUME NEW n \in Nat, NEW t, Encodes(t, n \div Base), NEW p, p = <<(n % Base) + Base>> \o t
    PROVE  Encodes(p, n)
<1> DEFINE b == (n % Base) + Base
<1>1. /\ Base \in Nat /\ Base > 1 /\ n % Base \in 0..(Base - 1)
      /\ n = (n % Base) + Base * (n \div Base) /\ t \in Seq(Byte)
  BY VarintAssumption, MuxAssumption, Division DEF Encodes
<1>2. b \in Byte /\ More(b)
  BY <1>1 DEF Byte, More
<1>3. b % Base = n % Base
  BY <1>1, Remainder
<1> HIDE DEF b
<1>4. p \in Seq(Byte) /\ VarintValue(p) = n
  <2>1. /\ <<b>> \o t \in Seq(Byte)
        /\ VarintValue(<<b>> \o t) = (b % Base) + Base * VarintValue(t)
    BY <1>1, <1>2, ValueStep
  <2>2. p = <<b>> \o t
    BY DEF b
  <2>3. VarintValue(p) = (b % Base) + Base * VarintValue(t) /\ p \in Seq(Byte)
    BY <2>1, <2>2, Zenon
  <2>4. VarintValue(t) = n \div Base
    BY DEF Encodes
  <2> QED BY <1>1, <1>3, <2>3, <2>4
<1>5. /\ Len(p) = 1 + Len(t) /\ p[1] = b /\ \A j \in 1..Len(t) : p[1 + j] = t[j]
  <2> DEFINE one == <<b>>
  <2>1. one \in Seq(Byte) /\ Len(one) = 1 /\ one[1] = b /\ 1 \in 1..1 /\ p = one \o t
    BY <1>2 DEF b
  <2> HIDE DEF one
  <2>2. one \in Seq(Byte) /\ t \in Seq(Byte)
    BY <1>1, <2>1
  <2>3. /\ Len(one \o t) = Len(one) + Len(t)
        /\ \A j \in 1..Len(one) : (one \o t)[j] = one[j]
        /\ \A j \in 1..Len(t) : (one \o t)[Len(one) + j] = t[j]
    BY <2>2, JoinOf
  <2> QED BY <2>1, <2>3
<1>6. Len(t) \in Nat /\ Len(t) >= 1 /\ ~More(t[Len(t)]) /\ \A j \in 1..(Len(t) - 1) : More(t[j])
  BY <1>1, LengthOf DEF Encodes
<1>7. ~More(p[Len(p)])
  BY <1>5, <1>6
<1>8. ASSUME NEW j \in 1..(Len(p) - 1) PROVE More(p[j])
  <2>1. CASE j = 1
    BY <1>2, <1>5, <2>1
  <2>2. CASE j # 1
    <3>1. j - 1 \in 1..(Len(t) - 1) /\ j - 1 \in 1..Len(t) /\ 1 + (j - 1) = j
      BY <1>5, <1>6, <2>2
    <3> QED BY <1>5, <1>6, <3>1
  <2> QED BY <2>1, <2>2
<1> QED BY <1>4, <1>5, <1>6, <1>7, <1>8 DEF Encodes

\* A varint is read back as the number it was made from.
LEMMA VarintEncodes ==
    ASSUME NEW v \in Nat
    PROVE  Encodes(Varint(v), v)
<1>0. Base \in Nat /\ Base > 1
  BY VarintAssumption, MuxAssumption
<1> DEFINE Is(f, m) == f = [n \in 0..m |-> IF n < Base THEN <<n>> ELSE <<(n % Base) + Base>> \o f[n \div Base]]
           None == {n \in Nat : ~\E f : Is(f, n)}
<1>1. ASSUME NEW x \in None PROVE FALSE
  <2> HIDE DEF Is
  <2>1. PICK m \in None : \A k \in None : m <= k
    BY LeastNatural
  <2>2. m \in Nat /\ ~\E f : Is(f, m)
    OBVIOUS
  <2>3. CASE m = 0
    <3>1. Is([n \in 0..0 |-> <<n>>], 0)
      BY <1>0 DEF Is
    <3> QED BY <2>2, <2>3, <3>1
  <2>4. CASE m # 0
    <3>1. m - 1 \in Nat /\ ~(m <= m - 1)
      BY <2>2, <2>4
    <3>2. PICK f : Is(f, m - 1)
      BY <2>1, <3>1
    <3> DEFINE b(n) == <<(n % Base) + Base>>
               g == [n \in 0..m |-> IF n < Base THEN <<n>> ELSE b(n) \o f[n \div Base]]
    <3> HIDE DEF b
    <3>3. ASSUME NEW n \in 0..m, ~(n < Base) PROVE g[n \div Base] = f[n \div Base]
      <4>1. n \in Nat /\ n >= Base /\ n \div Base \in Nat /\ n \div Base < n
        BY <1>0, <2>2, <3>3, Division, DivisionLess
      <4>2. n \div Base \in 0..(m - 1) /\ n \div Base \in 0..m
        BY <2>2, <4>1
      <4> DEFINE q == n \div Base
      <4> HIDE DEF q
      <4>3. q \in 0..(m - 1) /\ q \in 0..m
        BY <4>2 DEF q
      <4>4. f[q] = IF q < Base THEN <<q>> ELSE b(q) \o f[q \div Base]
        BY <3>2, <4>3 DEF Is, b
      <4>5. g[q] = IF q < Base THEN <<q>> ELSE b(q) \o f[q \div Base]
        BY <4>3
      <4> QED BY <4>4, <4>5 DEF q
    <3>4. [n \in 0..m |-> IF n < Base THEN <<n>> ELSE b(n) \o g[n \div Base]]
            = [n \in 0..m |-> IF n < Base THEN <<n>> ELSE b(n) \o f[n \div Base]]
      <4> HIDE DEF g
      <4> QED BY <3>3
    <3>5. Is(g, m)
      BY <3>4 DEF Is, b
    <3> QED BY <2>2, <3>5
  <2> QED BY <2>3, <2>4
<1>2. \E f : Is(f, v)
  BY <1>1
<1> DEFINE e == CHOOSE f : Is(f, v)
<1>3. Varint(v) = e[v]
  BY DEF Varint
<1>4. Is(e, v)
  <2> HIDE DEF Is
  <2> QED BY <1>2
<1> HIDE DEF e
<1>5. ASSUME NEW n \in 0..v
      PROVE  e[n] = IF n < Base THEN <<n>> ELSE <<(n % Base) + Base>> \o e[n \div Base]
  BY <1>4
<1> DEFINE Not == {n \in 0..v : ~Encodes(e[n], n)}
<1>6. ASSUME NEW x \in Not PROVE FALSE
  <2>1. Not \subseteq Nat
    OBVIOUS
  <2> HIDE DEF Not
  <2>2. PICK m \in Not : \A k \in Not : m <= k
    BY <2>1, LeastNatural
  <2>3. m \in 0..v /\ m \in Nat /\ ~Encodes(e[m], m)
    BY <2>2 DEF Not
  <2>4. CASE m < Base
    BY <1>5, <2>3, <2>4, EncodesLast
  <2>5. CASE ~(m < Base)
    <3>1. m >= Base /\ m \div Base \in Nat /\ m \div Base < m
      <4>1. m >= Base /\ m \in Nat
        BY <1>0, <2>3, <2>5
      <4>2. m \div Base \in Nat
        BY <1>0, <4>1, Division
      <4>3. m \div Base < m
        BY <1>0, <4>1, DivisionLess
      <4> QED BY <4>1, <4>2, <4>3
    <3>2. m \div Base \in 0..v /\ ~(m <= m \div Base)
      BY <2>3, <3>1
    <3>3. Encodes(e[m \div Base], m \div Base)
      BY <2>2, <3>2 DEF Not
    <3> QED BY <1>5, <2>3, <2>5, <3>3, EncodesMore
  <2> QED BY <2>4, <2>5
<1> QED BY <1>3, <1>6

-----------------------------------------------------------------------------
(* What bvnr_mux_send makes of a message.                                  *)

\* Bytes of s that a chunk has room for, and that k chunks hold.
Room(id) == ChunkSize - Len(Varint(id))

Cut(id, s, k) == IF k * Room(id) < Len(s) THEN k * Room(id) ELSE Len(s)

\* Products of naturals.
LEMMA ProductsOrdered ==
    /\ \A a, b, r \in Nat : a =< b => a * r =< b * r
    /\ \A a, r \in Nat : r >= 1 => a =< a * r
    /\ \A k, r \in Nat : k * r \in Nat /\ (k + 1) * r = k * r + r
    /\ \A r \in Nat : 0 * r = 0
<1>1. \A a, b, r \in Nat : a =< b => a * r =< b * r
  OBVIOUS
<1>2. \A a, r \in Nat : r >= 1 => a =< a * r
  OBVIOUS
<1>3. \A k, r \in Nat : k * r \in Nat /\ (k + 1) * r = k * r + r
  OBVIOUS
<1>4. \A r \in Nat : 0 * r = 0
  OBVIOUS
<1> QED BY <1>1, <1>2, <1>3, <1>4

\* Chunked cuts s at multiples of the room, the last piece at its end; every piece
\* has the channel in front, and none is empty.
LEMMA ChunkedPieces ==
    ASSUME NEW id \in Channels, NEW s \in Seq(Byte), Len(s) >= 1
    PROVE  \E n \in Nat \ {0} :
             /\ Chunked(id, s) = [k \in 1..n |-> Varint(id) \o SubSeq(s, Cut(id, s, k - 1) + 1, Cut(id, s, k))]
             /\ Cut(id, s, 0) = 0 /\ Cut(id, s, n) = Len(s)
             /\ \A k \in 1..n : /\ Cut(id, s, k - 1) \in 0..Len(s) /\ Cut(id, s, k) \in 0..Len(s)
                                /\ Cut(id, s, k - 1) < Cut(id, s, k)
<1> DEFINE room == ChunkSize - Len(Varint(id))
           Fits(n) == (n - 1) * room < Len(s) /\ Len(s) =< n * room
           pieces == CHOOSE n \in 1..Len(s) : Fits(n)
<1>1. /\ id \in Nat /\ Varint(id) \in Seq(Byte) /\ room \in Nat /\ room >= 1 /\ room = Room(id)
      /\ Len(s) \in Nat
  <2>1. id \in Nat /\ Len(Varint(id)) < ChunkSize /\ ChunkSize \in Nat
    BY MuxAssumption
  <2>2. Varint(id) \in Seq(Byte)
    BY <2>1, VarintEncodes DEF Encodes
  <2>3. Len(Varint(id)) \in Nat /\ Len(s) \in Nat
    BY <2>2, LengthOf
  <2> QED BY <2>1, <2>2, <2>3 DEF Room
<1> HIDE DEF room
<1>2. \E n \in 1..Len(s) : Fits(n)
  <2> DEFINE Enough == {n \in Nat : Len(s) =< n * room}
  <2>1. Len(s) \in Enough
    BY <1>1, ProductsOrdered
  <2>2. PICK n \in Enough : \A m \in Enough : n <= m
    <3>1. Enough \subseteq Nat
      OBVIOUS
    <3> HIDE DEF Enough
    <3> QED BY <2>1, <3>1, LeastNatural
  <2>3. n \in Nat /\ n =< Len(s) /\ Len(s) =< n * room
    BY <2>1, <2>2
  <2>4. n # 0
    <3>1. 0 * room = 0
      BY <1>1, ProductsOrdered
    <3> QED BY <1>1, <2>3, <3>1
  <2>5. n - 1 \in Nat /\ ~(n <= n - 1)
    BY <2>3, <2>4
  <2>6. ~(Len(s) =< (n - 1) * room)
    BY <2>2, <2>5
  <2>7. (n - 1) * room \in Nat
    BY <1>1, <2>5, ProductsOrdered
  <2>8. Fits(n) /\ n \in 1..Len(s)
    BY <1>1, <2>3, <2>4, <2>6, <2>7
  <2> QED BY <2>8
<1>3. pieces \in 1..Len(s) /\ Fits(pieces)
  <2> HIDE DEF Fits
  <2> QED BY <1>2
<1>4. Chunked(id, s) = [k \in 1..pieces |-> Varint(id) \o SubSeq(s, (k - 1) * room + 1, IF k = pieces THEN Len(s) ELSE k * room)]
  BY DEF Chunked, room
<1> HIDE DEF pieces
<1>5. pieces \in Nat \ {0} /\ pieces - 1 \in Nat /\ (pieces - 1) + 1 = pieces
  BY <1>1, <1>3
<1>6. ASSUME NEW k \in Nat, k < pieces PROVE Cut(id, s, k) = k * room /\ k * room \in Nat /\ k * room < Len(s)
  <2>1. k =< pieces - 1
    BY <1>5, <1>6
  <2>2. k * room =< (pieces - 1) * room /\ k * room \in Nat /\ (pieces - 1) * room \in Nat
    BY <1>1, <1>5, <2>1, ProductsOrdered
  <2>3. k * room < Len(s)
    BY <1>1, <1>3, <2>2
  <2> QED BY <1>1, <2>2, <2>3 DEF Cut
<1>7. Cut(id, s, pieces) = Len(s)
  <2>1. Len(s) =< pieces * room /\ pieces * room \in Nat
    BY <1>1, <1>3, <1>5, ProductsOrdered
  <2>2. ~(pieces * room < Len(s))
    BY <1>1, <2>1
  <2> QED BY <1>1, <2>2 DEF Cut
<1>8. Cut(id, s, 0) = 0
  <2>1. 0 \in Nat /\ 0 < pieces /\ 0 * room = 0
    BY <1>1, <1>5, ProductsOrdered
  <2> QED BY <1>6, <2>1
<1>9. ASSUME NEW k \in 1..pieces
      PROVE  /\ Cut(id, s, k - 1) = (k - 1) * room /\ Cut(id, s, k) = IF k = pieces THEN Len(s) ELSE k * room
             /\ Cut(id, s, k - 1) \in 0..Len(s) /\ Cut(id, s, k) \in 0..Len(s)
             /\ Cut(id, s, k - 1) < Cut(id, s, k)
  <2>1. k - 1 \in Nat /\ k - 1 < pieces /\ k \in Nat /\ (k - 1) + 1 = k
    BY <1>5
  <2>2. Cut(id, s, k - 1) = (k - 1) * room /\ (k - 1) * room \in Nat /\ (k - 1) * room < Len(s)
    BY <1>6, <2>1
  <2>3. CASE k = pieces
    BY <1>1, <1>7, <2>2, <2>3
  <2>4. CASE k # pieces
    <3>1. k < pieces
      BY <1>5, <2>1, <2>4
    <3>2. Cut(id, s, k) = k * room /\ k * room \in Nat /\ k * room < Len(s)
      BY <1>6, <2>1, <3>1
    <3>3. k * room = (k - 1) * room + room
      <4>1. ((k - 1) + 1) * room = (k - 1) * room + room
        BY <1>1, <2>1, ProductsOrdered
      <4> QED BY <2>1, <4>1
    <3> QED BY <1>1, <2>2, <2>4, <3>2, <3>3
  <2> QED BY <2>3, <2>4
<1>10. Chunked(id, s) = [k \in 1..pieces |-> Varint(id) \o SubSeq(s, Cut(id, s, k - 1) + 1, Cut(id, s, k))]
  <2> DEFINE a(k) == Varint(id) \o SubSeq(s, (k - 1) * room + 1, IF k = pieces THEN Len(s) ELSE k * room)
             b(k) == Varint(id) \o SubSeq(s, Cut(id, s, k - 1) + 1, Cut(id, s, k))
  <2>1. \A k \in 1..pieces : a(k) = b(k)
    <3> TAKE k \in 1..pieces
    <3>1. Cut(id, s, k - 1) = (k - 1) * room /\ Cut(id, s, k) = IF k = pieces THEN Len(s) ELSE k * room
      BY <1>9
    <3> QED BY <3>1, Zenon
  <2>2. Chunked(id, s) = [k \in 1..pieces |-> a(k)]
    BY <1>4
  <2> HIDE DEF a, b
  <2>3. Chunked(id, s) = [k \in 1..pieces |-> b(k)]
    BY <2>1, <2>2
  <2> QED BY <2>3 DEF b
<1> QED BY <1>5, <1>7, <1>8, <1>9, <1>10

\* What mux_send writes is chunks of bytes, none of them empty.
LEMMA ChunksTyped ==
    ASSUME NEW id \in Channels, NEW data \in Seq(Byte)
    PROVE  /\ Varint(Len(data)) \o data \in Seq(Byte) /\ Len(Varint(Len(data)) \o data) >= 1
           /\ Chunks(id, data) \in Seq(Seq(Byte) \ {<<>>})
<1> DEFINE s == Varint(Len(data)) \o data
<1>1. s \in Seq(Byte) /\ Len(s) >= 1
  <2>1. Len(data) \in Nat /\ Varint(Len(data)) \in Seq(Byte) /\ Len(Varint(Len(data))) >= 1
    BY LengthOf, VarintEncodes DEF Encodes
  <2> DEFINE v == Varint(Len(data))
  <2> HIDE DEF v
  <2>2. v \in Seq(Byte) /\ Len(v) >= 1 /\ Len(v) \in Nat /\ Len(data) \in Nat
    BY <2>1, LengthOf DEF v
  <2>3. v \o data \in Seq(Byte) /\ Len(v \o data) = Len(v) + Len(data)
    BY <2>2, JoinOf
  <2>4. Len(v \o data) >= 1
    BY <2>2, <2>3
  <2> QED BY <2>3, <2>4 DEF v
<1> HIDE DEF s
<1>2. PICK n \in Nat \ {0} :
        /\ Chunked(id, s) = [k \in 1..n |-> Varint(id) \o SubSeq(s, Cut(id, s, k - 1) + 1, Cut(id, s, k))]
        /\ \A k \in 1..n : /\ Cut(id, s, k - 1) \in 0..Len(s) /\ Cut(id, s, k) \in 0..Len(s)
                           /\ Cut(id, s, k - 1) < Cut(id, s, k)
  BY <1>1, ChunkedPieces
<1> DEFINE chunk(k) == Varint(id) \o SubSeq(s, Cut(id, s, k - 1) + 1, Cut(id, s, k))
<1>3. ASSUME NEW k \in 1..n PROVE chunk(k) \in Seq(Byte) \ {<<>>}
  <2> DEFINE v == Varint(id)
             x == SubSeq(s, Cut(id, s, k - 1) + 1, Cut(id, s, k))
  <2>1. v \in Seq(Byte) /\ Len(v) >= 1
    BY MuxAssumption, VarintEncodes DEF Encodes
  <2>2. Cut(id, s, k - 1) \in 0..Len(s) /\ Cut(id, s, k) \in Cut(id, s, k - 1)..Len(s)
    BY <1>2
  <2>3. x \in Seq(Byte)
    BY <1>1, <2>2, PieceOf
  <2> HIDE DEF v, x
  <2>4. v \o x \in Seq(Byte) /\ Len(v \o x) = Len(v) + Len(x) /\ Len(v) \in Nat /\ Len(x) \in Nat
    BY <2>1, <2>3, JoinOf, LengthOf
  <2>5. Len(v \o x) # 0
    BY <2>1, <2>4
  <2>6. v \o x # <<>>
    BY <2>5, Len(<<>>) = 0
  <2> QED BY <2>4, <2>6 DEF v, x
<1> HIDE DEF chunk
<1>4. [k \in 1..n |-> chunk(k)] \in Seq(Seq(Byte) \ {<<>>})
  BY <1>2, <1>3
<1> QED BY <1>1, <1>2, <1>4 DEF Chunks, chunk, s

-----------------------------------------------------------------------------
(* What has been told of each channel.                                     *)

Known(by, c) == IF c \in DOMAIN by THEN by[c] ELSE Fresh

ToldOf(cs, by) ==
    /\ DOMAIN by \subseteq DOMAIN cs
    /\ \A c \in DOMAIN cs : Sound(Known(by, c)) /\ InMiddle(cs[c], Rest(Known(by, c)))

\* Of each channel of a multiplexed stream whole messages have been told, and it
\* is in the middle of the next.
Told == IF octets /\ in_octet THEN ToldOf(chans, streams) ELSE DOMAIN streams = {}

OutgoingTyped == outgoing \in Seq(Seq(Byte) \ {<<>>})

MuxInv == IInv /\ OutgoingTyped /\ Told

\* Every step of both ends is one of the demultiplexer, or none.
LEMMA DemuxStep == OutgoingTyped /\ MuxNext => [DemuxNext]_vars
<1> SUFFICES ASSUME OutgoingTyped, MuxNext PROVE [DemuxNext]_vars
  OBVIOUS
<1>1. ASSUME NEW id \in Channels, NEW data \in Messages, Send(id, data) PROVE [DemuxNext]_vars
  BY <1>1 DEF Send
<1>2. CASE Begin
  BY <1>2 DEF Begin, DemuxNext
<1>3. CASE Feed
  BY <1>3 DEF Feed, DemuxNext
<1>4. CASE Take
  <2>1. PICK p \in Deliverable : Chunk(p)
    BY <1>4 DEF Take
  <2>2. p \in Seq(Byte) \ {<<>>}
    <3>1. CASE producer = "mux_send"
      <4>1. outgoing # <<>> /\ p = outgoing[1]
        BY <2>1, <3>1 DEF Deliverable
      <4>2. 1 \in 1..Len(outgoing)
        BY <4>1 DEF OutgoingTyped
      <4> QED BY <4>1, <4>2, LengthOf DEF OutgoingTyped
    <3>2. CASE producer # "mux_send"
      <4>1. PICK n \in 1..ChunkSize : p \in [1..n -> SomeBytes]
        BY <2>1, <3>2 DEF Deliverable
      <4>2. n \in Nat /\ n # 0 /\ SomeBytes \subseteq Byte
        BY MuxAssumption
      <4>3. p \in [1..n -> Byte]
        BY <4>1, <4>2
      <4>4. p \in Seq(Byte) /\ Len(p) = n
        BY <4>2, <4>3
      <4> QED BY <4>2, <4>4
    <3> QED BY <3>1, <3>2
  <2> QED BY <2>1, <2>2 DEF DemuxNext
<1>5. CASE End
  BY <1>5 DEF End, DemuxNext
<1>6. CASE Elsewise
  BY <1>6 DEF Elsewise, DemuxNext
<1>7. CASE Call
  BY <1>7 DEF Call, DemuxNext
<1> QED BY <1>1, <1>2, <1>3, <1>4, <1>5, <1>6, <1>7 DEF MuxNext

\* What is still to be read of it stays that.
LEMMA OutgoingKept == OutgoingTyped /\ [MuxNext]_muxVars => OutgoingTyped'
<1> SUFFICES ASSUME OutgoingTyped, [MuxNext]_muxVars PROVE OutgoingTyped'
  OBVIOUS
<1>1. ASSUME NEW id \in Channels, NEW data \in Messages, Send(id, data) PROVE OutgoingTyped'
  BY <1>1, ChunksTyped, MuxAssumption DEF Send, OutgoingTyped
<1>2. ASSUME outgoing' = <<>> PROVE OutgoingTyped'
  BY <1>2 DEF OutgoingTyped
<1>3. ASSUME UNCHANGED outgoing PROVE OutgoingTyped'
  BY <1>3 DEF OutgoingTyped
<1>4. CASE Take
  <2>1. CASE outgoing' = Tail(outgoing) /\ producer = "mux_send"
    <3>1. PICK p \in Deliverable : TRUE
      BY <1>4 DEF Take
    <3>2. outgoing # <<>>
      BY <2>1, <3>1 DEF Deliverable
    <3>3. Tail(outgoing) \in Seq(Seq(Byte) \ {<<>>})
      BY <3>2 DEF OutgoingTyped
    <3> QED BY <2>1, <3>3 DEF OutgoingTyped
  <2> QED BY <1>2, <1>3, <1>4, <2>1 DEF Take, NoStream
<1> QED
  BY <1>1, <1>2, <1>3, <1>4 DEF MuxNext, Begin, Feed, End, Elsewise, Call, NoStream, muxVars, history

\* Nothing has come of a message to an idle channel.
LEMMA FreshTold == Sound(Fresh) /\ Rest(Fresh) = <<>> /\ \A c : ~c.active /\ c.lvbuf = <<>> => InMiddle(c, <<>>)
<1>1. Fresh.bytes = <<>> /\ Fresh.messages = <<>> /\ <<>> \in Seq(Byte) /\ <<>> \in Seq(Seq(Byte)) /\ Len(<<>>) = 0
  BY DEF Fresh
<1>2. Ends(<<>>)[0] = 0
  BY <1>1, EndsDefined
<1>3. \A k \in 0..0 : k = 0
  OBVIOUS
<1>4. Sound(Fresh)
  BY <1>1, <1>2, <1>3 DEF Sound
<1>5. Rest(Fresh) = <<>>
  <2>1. Rest(Fresh) = SubSeq(<<>>, 0 + 1, 0)
    BY <1>1, <1>2 DEF Rest, After
  <2> QED BY <2>1
<1>6. \A c : ~c.active /\ c.lvbuf = <<>> => InMiddle(c, <<>>)
  BY <1>1 DEF InMiddle
<1> QED BY <1>4, <1>5, <1>6

\* A stream in which nothing has been read yet.
LEMMA BeginTold == ~ReusedAfterFailure /\ IInv /\ Told /\ Begin => Told'
<1> SUFFICES ASSUME ~ReusedAfterFailure, IInv, Told, Begin PROVE Told'
  OBVIOUS
<1>1. ~octets /\ reading /\ UNCHANGED <<chans, streams>>
  BY DEF Begin, OctetStreamStart, Elsewhere, Expecting
<1>2. DOMAIN streams = {}
  BY <1>1 DEF Told
<1>3. \A c \in DOMAIN chans : ~chans[c].active /\ chans[c].lvbuf = <<>>
  BY <1>1 DEF IInv, Clean, Unfinished
<1>4. ToldOf(chans, streams)
  BY <1>2, <1>3, FreshTold DEF ToldOf, Known
<1> QED BY <1>1, <1>2, <1>4 DEF Told

\* A step of demux_feed after which the read goes on.
LEMMA FeedTold == IInv /\ Told /\ Feed /\ reading' => Told'
<1> SUFFICES ASSUME IInv, Told, Feed, reading' PROVE Told'
  OBVIOUS
<1> DEFINE st == Known(streams, channel)
           r == Rest(st)
<1>1. FeedNext /\ streams' = Used
  BY DEF Feed
<1>0. Feeding
  BY <1>1 DEF FeedNext, LengthByte, MessageBytes, AllocFails
<1>2. /\ octets /\ in_octet /\ channel \in DOMAIN chans /\ Current = chans[channel]
      /\ frag \in Seq(Byte) /\ Len(frag) \in Nat /\ ToldOf(chans, streams)
  BY <1>0, FeedingWhere DEF Told
<1>3. Sound(st) /\ r \in Seq(Byte) /\ InMiddle(Current, r)
  BY <1>2, RestTypedOf DEF ToldOf
<1> HIDE DEF st
<1>4. PICK n \in 1..Len(frag) : Advances(n, r)
  BY <1>1, <1>3, FeedStep
<1> HIDE DEF r
<1> DEFINE run == SubSeq(frag, 1, n)
           now == r \o run
           st1 == [bytes |-> st.bytes \o run, messages |-> st.messages]
<1>5. run \in Seq(Byte) /\ n \in 0..Len(frag) /\ Len(frag') = Len(frag) - n
  <2>1. n \in 0..Len(frag)
    BY <1>2
  <2>2. frag' = After(frag, n)
    BY <1>4 DEF Advances
  <2> QED BY <1>2, <2>1, <2>2, HeadOf, TailOf DEF After
<1>6. Len(frag) - Len(frag') = n
  BY <1>2, <1>5
<1>7. Sound(st1) /\ Rest(st1) = now
  BY <1>3, <1>5, Extended DEF r
<1>8. Heard(st) = [bytes |-> st.bytes \o run, messages |-> st.messages \o [i \in DOMAIN told' |-> told'[i].data]]
  BY <1>6 DEF Heard
<1>9. /\ DOMAIN streams' = DOMAIN streams \cup {channel}
      /\ \A c \in DOMAIN streams' : streams'[c] = IF c # channel THEN streams[c] ELSE Heard(st)
  BY <1>1 DEF Used, st, Known
<1>10. /\ DOMAIN chans' = DOMAIN chans /\ \A c \in DOMAIN chans : c # channel => chans'[c] = chans[c]
       /\ octets' /\ in_octet'
  BY <1>2, <1>4 DEF Advances, document
<1>11. st.messages \in Seq(Seq(Byte)) /\ st1.bytes = st.bytes \o run /\ st1.messages = st.messages
  BY <1>3 DEF Sound
<1>12. Sound(Heard(st)) /\ InMiddle(chans'[channel], Rest(Heard(st)))
  <2>1. CASE told' = <<>> /\ InMiddle(chans'[channel], now)
    <3>1. [i \in DOMAIN told' |-> told'[i].data] = <<>>
      BY <2>1
    <3>2. st.messages \o <<>> = st.messages
      BY <1>11
    <3>3. Heard(st) = st1
      BY <1>8, <3>1, <3>2
    <3> QED BY <1>7, <2>1, <3>3
  <2>2. ASSUME NEW data \in Seq(Byte), told' = <<[channel |-> channel, data |-> data]>>,
               Frame(now, data), chans'[channel] = Idle
        PROVE  Sound(Heard(st)) /\ InMiddle(chans'[channel], Rest(Heard(st)))
    <3>1. [i \in DOMAIN told' |-> told'[i].data] = <<data>>
      BY <2>2
    <3>2. Heard(st) = [bytes |-> st1.bytes, messages |-> st1.messages \o <<data>>]
      BY <1>8, <1>11, <3>1
    <3> HIDE DEF st1
    <3>3. Sound(Heard(st)) /\ Rest(Heard(st)) = <<>>
      BY <1>7, <2>2, <3>2, Completed
    <3>4. ~chans'[channel].active /\ chans'[channel].lvbuf = <<>>
      BY <2>2 DEF Idle
    <3> QED BY <3>3, <3>4, FreshTold
  <2> QED BY <1>4, <2>1, <2>2 DEF Advances
<1> HIDE DEF run, now, st1
<1>13. ASSUME NEW c \in DOMAIN chans' PROVE Sound(Known(streams', c)) /\ InMiddle(chans'[c], Rest(Known(streams', c)))
  <2>1. CASE c = channel
    <3>1. Known(streams', c) = Heard(st)
      BY <1>9, <2>1 DEF Known
    <3> QED BY <1>12, <2>1, <3>1
  <2>2. CASE c # channel
    <3>1. Known(streams', c) = Known(streams, c) /\ chans'[c] = chans[c] /\ c \in DOMAIN chans
      BY <1>9, <1>10, <2>2 DEF Known
    <3> QED BY <1>2, <3>1 DEF ToldOf
  <2> QED BY <2>1, <2>2
<1>14. DOMAIN streams' \subseteq DOMAIN chans'
  BY <1>2, <1>9, <1>10 DEF ToldOf
<1> QED BY <1>10, <1>13, <1>14 DEF Told, ToldOf

\* A chunk after which the read goes on.
LEMMA TakeTold == IInv /\ Told /\ Take /\ reading' => Told'
<1> SUFFICES ASSUME IInv, Told, Take, reading' PROVE Told'
  OBVIOUS
<1>1. PICK p : Chunk(p)
  BY DEF Take
<1>2. UNCHANGED <<in_octet, streams>> /\ octets
  BY <1>1 DEF Take, Chunk
<1>3. ASSUME NEW id, id \in DOMAIN chans \/ RoomForChannel,
             chans' = IF id \in DOMAIN chans THEN chans ELSE NewChannel(id), octets' = octets, in_octet
      PROVE  Told'
  <2>1. ToldOf(chans, streams)
    BY <1>2, <1>3 DEF Told
  <2>2. ASSUME NEW c \in DOMAIN chans'
        PROVE  Sound(Known(streams, c)) /\ InMiddle(chans'[c], Rest(Known(streams, c)))
    <3>1. CASE c \in DOMAIN chans
      <4>1. chans'[c] = chans[c]
        BY <1>3, <3>1 DEF NewChannel
      <4> QED BY <2>1, <3>1, <4>1 DEF ToldOf
    <3>2. CASE c \notin DOMAIN chans
      <4>1. chans'[c] = Idle
        BY <1>3, <2>2, <3>2 DEF NewChannel
      <4>2. Known(streams, c) = Fresh
        BY <2>1, <3>2 DEF ToldOf, Known
      <4>3. ~chans'[c].active /\ chans'[c].lvbuf = <<>>
        BY <4>1 DEF Idle
      <4> QED BY <4>2, <4>3, FreshTold
    <3> QED BY <3>1, <3>2
  <2>3. DOMAIN streams \subseteq DOMAIN chans'
    BY <1>3, <2>1 DEF ToldOf, NewChannel
  <2> QED BY <1>2, <1>3, <2>2, <2>3 DEF Told, ToldOf
<1>4. CASE UNCHANGED <<document, chans>>
  BY <1>2, <1>4 DEF Told, document
<1> QED BY <1>1, <1>2, <1>3, <1>4 DEF Chunk, Abort, document

\* No step of either end tells anything else.
LEMMA ToldKept == ~ReusedAfterFailure /\ IInv /\ IInv' /\ Told /\ [MuxNext]_muxVars => Told'
<1> SUFFICES ASSUME ~ReusedAfterFailure, IInv, IInv', Told, [MuxNext]_muxVars PROVE Told'
  OBVIOUS
<1>1. ASSUME ~octets', DOMAIN streams' = {} PROVE Told'
  BY <1>1 DEF Told
<1>2. NoStream => DOMAIN streams' = {}
  BY DEF NoStream
<1>3. /\ ~reading' => ~octets'
      /\ ~reading => ~octets
  BY DEF IInv, ReadApart
<1>4. ASSUME UNCHANGED <<octets, in_octet, chans, streams>> PROVE Told'
  BY <1>4 DEF Told
<1>5. ASSUME NEW id \in Channels, NEW data \in Messages, Send(id, data) PROVE Told'
  BY <1>4, <1>5 DEF Send, vars, document, demux
<1>6. CASE Begin
  BY <1>6, BeginTold
<1>7. CASE Feed
  BY <1>1, <1>2, <1>3, <1>7, FeedTold DEF Feed
<1>8. CASE Take
  BY <1>1, <1>2, <1>3, <1>8, TakeTold DEF Take
<1>9. CASE End
  BY <1>1, <1>2, <1>9 DEF End, OctetStreamEnd
<1>10. CASE Elsewise
  <2>1. UNCHANGED <<octets, streams>> /\ ~octets
    BY <1>10 DEF Elsewise, history, DocumentNext, Scalar, RowStart, RowEnd, StructStart, StructEnd, AssignmentStart,
                 Ignored, Elsewhere
  <2> QED BY <1>1, <2>1 DEF Told
<1>11. CASE Call
  <2>1. CASE reading
    <3>1. ReadEnds \/ ReadFails
      BY <1>11, <2>1 DEF Call, CallerNext, ReadBegins, Recreate, SetKey
    <3>2. ~reading' /\ DOMAIN streams' = {}
      BY <1>2, <1>11, <2>1, <3>1 DEF Call, ReadEnds, ReadFails
    <3> QED BY <1>1, <1>3, <3>2
  <2>2. CASE ~reading
    <3>1. UNCHANGED <<octets, streams>> /\ ~octets
      BY <1>3, <1>11, <2>2 DEF Call, history, CallerNext, ReadBegins, ReadEnds, ReadFails, Recreate, SetKey, document,
                               Elsewhere, Expecting
    <3> QED BY <1>1, <3>1 DEF Told
  <2> QED BY <2>1, <2>2
<1>12. CASE UNCHANGED muxVars
  BY <1>4, <1>12 DEF muxVars, vars, document, demux, history
<1> QED BY <1>5, <1>6, <1>7, <1>8, <1>9, <1>10, <1>11, <1>12 DEF MuxNext

\* The next message of a channel is not whole.
LEMMA NotYetWhole ==
    ASSUME NEW st, Sound(st), NEW c \in Partial, PartBounded(c), InMiddle(c, Rest(st)), Len(st.messages) < Len(st.bytes)
    PROVE  Ends(st.bytes)[Len(st.messages) + 1] > Len(st.bytes)
<1> DEFINE s == st.bytes
           n == Len(st.messages)
           e == Ends(s)[n]
           r == After(s, e)
<1>1. /\ s \in Seq(Byte) /\ Len(s) \in Nat /\ n \in Nat /\ e \in 0..Len(s) /\ r = Rest(st)
      /\ r \in Seq(Byte) /\ Len(r) = Len(s) - e
  <2>1. /\ e \in n..Len(s) /\ r = Rest(st) /\ r \in Seq(Byte) /\ Len(r) = Len(s) - e /\ Len(s) \in Nat /\ n \in Nat
    BY RestTypedOf DEF Rest
  <2> QED BY <2>1 DEF Sound
<1>2. n + 1 \in 1..Len(s) /\ (n + 1) - 1 = n
  BY <1>1
<1>3. Ends(s)[n + 1] = MessageAfter(s, e).end
  <2>1. Ends(s)[n + 1] = MessageAfter(s, Ends(s)[(n + 1) - 1]).end
    BY <1>1, <1>2, EndsDefined
  <2> QED BY <1>2, <2>1
<1> HIDE DEF s, n, e, r
<1>4. CASE c.active
  <2>1. PICK i \in VarintEnds(r) : c.need = VarintValue(SubSeq(r, 1, i)) /\ c.buf = After(r, i)
    BY <1>1, <1>4 DEF InMiddle
  <2>2. i \in 0..Len(r) /\ Len(r) \in Nat
    BY <1>1, LengthOf DEF VarintEnds
  <2>3. Len(c.buf) = Len(r) - i
    BY <1>1, <2>1, <2>2, TailOf DEF After
  <2>4. c.need \in Nat /\ Len(c.buf) < c.need
    BY <1>4, LimitsAssumption DEF Partial, PartBounded
  <2>5. MessageAfter(s, e).end = e + i + c.need
    BY <1>1, <2>1, MessageWhere DEF r
  <2> QED BY <1>1, <1>3, <2>2, <2>3, <2>4, <2>5 DEF s, n
<1>5. CASE ~c.active
  <2>1. \A i \in 1..Len(r) : More(r[i])
    BY <1>1, <1>5 DEF InMiddle
  <2>2. MessageAfter(s, e).end = Len(s) + 1
    BY <2>1, EndsNowhere, MessageNowhere DEF r
  <2> QED BY <1>1, <1>3, <2>2 DEF s, n
<1> QED BY <1>4, <1>5

\* With what the demultiplexer's own invariant says, that is the property.
LEMMA ToldFramed == IInv /\ Told => MessagesOfStream
<1> SUFFICES ASSUME IInv, Told, octets, in_octet, NEW c \in DOMAIN streams PROVE Framed(streams[c])
  BY DEF MessagesOfStream
<1>1. /\ c \in DOMAIN chans /\ Sound(streams[c]) /\ InMiddle(chans[c], Rest(streams[c]))
      /\ chans[c] \in Partial /\ PartBounded(chans[c])
  BY DEF Told, ToldOf, Known, IInv, TypeOK, ChannelsBounded
<1> DEFINE st == streams[c]
<1> HIDE DEF st
<1>2. Sound(st) /\ Ends(st.bytes)[Len(st.messages)] \in Len(st.messages)..Len(st.bytes)
      /\ Len(st.bytes) \in Nat /\ Len(st.messages) \in Nat
  BY <1>1, RestTypedOf DEF st
<1>3. Len(st.messages) < Len(st.bytes) => Ends(st.bytes)[Len(st.messages) + 1] > Len(st.bytes)
  BY <1>1, NotYetWhole DEF st
<1>4. Framed(st)
  BY <1>2, <1>3 DEF Framed, Sound
<1> QED BY <1>4 DEF st

-----------------------------------------------------------------------------
(* A message on its way from mux_send.                                     *)

\* The bytes of a piece of s, used from its beginning.
LEMMA PieceUsed ==
    ASSUME NEW S, NEW s \in Seq(S), NEW c \in 0..Len(s), NEW n \in 0..c, NEW j \in 0..(c - n)
    PROVE  LET piece == SubSeq(s, n + 1, c) IN
           /\ piece \in Seq(S) /\ Len(piece) = c - n
           /\ SubSeq(piece, j + 1, Len(piece)) = SubSeq(s, n + j + 1, c)
           /\ SubSeq(s, 1, n) \o SubSeq(piece, 1, j) = SubSeq(s, 1, n + j)
<1> DEFINE piece == SubSeq(s, n + 1, c)
<1>0. Len(s) \in Nat /\ c \in Nat /\ n \in Nat /\ j \in Nat
  BY LengthOf
<1>1. /\ piece \in Seq(S) /\ Len(piece) = c - n
      /\ \A i \in 1..(c - n) : piece[i] = s[n + i]
  <2>1. n \in 0..Len(s) /\ c \in n..Len(s)
    BY <1>0
  <2> QED BY <2>1, PieceOf
<1> HIDE DEF piece
<1>2. j \in 0..Len(piece) /\ n + j \in 0..Len(s) /\ c \in (n + j)..Len(s) /\ n \in 0..Len(s)
  BY <1>0, <1>1
<1>3. SubSeq(piece, j + 1, Len(piece)) = SubSeq(s, n + j + 1, c)
  <2> DEFINE a == SubSeq(piece, j + 1, Len(piece))
             b == SubSeq(s, n + j + 1, c)
  <2>1. /\ a \in Seq(S) /\ Len(a) = Len(piece) - j /\ \A i \in 1..(Len(piece) - j) : a[i] = piece[j + i]
    BY <1>1, <1>2, TailOf
  <2>2. /\ b \in Seq(S) /\ Len(b) = c - (n + j) /\ \A i \in 1..(c - (n + j)) : b[i] = s[(n + j) + i]
    BY <1>2, PieceOf
  <2> HIDE DEF a, b
  <2>3. Len(a) = Len(b)
    BY <1>0, <1>1, <2>1, <2>2
  <2>4. ASSUME NEW i \in 1..Len(a) PROVE a[i] = b[i]
    <3>1. /\ i \in 1..(Len(piece) - j) /\ i \in 1..(c - (n + j)) /\ j + i \in 1..(c - n)
          /\ n + (j + i) = (n + j) + i
      BY <1>0, <1>1, <2>1
    <3> QED BY <1>1, <2>1, <2>2, <3>1
  <2>5. a = b
    BY <2>1, <2>2, <2>3, <2>4, SameOf
  <2> QED BY <2>5 DEF a, b
<1>4. SubSeq(s, 1, n) \o SubSeq(piece, 1, j) = SubSeq(s, 1, n + j)
  <2> DEFINE a == SubSeq(s, 1, n)
             b == SubSeq(piece, 1, j)
             w == SubSeq(s, 1, n + j)
  <2>1. a \in Seq(S) /\ Len(a) = n /\ \A i \in 1..n : a[i] = s[i]
    BY <1>2, HeadOf
  <2>2. b \in Seq(S) /\ Len(b) = j /\ \A i \in 1..j : b[i] = piece[i]
    BY <1>1, <1>2, HeadOf
  <2>3. w \in Seq(S) /\ Len(w) = n + j /\ \A i \in 1..(n + j) : w[i] = s[i]
    BY <1>2, HeadOf
  <2> HIDE DEF a, b, w
  <2>4. /\ a \o b \in Seq(S) /\ Len(a \o b) = n + j
        /\ \A i \in 1..n : (a \o b)[i] = a[i]
        /\ \A i \in 1..j : (a \o b)[n + i] = b[i]
    <3>1. a \in Seq(S) /\ b \in Seq(S)
      BY <2>1, <2>2
    <3>2. /\ a \o b \in Seq(S) /\ Len(a \o b) = Len(a) + Len(b)
          /\ \A i \in 1..Len(a) : (a \o b)[i] = a[i]
          /\ \A i \in 1..Len(b) : (a \o b)[Len(a) + i] = b[i]
      BY <3>1, JoinOf
    <3> QED BY <2>1, <2>2, <3>2
  <2>5. ASSUME NEW i \in 1..(n + j) PROVE (a \o b)[i] = w[i]
    <3>1. CASE i =< n
      <4>1. i \in 1..n
        BY <1>0, <3>1
      <4> QED BY <2>1, <2>3, <2>4, <4>1
    <3>2. CASE ~(i =< n)
      <4>1. i - n \in 1..j /\ i - n \in 1..(c - n) /\ n + (i - n) = i
        BY <1>0, <3>2
      <4>2. (a \o b)[n + (i - n)] = b[i - n] /\ b[i - n] = piece[i - n] /\ piece[i - n] = s[n + (i - n)]
        BY <1>1, <2>2, <2>4, <4>1
      <4> QED BY <2>3, <4>1, <4>2
    <3> QED BY <3>1, <3>2
  <2>6. a \o b = w
    BY <2>3, <2>4, <2>5, SameOf
  <2> QED BY <2>6 DEF a, b, w
<1> QED BY <1>1, <1>3, <1>4 DEF piece

\* A number is found where it was put, whatever follows.
LEMMA EndFound ==
    ASSUME NEW v, NEW x, Encodes(v, x), NEW t \in Seq(Byte), NEW i \in VarintEnds(v \o t)
    PROVE  i = Len(v) /\ SubSeq(v \o t, 1, i) = v /\ After(v \o t, i) = t
<1> DEFINE w == v \o t
<1>1. /\ v \in Seq(Byte) /\ Len(v) \in Nat /\ Len(v) >= 1 /\ ~More(v[Len(v)]) /\ \A j \in 1..(Len(v) - 1) : More(v[j])
  BY LengthOf DEF Encodes
<1>2. /\ w \in Seq(Byte) /\ Len(w) = Len(v) + Len(t) /\ Len(t) \in Nat
      /\ \A j \in 1..Len(v) : w[j] = v[j]
  BY <1>1, JoinOf, LengthOf
<1>3. i \in 1..Len(w) /\ ~More(w[i]) /\ \A j \in 1..(i - 1) : More(w[j])
  BY DEF VarintEnds
<1>4. i = Len(v)
  <2>1. ~(Len(v) \in 1..(i - 1))
    BY <1>1, <1>2, <1>3
  <2>2. ~(i \in 1..(Len(v) - 1))
    <3> SUFFICES ASSUME i \in 1..(Len(v) - 1) PROVE FALSE
      OBVIOUS
    <3>1. i \in 1..Len(v) /\ More(v[i])
      BY <1>1
    <3> QED BY <1>2, <1>3, <3>1
  <2> HIDE DEF w
  <2> QED BY <1>1, <1>2, <1>3, <2>1, <2>2
<1>5. 0 \in Nat /\ Len(v) \in 0..Len(v)
  BY <1>1
<1>6. SubSeq(w, 1, Len(v)) = v
  <2> DEFINE a == SubSeq(w, 1, Len(v))
  <2>1. Len(v) \in 0..Len(w)
    BY <1>1, <1>2
  <2>2. a \in Seq(Byte) /\ Len(a) = Len(v) /\ \A j \in 1..Len(v) : a[j] = w[j]
    <3> HIDE DEF w
    <3> QED BY <1>2, <2>1, HeadOf
  <2> HIDE DEF a
  <2>3. a = v
    BY <1>1, <1>2, <2>2, SameOf
  <2> QED BY <2>3 DEF a
<1>7. After(w, Len(v)) = t
  <2>1. After(w, Len(v)) = SubSeq(v, Len(v) + 1, Len(v)) \o t
    BY <1>1, <1>5, TailJoined DEF After
  <2>2. SubSeq(v, Len(v) + 1, Len(v)) = <<>>
    BY <1>1
  <2>3. <<>> \o t = t
    OBVIOUS
  <2> QED BY <2>1, <2>2, <2>3
<1> HIDE DEF w
<1>8. i = Len(v) /\ SubSeq(w, 1, i) = v /\ After(w, i) = t
  BY <1>4, <1>6, <1>7
<1> QED BY <1>8 DEF w

\* What mux_send makes of a message before it cuts it.
Wire(data) == Varint(Len(data)) \o data

\* Once the length of a message in its wire form is whole it is the message's, and
\* all n bytes of the wire form give the message's body.
LEMMA WireFound ==
    ASSUME NEW data \in Seq(Byte), NEW n \in 0..Len(Wire(data)), NEW i \in VarintEnds(SubSeq(Wire(data), 1, n))
    PROVE  LET u == SubSeq(Wire(data), 1, n) IN
           /\ VarintValue(SubSeq(u, 1, i)) = Len(data)
           /\ Len(Wire(data)) = i + Len(data) /\ i \in 1..n
           /\ n = Len(Wire(data)) => After(u, i) = data
<1> DEFINE w == Wire(data)
           v == Varint(Len(data))
           u == SubSeq(w, 1, n)
<1>1. Len(data) \in Nat /\ Encodes(v, Len(data)) /\ v \in Seq(Byte) /\ w = v \o data
  BY LengthOf, VarintEncodes DEF Encodes, Wire
<1> HIDE DEF v
<1>2. w \in Seq(Byte) /\ Len(w) = Len(v) + Len(data) /\ Len(v) \in Nat
  BY <1>1, JoinOf, LengthOf
<1>9. n \in 0..Len(w)
  OBVIOUS
<1>3. /\ u \in Seq(Byte) /\ Len(u) = n /\ SubSeq(w, n + 1, Len(w)) \in Seq(Byte)
      /\ u \o SubSeq(w, n + 1, Len(w)) = w /\ (n = Len(w) => u = w)
  <2> HIDE DEF w
  <2>1. u \in Seq(Byte) /\ Len(u) = n /\ SubSeq(w, n + 1, Len(w)) \in Seq(Byte)
    BY <1>2, <1>9, HeadOf, TailOf
  <2>2. Len(w) \in 0..Len(w) /\ n \in 0..Len(w) /\ Len(w) \in Nat /\ Len(w) - n \in 0..(Len(w) - n) /\ n \in 0..Len(w)
    BY <1>2, <1>9, LengthOf
  <2>3. LET piece == SubSeq(w, n + 1, Len(w)) IN
           /\ piece \in Seq(Byte) /\ Len(piece) = Len(w) - n
           /\ SubSeq(piece, (Len(w) - n) + 1, Len(piece)) = SubSeq(w, n + (Len(w) - n) + 1, Len(w))
           /\ SubSeq(w, 1, n) \o SubSeq(piece, 1, Len(w) - n) = SubSeq(w, 1, n + (Len(w) - n))
    <3> DEFINE c == Len(w)
               j == c - n
               piece == SubSeq(w, n + 1, c)
    <3>1. c \in 0..Len(w) /\ n \in 0..c /\ j \in 0..(c - n) /\ w \in Seq(Byte)
      BY <1>2, <2>2
    <3> HIDE DEF c, j
    <3>2. /\ piece \in Seq(Byte) /\ Len(piece) = c - n
          /\ SubSeq(piece, j + 1, Len(piece)) = SubSeq(w, n + j + 1, c)
      BY ONLY <3>1, PieceUsed
    <3>3. SubSeq(w, 1, n) \o SubSeq(piece, 1, j) = SubSeq(w, 1, n + j)
      BY ONLY <3>1, PieceUsed
    <3> QED BY <3>2, <3>3 DEF c, j
  <2> DEFINE piece == SubSeq(w, n + 1, Len(w))
  <2>4. piece \in Seq(Byte) /\ Len(piece) = Len(w) - n /\ u \o SubSeq(piece, 1, Len(w) - n) = SubSeq(w, 1, n + (Len(w) - n))
    BY <2>1, <2>3
  <2> HIDE DEF piece, u
  <2>5. \A q \in Seq(Byte) : SubSeq(q, 1, Len(q)) = q
    OBVIOUS
  <2>6. SubSeq(piece, 1, Len(w) - n) = piece
    BY <2>4, <2>5
  <2>7. n + (Len(w) - n) = Len(w)
    BY <2>2
  <2>8. u \o piece = w
    BY <1>2, <2>4, <2>5, <2>6, <2>7
  <2>9. n = Len(w) => u = w
    BY <1>2, <2>5 DEF u
  <2> QED BY <2>1, <2>8, <2>9 DEF piece
<1>4. i \in VarintEnds(w) /\ SubSeq(w, 1, i) = SubSeq(u, 1, i)
  <2> DEFINE t == SubSeq(w, n + 1, Len(w))
  <2>1. u \in Seq(Byte) /\ t \in Seq(Byte) /\ u \o t = w /\ i \in VarintEnds(u)
    BY <1>3
  <2> HIDE DEF t, u, w
  <2>2. i \in VarintEnds(u \o t) /\ SubSeq(u \o t, 1, i) = SubSeq(u, 1, i)
    BY <2>1, EndsStay
  <2> QED BY <2>1, <2>2
<1>5. i = Len(v) /\ SubSeq(w, 1, i) = v /\ After(w, i) = data
  <2>1. i \in VarintEnds(v \o data)
    BY <1>1, <1>4
  <2>2. i = Len(v) /\ SubSeq(v \o data, 1, i) = v /\ After(v \o data, i) = data
    BY <1>1, <2>1, EndFound
  <2> QED BY <1>1, <2>2
<1>6. VarintValue(v) = Len(data)
  BY <1>1 DEF Encodes
<1>7. i \in 1..Len(u)
  BY DEF VarintEnds
<1> HIDE DEF u, w
<1>8. /\ VarintValue(SubSeq(u, 1, i)) = Len(data)
      /\ Len(w) = i + Len(data) /\ i \in 1..n
      /\ n = Len(w) => After(u, i) = data
  <2>1. SubSeq(u, 1, i) = v
    BY <1>4, <1>5
  <2>2. VarintValue(SubSeq(u, 1, i)) = Len(data)
    BY <1>6, <2>1, Zenon
  <2>3. n = Len(w) => After(u, i) = data
    BY <1>3, <1>5
  <2> QED BY <1>2, <1>3, <1>5, <1>7, <2>2, <2>3
<1> QED BY <1>8 DEF u, w

\* The chunks of a message, each a piece of it after the channel's id.
LEMMA ChunksAre ==
    ASSUME NEW id \in Channels, NEW data \in Seq(Byte)
    PROVE  LET s == Wire(data)
               all == Chunks(id, data)
           IN  /\ s \in Seq(Byte) /\ Len(all) \in Nat \ {0} /\ all \in Seq(Seq(Byte) \ {<<>>})
               /\ Cut(id, s, 0) = 0 /\ Cut(id, s, Len(all)) = Len(s)
               /\ \A k \in 0..(Len(all) - 1) :
                    /\ Cut(id, s, k) \in 0..Len(s) /\ Cut(id, s, k + 1) \in 0..Len(s)
                    /\ Cut(id, s, k) < Cut(id, s, k + 1)
                    /\ all[k + 1] = Varint(id) \o SubSeq(s, Cut(id, s, k) + 1, Cut(id, s, k + 1))
<1> DEFINE s == Wire(data)
           all == Chunks(id, data)
           chunk(k) == Varint(id) \o SubSeq(s, Cut(id, s, k - 1) + 1, Cut(id, s, k))
<1>1. s \in Seq(Byte) /\ Len(s) >= 1 /\ all \in Seq(Seq(Byte) \ {<<>>}) /\ all = Chunked(id, s)
  BY ChunksTyped DEF Wire, Chunks
<1> HIDE DEF s, all
<1>2. PICK n \in Nat \ {0} :
             /\ Chunked(id, s) = [k \in 1..n |-> chunk(k)]
             /\ Cut(id, s, 0) = 0 /\ Cut(id, s, n) = Len(s)
             /\ \A k \in 1..n : /\ Cut(id, s, k - 1) \in 0..Len(s) /\ Cut(id, s, k) \in 0..Len(s)
                                /\ Cut(id, s, k - 1) < Cut(id, s, k)
  BY <1>1, ChunkedPieces
<1> HIDE DEF chunk
<1>3. Len(all) = n
  BY <1>1, <1>2
<1>4. ASSUME NEW k \in 0..(n - 1)
      PROVE  /\ Cut(id, s, k) \in 0..Len(s) /\ Cut(id, s, k + 1) \in 0..Len(s)
             /\ Cut(id, s, k) < Cut(id, s, k + 1)
             /\ all[k + 1] = Varint(id) \o SubSeq(s, Cut(id, s, k) + 1, Cut(id, s, k + 1))
  <2>1. k + 1 \in 1..n /\ (k + 1) - 1 = k
    BY <1>2
  <2>2. all[k + 1] = chunk(k + 1)
    BY <1>1, <1>2, <2>1
  <2>3. all[k + 1] = Varint(id) \o SubSeq(s, Cut(id, s, (k + 1) - 1) + 1, Cut(id, s, k + 1))
    BY <2>2, Zenon DEF chunk
  <2>4. /\ Cut(id, s, (k + 1) - 1) \in 0..Len(s) /\ Cut(id, s, k + 1) \in 0..Len(s)
        /\ Cut(id, s, (k + 1) - 1) < Cut(id, s, k + 1)
    BY <1>2, <2>1
  <2>5. Cut(id, s, (k + 1) - 1) = Cut(id, s, k)
    BY <2>1, Zenon
  <2> QED BY <2>3, <2>4, <2>5
<1> QED BY <1>1, <1>2, <1>3, <1>4 DEF s, all

SentMessage == [channel : Channels, data : Messages]

Holding(cs, id) == IF id \in DOMAIN cs THEN cs[id] ELSE Idle

\* Everything sent has been told, and nothing has come since.
Quiet ==
    /\ received = sent /\ frag = <<>> /\ outgoing = <<>>
    /\ \A c \in DOMAIN chans : ~Unfinished(c)

\* All but the last message sent has been told.  Of that k chunks have been read
\* and n bytes used: the rest of the last chunk is the fragment, the chunks after
\* it are still to come, and its channel is in the middle of it.
OnTheWay ==
    \E m \in SentMessage :
        LET s == Wire(m.data)
            all == Chunks(m.channel, m.data)
        IN  /\ sent = Append(received, m)
            /\ \E k \in 0..Len(all) :
                 /\ outgoing = After(all, k)
                 /\ \E n \in 0..Cut(m.channel, s, k) :
                      /\ frag = SubSeq(s, n + 1, Cut(m.channel, s, k))
                      /\ InMiddle(Holding(chans, m.channel), SubSeq(s, 1, n))
            /\ frag # <<>> => channel = m.channel
            /\ \A c \in DOMAIN chans : c # m.channel => ~Unfinished(c)

Underway ==
    IF octets THEN in_octet /\ producer = "mux_send" => received \in Seq(SentMessage) /\ (Quiet \/ OnTheWay)
    ELSE sent = <<>> /\ received = <<>> /\ outgoing = <<>>

\* The parts of OnTheWay, named.
Way(m, k, n) ==
    /\ sent = Append(received, m)
    /\ outgoing = After(Chunks(m.channel, m.data), k)
    /\ frag = SubSeq(Wire(m.data), n + 1, Cut(m.channel, Wire(m.data), k))
    /\ InMiddle(Holding(chans, m.channel), SubSeq(Wire(m.data), 1, n))
    /\ frag # <<>> => channel = m.channel
    /\ \A c \in DOMAIN chans : c # m.channel => ~Unfinished(c)

\* OnTheWay in those terms.
LEMMA OnTheWayIs ==
    OnTheWay <=> \E m \in SentMessage : \E k \in 0..Len(Chunks(m.channel, m.data)) :
                    \E n \in 0..Cut(m.channel, Wire(m.data), k) : Way(m, k, n)
BY DEF OnTheWay, Way

\* Where such a message is.
LEMMA WayTyped ==
    ASSUME NEW m \in SentMessage, NEW k \in 0..Len(Chunks(m.channel, m.data)), NEW n \in 0..Cut(m.channel, Wire(m.data), k)
    PROVE  /\ m.channel \in Channels /\ m.data \in Seq(Byte) /\ Wire(m.data) \in Seq(Byte)
           /\ Len(Wire(m.data)) \in Nat /\ Cut(m.channel, Wire(m.data), k) \in 0..Len(Wire(m.data))
           /\ n \in 0..Len(Wire(m.data)) /\ n \in Nat /\ k \in Nat
           /\ Len(Chunks(m.channel, m.data)) \in Nat \ {0}
           /\ k # Len(Chunks(m.channel, m.data)) => /\ Cut(m.channel, Wire(m.data), k) < Len(Wire(m.data))
                                                    /\ k + 1 \in 0..Len(Chunks(m.channel, m.data))
           /\ k = Len(Chunks(m.channel, m.data)) => Cut(m.channel, Wire(m.data), k) = Len(Wire(m.data))
<1> DEFINE s == Wire(m.data)
           all == Chunks(m.channel, m.data)
           id == m.channel
<1>1. id \in Channels /\ m.data \in Seq(Byte)
  BY MuxAssumption DEF SentMessage
<1>2. /\ s \in Seq(Byte) /\ Len(all) \in Nat \ {0} /\ Len(s) \in Nat
      /\ Cut(id, s, 0) = 0 /\ Cut(id, s, Len(all)) = Len(s)
      /\ \A j \in 0..(Len(all) - 1) :
                    /\ Cut(id, s, j) \in 0..Len(s) /\ Cut(id, s, j + 1) \in 0..Len(s)
                    /\ Cut(id, s, j) < Cut(id, s, j + 1)
  BY <1>1, ChunksAre, LengthOf
<1> HIDE DEF s, all
<1>5. k \in 0..Len(all) /\ n \in 0..Cut(id, s, k)
  BY DEF s, all
<1> HIDE DEF id
<1>3. CASE k = Len(all)
  BY <1>1, <1>2, <1>3, <1>5 DEF s, all, id
<1>4. CASE k # Len(all)
  <2>1. k \in 0..(Len(all) - 1) /\ k \in Nat /\ k + 1 \in 0..Len(all)
    BY <1>2, <1>4, <1>5
  <2>2. Cut(id, s, k) \in 0..Len(s) /\ Cut(id, s, k) < Len(s)
    <3>1. /\ Cut(id, s, k) \in 0..Len(s) /\ Cut(id, s, k + 1) \in 0..Len(s)
          /\ Cut(id, s, k) < Cut(id, s, k + 1)
      BY <1>2, <2>1
    <3> QED BY <1>2, <3>1
  <2>3. n \in Nat /\ n \in 0..Len(s)
    BY <1>2, <1>5, <2>2
  <2> QED BY <1>1, <1>2, <1>4, <2>1, <2>2, <2>3 DEF s, all, id
<1> QED BY <1>3, <1>4

\* A message cannot all have been used and none told.
LEMMA NeverStuck == IInv /\ OnTheWay => ~(frag = <<>> /\ outgoing = <<>>)
<1> SUFFICES ASSUME IInv, OnTheWay, frag = <<>>, outgoing = <<>> PROVE FALSE
  OBVIOUS
<1>1. PICK m \in SentMessage : \E k \in 0..Len(Chunks(m.channel, m.data)) :
                    \E n \in 0..Cut(m.channel, Wire(m.data), k) : Way(m, k, n)
  BY OnTheWayIs
<1>9. PICK k \in 0..Len(Chunks(m.channel, m.data)) : \E n \in 0..Cut(m.channel, Wire(m.data), k) : Way(m, k, n)
  BY <1>1
<1>2. PICK n \in 0..Cut(m.channel, Wire(m.data), k) : Way(m, k, n)
  BY <1>9
<1> DEFINE s == Wire(m.data)
           all == Chunks(m.channel, m.data)
           c == Holding(chans, m.channel)
           v == Varint(Len(m.data))
<1>3. /\ m.channel \in Channels /\ m.data \in Seq(Byte) /\ s \in Seq(Byte) /\ Len(s) \in Nat
      /\ Cut(m.channel, s, k) \in 0..Len(s) /\ n \in 0..Len(s) /\ k \in Nat /\ Len(all) \in Nat \ {0}
      /\ all \in Seq(Seq(Byte) \ {<<>>})
      /\ k = Len(all) => Cut(m.channel, s, k) = Len(s)
  BY WayTyped, ChunksAre
<1>4. k = Len(all)
  <2>1. After(all, k) = <<>>
    BY <1>2 DEF Way
  <2> DEFINE a == all
  <2>2. k \in 0..Len(a) /\ a \in Seq(Seq(Byte) \ {<<>>}) /\ SubSeq(a, k + 1, Len(a)) = <<>>
    BY <1>3, <2>1 DEF After
  <2> HIDE DEF a
  <2>3. Len(SubSeq(a, k + 1, Len(a))) = Len(a) - k
    BY <2>2, TailOf
  <2>4. Len(a) - k = 0 /\ Len(a) \in Nat
    BY <2>2, <2>3, Len(<<>>) = 0, LengthOf
  <2>5. Len(a) = k
    BY <1>3, <2>4
  <2> QED BY <2>5 DEF a
<1>5. n = Len(s)
  <2> DEFINE t == s
  <2>1. t \in Seq(Byte) /\ n \in 0..Len(t) /\ Len(t) \in Nat /\ SubSeq(t, n + 1, Len(t)) = <<>>
    BY <1>2, <1>3, <1>4 DEF Way
  <2> HIDE DEF t
  <2>2. Len(SubSeq(t, n + 1, Len(t))) = Len(t) - n
    BY <2>1, TailOf
  <2>3. Len(t) - n = 0
    BY <2>1, <2>2, Len(<<>>) = 0
  <2>4. n = Len(t)
    BY <2>1, <2>3
  <2> QED BY <2>4 DEF t
<1>6. SubSeq(s, 1, n) = s /\ InMiddle(c, SubSeq(s, 1, n))
  <2>1. \A q \in Seq(Byte) : SubSeq(q, 1, Len(q)) = q
    OBVIOUS
  <2> QED BY <1>2, <1>3, <1>5, <2>1 DEF Way
<1>7. CASE c.active
  <2>1. m.channel \in DOMAIN chans /\ c = chans[m.channel]
    BY <1>7 DEF Holding, Idle
  <2>2. c \in Partial /\ PartBounded(c)
    BY <2>1 DEF IInv, TypeOK, ChannelsBounded
  <2>3. PICK i \in VarintEnds(SubSeq(s, 1, n)) :
            c.need = VarintValue(SubSeq(SubSeq(s, 1, n), 1, i)) /\ c.buf = After(SubSeq(s, 1, n), i)
    BY <1>6, <1>7 DEF InMiddle
  <2>4. c.need = Len(m.data) /\ c.buf = m.data
    BY <1>3, <1>5, <2>3, WireFound
  <2>5. Len(c.buf) < c.need /\ Len(m.data) \in Nat
    BY <1>3, <1>7, <2>2, LengthOf DEF PartBounded
  <2> QED BY <2>4, <2>5
<1>8. CASE ~c.active
  <2>1. \A i \in 1..Len(s) : More(s[i])
    BY <1>6, <1>8 DEF InMiddle
  <2>2. v \in Seq(Byte) /\ Len(v) \in Nat /\ Len(v) >= 1 /\ ~More(v[Len(v)])
    BY <1>3, VarintEncodes, LengthOf DEF Encodes
  <2>3. s = v \o m.data
    BY DEF Wire
  <2> HIDE DEF v, s
  <2>4. Len(s) = Len(v) + Len(m.data) /\ Len(m.data) \in Nat /\ \A i \in 1..Len(v) : s[i] = v[i]
    BY <1>3, <2>2, <2>3, JoinOf, LengthOf
  <2>5. Len(v) \in 1..Len(v) /\ Len(v) \in 1..Len(s)
    BY <2>2, <2>4
  <2> QED BY <2>1, <2>2, <2>4, <2>5
<1> QED BY <1>7, <1>8

\* A channel with nothing unfinished is in the middle of nothing.
LEMMA IdleHolds ==
    ASSUME NEW id, id \in DOMAIN chans => ~Unfinished(id)
    PROVE  InMiddle(Holding(chans, id), <<>>)
<1>1. ~Holding(chans, id).active /\ Holding(chans, id).lvbuf = <<>>
  BY DEF Holding, Unfinished, Idle
<1> QED BY <1>1, FreshTold

\* bvnr_mux_send: the message before has been told.
LEMMA SendUnderway ==
    ASSUME IInv, Underway, NEW id \in Channels, NEW data \in Messages, Send(id, data)
    PROVE  Underway'
<1> DEFINE m == [channel |-> id, data |-> data]
           all == Chunks(id, data)
<1>1. /\ octets /\ frag = <<>> /\ outgoing = <<>> /\ producer = "mux_send"
      /\ outgoing' = all /\ sent' = Append(sent, m)
      /\ UNCHANGED <<octets, in_octet, chans, frag, channel, producer, received>>
  BY DEF Send, Expecting, vars, document, demux, feeding
<1>2. CASE ~in_octet
  BY <1>1, <1>2 DEF Underway
<1>3. CASE in_octet
  <2>1. Quiet /\ received \in Seq(SentMessage)
    BY <1>1, <1>3, NeverStuck DEF Underway
  <2>2. m \in SentMessage /\ m.channel = id /\ m.data = data /\ data \in Seq(Byte)
    BY MuxAssumption DEF SentMessage
  <2> HIDE DEF m
  <2>3. /\ all \in Seq(Seq(Byte) \ {<<>>}) /\ Len(all) \in Nat \ {0} /\ Cut(id, Wire(data), 0) = 0
        /\ Wire(data) \in Seq(Byte)
    BY <2>2, ChunksAre
  <2> HIDE DEF all
  <2>4. all = After(all, 0) /\ 0 \in 0..Len(all) /\ 0 \in 0..Cut(id, Wire(data), 0)
    <3>1. \A q \in Seq(Seq(Byte) \ {<<>>}) : SubSeq(q, 0 + 1, Len(q)) = q
      OBVIOUS
    <3> QED BY <2>3, <3>1 DEF After
  <2>5. SubSeq(Wire(data), 0 + 1, 0) = <<>> /\ SubSeq(Wire(data), 1, 0) = <<>>
    BY <2>3
  <2>6. InMiddle(Holding(chans, id), <<>>)
    BY <2>1, IdleHolds DEF Quiet
  <2>7. Way(m, 0, 0)'
    <3>1. sent' = Append(received', m)
      BY <1>1, <2>1 DEF Quiet
    <3>2. outgoing' = After(Chunks(m.channel, m.data), 0)
      BY <1>1, <2>2, <2>4 DEF all
    <3>3. frag' = SubSeq(Wire(m.data), 0 + 1, Cut(m.channel, Wire(m.data), 0)) /\ frag' = <<>>
      BY <1>1, <2>2, <2>3, <2>5
    <3>4. InMiddle(Holding(chans', m.channel), SubSeq(Wire(m.data), 1, 0))
      BY <1>1, <2>2, <2>5, <2>6
    <3>5. \A c \in DOMAIN chans' : c # m.channel => ~Unfinished(c)'
      BY <1>1, <2>1 DEF Quiet, Unfinished
    <3> QED BY <3>1, <3>2, <3>3, <3>4, <3>5 DEF Way
  <2>8. /\ 0 \in 0..Len(Chunks(m.channel, m.data)) /\ 0 \in 0..Cut(m.channel, Wire(m.data), 0)
    BY <2>2, <2>4 DEF all
  <2>9. OnTheWay'
    <3>1. OnTheWay' <=> \E m1 \in SentMessage : \E k \in 0..Len(Chunks(m1.channel, m1.data)) :
                    \E n \in 0..Cut(m1.channel, Wire(m1.data), k) : Way(m1, k, n)'
      BY DEF OnTheWay, Way
    <3> QED BY <2>2, <2>7, <2>8, <3>1
  <2> QED BY <1>1, <2>1, <2>9 DEF Underway
<1> QED BY <1>2, <1>3

\* A stream begins with nothing sent.
LEMMA BeginUnderway == ~ReusedAfterFailure /\ IInv /\ Underway /\ Begin => Underway'
<1> SUFFICES ASSUME ~ReusedAfterFailure, IInv, Underway, Begin PROVE Underway'
  OBVIOUS
<1>1. /\ ~octets /\ reading /\ frag = <<>> /\ octets'
      /\ UNCHANGED <<chans, frag, outgoing, sent, received>>
  BY DEF Begin, OctetStreamStart, Elsewhere, Expecting
<1>2. sent = <<>> /\ received = <<>> /\ outgoing = <<>>
  BY <1>1 DEF Underway
<1>3. \A c \in DOMAIN chans : ~Unfinished(c)
  BY <1>1 DEF IInv, Clean
<1>4. Quiet' /\ received' \in Seq(SentMessage)
  BY <1>1, <1>2, <1>3 DEF Quiet, Unfinished
<1> QED BY <1>1, <1>4 DEF Underway

\* The next chunk of the message, on its channel.
LEMMA TakeUnderway == IInv /\ Underway /\ Take /\ reading' => Underway'
<1> SUFFICES ASSUME IInv, Underway, Take, reading' PROVE Underway'
  OBVIOUS
<1>1. PICK p \in Deliverable : Chunk(p)
  BY DEF Take
<1>2. /\ UNCHANGED <<in_octet, producer, sent, received>> /\ octets /\ frag = <<>>
      /\ outgoing' = IF producer = "mux_send" THEN Tail(outgoing) ELSE outgoing
      /\ octets'
  BY <1>1 DEF Take, Chunk, Expecting, document, Abort
<1>3. CASE ~(in_octet /\ producer = "mux_send")
  BY <1>2, <1>3 DEF Underway
<1>4. CASE in_octet /\ producer = "mux_send"
  <2>1. outgoing # <<>> /\ p = outgoing[1]
    BY <1>1, <1>4 DEF Deliverable
  <2>2. received \in Seq(SentMessage) /\ OnTheWay
    BY <1>2, <1>4, <2>1 DEF Underway, Quiet
  <2>3. PICK m \in SentMessage : \E k \in 0..Len(Chunks(m.channel, m.data)) :
                    \E n \in 0..Cut(m.channel, Wire(m.data), k) : Way(m, k, n)
    BY <2>2, OnTheWayIs
  <2>4. PICK k \in 0..Len(Chunks(m.channel, m.data)) : \E n \in 0..Cut(m.channel, Wire(m.data), k) : Way(m, k, n)
    BY <2>3
  <2>5. PICK n \in 0..Cut(m.channel, Wire(m.data), k) : Way(m, k, n)
    BY <2>4
  <2> DEFINE s == Wire(m.data)
             all == Chunks(m.channel, m.data)
             id == m.channel
             v == Varint(id)
             piece == SubSeq(s, Cut(id, s, k) + 1, Cut(id, s, k + 1))
  <2>6. /\ id \in Channels /\ s \in Seq(Byte) /\ Len(s) \in Nat /\ Cut(id, s, k) \in 0..Len(s)
        /\ n \in 0..Len(s) /\ k \in Nat /\ Len(all) \in Nat \ {0} /\ all \in Seq(Seq(Byte) \ {<<>>})
        /\ k # Len(all) => k + 1 \in 0..Len(all)
    BY WayTyped, ChunksAre
  <2>7. /\ outgoing = After(all, k) /\ frag = SubSeq(s, n + 1, Cut(id, s, k))
        /\ sent = Append(received, m) /\ InMiddle(Holding(chans, id), SubSeq(s, 1, n))
        /\ \A c \in DOMAIN chans : c # id => ~Unfinished(c)
    BY <2>5 DEF Way
  <2>8. k \in 0..(Len(all) - 1) /\ k + 1 \in 0..Len(all)
        /\ outgoing[1] = all[k + 1] /\ Tail(outgoing) = After(all, k + 1)
    <3> DEFINE a == all
    <3>1. /\ k \in 0..Len(a) /\ a \in Seq(Seq(Byte) \ {<<>>}) /\ outgoing = SubSeq(a, k + 1, Len(a)) /\ Len(a) \in Nat
          /\ k \in Nat
      BY <2>6, <2>7 DEF After
    <3> HIDE DEF a
    <3>2. /\ outgoing \in Seq(Seq(Byte) \ {<<>>}) /\ Len(outgoing) = Len(a) - k
          /\ \A i \in 1..(Len(a) - k) : outgoing[i] = a[k + i]
      BY <3>1, TailOf
    <3>3. k # Len(a)
      <4>1. Len(outgoing) # 0
        BY <2>1, <3>2
      <4> QED BY <3>1, <3>2, <4>1
    <3>4. k \in 0..(Len(a) - 1) /\ k + 1 \in 0..Len(a) /\ 1 \in 1..(Len(a) - k)
      BY <3>1, <3>3
    <3>5. outgoing[1] = a[k + 1]
      BY <3>2, <3>4
    <3>6. Tail(outgoing) = SubSeq(a, (k + 1) + 1, Len(a))
      <4> DEFINE x == Tail(outgoing)
                 y == SubSeq(a, (k + 1) + 1, Len(a))
      <4>1. /\ x \in Seq(Seq(Byte) \ {<<>>}) /\ Len(x) = Len(outgoing) - 1
            /\ \A i \in 1..(Len(outgoing) - 1) : x[i] = outgoing[i + 1]
        BY <2>1, <3>2
      <4>2. /\ y \in Seq(Seq(Byte) \ {<<>>}) /\ Len(y) = Len(a) - (k + 1)
            /\ \A i \in 1..(Len(a) - (k + 1)) : y[i] = a[(k + 1) + i]
        BY <3>1, <3>4, TailOf
      <4> HIDE DEF x, y
      <4>3. Len(x) = Len(y)
        BY <3>1, <3>2, <4>1, <4>2
      <4>4. ASSUME NEW i \in 1..Len(x) PROVE x[i] = y[i]
        <5>1. /\ i \in 1..(Len(outgoing) - 1) /\ i + 1 \in 1..(Len(a) - k) /\ i \in 1..(Len(a) - (k + 1))
              /\ k + (i + 1) = (k + 1) + i
          <6>1. \A l, j \in Nat : \A q \in 1..((l - j) - 1) :
                  q + 1 \in 1..(l - j) /\ q \in 1..(l - (j + 1)) /\ j + (q + 1) = (j + 1) + q
            OBVIOUS
          <6>2. i \in 1..((Len(a) - k) - 1) /\ i \in 1..(Len(outgoing) - 1)
            BY <3>2, <4>1
          <6> QED BY <3>1, <6>1, <6>2
        <5> QED BY <3>2, <4>1, <4>2, <5>1
      <4>5. x = y
        BY <4>1, <4>2, <4>3, <4>4, SameOf
      <4> QED BY <4>5 DEF x, y
    <3> QED BY <3>4, <3>5, <3>6 DEF a, After
  <2>9. /\ p = v \o piece /\ Cut(id, s, k + 1) \in 0..Len(s) /\ Cut(id, s, k) < Cut(id, s, k + 1)
    <3>1. m.data \in Seq(Byte)
      BY WayTyped
    <3> QED BY <2>1, <2>6, <2>8, <3>1, ChunksAre
  <2>10. n = Cut(id, s, k)
    <3> HIDE DEF s
    <3>1. Cut(id, s, k) \in n..Len(s) /\ n \in 0..Len(s)
      BY <2>6 DEF s
    <3>2. Len(SubSeq(s, n + 1, Cut(id, s, k))) = Cut(id, s, k) - n
      BY <2>6, <3>1, PieceOf
    <3>3. Cut(id, s, k) - n = 0
      BY <1>2, <2>7, <3>2, Len(<<>>) = 0
    <3> QED BY <2>6, <3>1, <3>3
  <2>11. /\ piece \in Seq(Byte) /\ piece = SubSeq(s, n + 1, Cut(id, s, k + 1)) /\ piece # <<>>
    <3> HIDE DEF s
    <3>1. Cut(id, s, k) \in 0..Len(s) /\ Cut(id, s, k + 1) \in Cut(id, s, k)..Len(s)
      BY <2>6, <2>9
    <3>2. piece \in Seq(Byte) /\ Len(piece) = Cut(id, s, k + 1) - Cut(id, s, k)
      BY <2>6, <3>1, PieceOf
    <3>3. Len(piece) # 0
      BY <2>6, <2>9, <3>2
    <3> QED BY <2>10, <3>2, <3>3, Len(<<>>) = 0
  <2>12. Encodes(v, id)
    BY <2>6, MuxAssumption, VarintEncodes
  <2> HIDE DEF s, all, v, piece, id
  <2>13. ASSUME NEW i \in VarintEnds(p) PROVE VarintValue(SubSeq(p, 1, i)) = id /\ SubSeq(p, i + 1, Len(p)) = piece
    <3>1. SubSeq(p, 1, i) = v /\ After(p, i) = piece
      <4>1. i \in VarintEnds(v \o piece) /\ p = v \o piece /\ piece \in Seq(Byte)
        BY <2>9, <2>11
      <4>2. SubSeq(v \o piece, 1, i) = v /\ After(v \o piece, i) = piece
        BY <2>12, <4>1, EndFound
      <4> QED BY <4>1, <4>2
    <3>2. VarintValue(v) = id
      BY <2>12 DEF Encodes
    <3>3. VarintValue(SubSeq(p, 1, i)) = id
      BY <3>1, <3>2, Zenon
    <3> QED BY <3>1, <3>3 DEF After
  <2>14. /\ chans' = IF id \in DOMAIN chans THEN chans ELSE NewChannel(id)
         /\ frag' = piece /\ channel' = id
    <3>1. PICK i \in VarintEnds(p) :
            LET id2 == VarintValue(SubSeq(p, 1, i))
                rest == SubSeq(p, i + 1, Len(p))
            IN  /\ chans' = IF id2 \in DOMAIN chans THEN chans ELSE NewChannel(id2)
                /\ frag' = rest
                /\ channel' = IF rest = <<>> THEN 0 ELSE id2
      BY <1>1, <1>4 DEF Chunk, Abort
    <3>2. VarintValue(SubSeq(p, 1, i)) = id /\ SubSeq(p, i + 1, Len(p)) = piece
      BY <2>13
    <3> QED BY <2>11, <3>1, <3>2
  <2>15. Holding(chans', id) = Holding(chans, id)
    BY <2>14 DEF Holding, NewChannel
  <2>16. \A c \in DOMAIN chans' : c # id => ~Unfinished(c)'
    <3> SUFFICES ASSUME NEW c \in DOMAIN chans', c # id PROVE ~Unfinished(c)'
      OBVIOUS
    <3>1. c \in DOMAIN chans /\ chans'[c] = chans[c]
      BY <2>14 DEF NewChannel
    <3> QED BY <2>7, <3>1 DEF Unfinished
  <2>17. Way(m, k + 1, n)'
    BY <1>2, <1>4, <2>7, <2>8, <2>11, <2>14, <2>15, <2>16 DEF Way, s, all, id
  <2>18. k + 1 \in 0..Len(Chunks(m.channel, m.data)) /\ n \in 0..Cut(m.channel, Wire(m.data), k + 1)
    BY <2>6, <2>8, <2>9, <2>10 DEF all, s, id
  <2>19. OnTheWay'
    <3>1. OnTheWay' <=> \E m1 \in SentMessage : \E k1 \in 0..Len(Chunks(m1.channel, m1.data)) :
                    \E n1 \in 0..Cut(m1.channel, Wire(m1.data), k1) : Way(m1, k1, n1)'
      BY DEF OnTheWay, Way
    <3> QED BY <2>17, <2>18, <3>1
  <2> QED BY <1>2, <2>2, <2>19 DEF Underway
<1> QED BY <1>3, <1>4

\* Bytes of the message used; the last of them make it whole.
LEMMA FeedUnderway == IInv /\ Underway /\ Feed /\ reading' => Underway'
<1> SUFFICES ASSUME IInv, Underway, Feed, reading' PROVE Underway'
  OBVIOUS
<1>1. /\ FeedNext /\ UNCHANGED <<producer, outgoing, sent>> /\ received' = received \o told'
  BY DEF Feed
<1>2. Feeding
  BY <1>1 DEF FeedNext, LengthByte, MessageBytes, AllocFails
<1>3. /\ octets /\ in_octet /\ channel \in DOMAIN chans /\ Current = chans[channel]
      /\ frag \in Seq(Byte) /\ Len(frag) \in Nat /\ frag # <<>>
  BY <1>2, FeedingWhere DEF Feeding
<1>4. ASSUME octets' = octets, in_octet' = in_octet, producer # "mux_send" PROVE Underway'
  BY <1>1, <1>3, <1>4 DEF Underway
<1>5. octets' = octets /\ in_octet' = in_octet
  BY <1>1 DEF FeedNext, LengthByte, MessageBytes, AllocFails, Deliver, Abort, document
<1>6. CASE producer = "mux_send"
  <2>2. received \in Seq(SentMessage) /\ OnTheWay
    BY <1>3, <1>6 DEF Underway, Quiet
  <2>3. PICK m \in SentMessage : \E k \in 0..Len(Chunks(m.channel, m.data)) :
                    \E n \in 0..Cut(m.channel, Wire(m.data), k) : Way(m, k, n)
    BY <2>2, OnTheWayIs
  <2>4. PICK k \in 0..Len(Chunks(m.channel, m.data)) : \E n \in 0..Cut(m.channel, Wire(m.data), k) : Way(m, k, n)
    BY <2>3
  <2>5. PICK n \in 0..Cut(m.channel, Wire(m.data), k) : Way(m, k, n)
    BY <2>4
  <2> DEFINE s == Wire(m.data)
             all == Chunks(m.channel, m.data)
             id == m.channel
             c == Cut(id, s, k)
             r == SubSeq(s, 1, n)
  <2>6. /\ id \in Channels /\ s \in Seq(Byte) /\ Len(s) \in Nat /\ c \in 0..Len(s) /\ m.data \in Seq(Byte)
        /\ n \in 0..Len(s) /\ n \in 0..c /\ k \in Nat /\ Len(all) \in Nat \ {0} /\ all \in Seq(Seq(Byte) \ {<<>>})
        /\ k # Len(all) => c < Len(s)
    BY WayTyped, ChunksAre
  <2>7. /\ outgoing = After(all, k) /\ frag = SubSeq(s, n + 1, c)
        /\ sent = Append(received, m) /\ InMiddle(Holding(chans, id), r)
        /\ channel = id
        /\ \A x \in DOMAIN chans : x # id => ~Unfinished(x)
    BY <1>3, <2>5 DEF Way
  <2>8. r \in Seq(Byte) /\ InMiddle(Current, r)
    <3> HIDE DEF s
    <3>1. r \in Seq(Byte)
      BY <2>6, HeadOf
    <3> QED BY <1>3, <2>7, <3>1 DEF Holding
  <2>9. PICK j \in 1..Len(frag) : Advances(j, r)
    BY <1>1, <2>8, FeedStep
  <2>10. /\ Len(frag) = c - n /\ j \in 0..(c - n) /\ n + j \in 0..c /\ n + j \in 0..Len(s)
         /\ After(frag, j) = SubSeq(s, (n + j) + 1, c)
         /\ r \o SubSeq(frag, 1, j) = SubSeq(s, 1, n + j)
    <3> DEFINE t == s
    <3>1. t \in Seq(Byte) /\ c \in 0..Len(t) /\ n \in 0..c /\ Len(t) \in Nat /\ frag = SubSeq(t, n + 1, c)
      BY <2>6, <2>7
    <3> HIDE DEF t, c
    <3>2. Len(frag) = c - n
      <4>1. n \in 0..Len(t) /\ c \in n..Len(t)
        BY <3>1
      <4> QED BY <3>1, <4>1, PieceOf
    <3>3. j \in 0..(c - n) /\ n + j \in 0..c /\ n + j \in 0..Len(t)
      BY <3>1, <3>2
    <3>4. /\ SubSeq(frag, j + 1, Len(frag)) = SubSeq(t, n + j + 1, c)
          /\ SubSeq(t, 1, n) \o SubSeq(frag, 1, j) = SubSeq(t, 1, n + j)
      BY <3>1, <3>3, PieceUsed, SMTT(20)
    <3> QED BY <3>2, <3>3, <3>4 DEF t, After
  <2> HIDE DEF r
  <2>11. /\ frag' = SubSeq(s, (n + j) + 1, c) /\ channel' = IF j = Len(frag) THEN 0 ELSE channel
         /\ DOMAIN chans' = DOMAIN chans /\ \A x \in DOMAIN chans : x # id => chans'[x] = chans[x]
         /\ \/ told' = <<>> /\ InMiddle(chans'[id], SubSeq(s, 1, n + j))
            \/ \E data \in Seq(Byte) : /\ told' = <<[channel |-> id, data |-> data]>>
                                       /\ Frame(SubSeq(s, 1, n + j), data) /\ chans'[id] = Idle
    BY <2>7, <2>9, <2>10 DEF Advances
  <2>12. \A x \in DOMAIN chans' : x # id => ~Unfinished(x)'
    BY <2>7, <2>11 DEF Unfinished
  <2>13. id \in DOMAIN chans' /\ Holding(chans', id) = chans'[id]
    BY <1>3, <2>7, <2>11 DEF Holding
  <2>14. CASE told' = <<>> /\ InMiddle(chans'[id], SubSeq(s, 1, n + j))
    <3>1. received' = received
      BY <1>1, <2>2, <2>14
    <3>2. frag' # <<>> => channel' = id
      <4> SUFFICES ASSUME channel' # id PROVE frag' = <<>>
        OBVIOUS
      <4>1. j = Len(frag)
        BY <2>7, <2>11
      <4>2. n + j = c /\ c \in Nat
        BY <2>6, <2>10, <4>1
      <4>3. frag' = SubSeq(s, c + 1, c)
        BY <2>11, <4>2
      <4> HIDE DEF s, c
      <4> QED BY <2>6, <4>2, <4>3
    <3>3. Way(m, k, n + j)'
      BY <1>1, <2>7, <2>11, <2>12, <2>13, <2>14, <3>1, <3>2 DEF Way
    <3>4. OnTheWay'
      <4>1. OnTheWay' <=> \E m1 \in SentMessage : \E k1 \in 0..Len(Chunks(m1.channel, m1.data)) :
                    \E n1 \in 0..Cut(m1.channel, Wire(m1.data), k1) : Way(m1, k1, n1)'
        BY DEF OnTheWay, Way
      <4>2. n + j \in 0..Cut(m.channel, Wire(m.data), k)
        BY <2>10
      <4> QED BY <3>3, <4>1, <4>2
    <3> QED BY <1>3, <1>5, <2>2, <3>1, <3>4 DEF Underway
  <2>15. ASSUME NEW data \in Seq(Byte), told' = <<[channel |-> id, data |-> data]>>,
                Frame(SubSeq(s, 1, n + j), data), chans'[id] = Idle
         PROVE  Underway'
    <3> DEFINE u == SubSeq(s, 1, n + j)
    <3>1. PICK i \in VarintEnds(u) : VarintValue(SubSeq(u, 1, i)) = Len(u) - i /\ data = After(u, i)
      BY <2>15 DEF Frame
    <3>2. Len(u) = n + j
      <4> HIDE DEF s
      <4> QED BY <2>6, <2>10, HeadOf
    <3>3. /\ VarintValue(SubSeq(u, 1, i)) = Len(m.data)
          /\ Len(s) = i + Len(m.data) /\ i \in 1..(n + j)
          /\ n + j = Len(s) => After(u, i) = m.data
      BY <2>6, <2>10, WireFound
    <3> HIDE DEF u
    <3>4. n + j = Len(s)
      <4>a. VarintValue(SubSeq(u, 1, i)) = Len(m.data) /\ VarintValue(SubSeq(u, 1, i)) = Len(u) - i
        BY <3>1, <3>3
      <4>b. Len(m.data) = Len(u) - i
        BY <4>a, Zenon
      <4>c. i \in 1..(n + j)
        BY <3>3
      <4>d. n + j \in 0..Len(s) /\ Len(s) \in Nat
        BY <2>6, <2>10
      <4> HIDE DEF s
      <4>e. n + j \in Nat
        BY <4>d
      <4>1. Len(m.data) = (n + j) - i /\ n + j \in Nat
        BY <4>b, <4>e, <3>2
      <4>2. i \in Nat
        BY <4>c, <4>e
      <4>3. i + ((n + j) - i) = n + j
        BY <4>1, <4>2
      <4> QED BY <3>3, <4>1, <4>3
    <3>5. data = m.data
      BY <3>1, <3>3, <3>4
    <3>6. c = Len(s) /\ k = Len(all)
      <4> HIDE DEF c, s, all
      <4>1. c = Len(s)
        BY <2>6, <2>10, <3>4
      <4> QED BY <2>6, <4>1
    <3>7. frag' = <<>> /\ outgoing' = <<>>
      <4>1. frag' = SubSeq(s, Len(s) + 1, Len(s)) /\ outgoing' = SubSeq(all, Len(all) + 1, Len(all))
        BY <1>1, <2>7, <2>11, <3>4, <3>6 DEF After
      <4> HIDE DEF s, all
      <4> QED BY <2>6, <4>1
    <3>8. received' = sent
      <4>1. [channel |-> id, data |-> data] = m
        BY <3>5 DEF SentMessage
      <4>2. told' = <<m>>
        BY <2>15, <4>1
      <4>3. received \o <<m>> = Append(received, m)
        BY <2>2
      <4> QED BY <1>1, <2>7, <4>2, <4>3
    <3>9. received' \in Seq(SentMessage)
      BY <2>2, <2>7, <3>8
    <3>10. \A x \in DOMAIN chans' : ~Unfinished(x)'
      BY <2>12, <2>15 DEF Unfinished, Idle
    <3>11. Quiet'
      BY <1>1, <3>7, <3>8, <3>10 DEF Quiet
    <3> QED BY <1>3, <1>5, <3>9, <3>11 DEF Underway
  <2> QED BY <2>11, <2>14, <2>15
<1> QED BY <1>4, <1>5, <1>6

\* No step leaves it.
LEMMA UnderwayKept == ~ReusedAfterFailure /\ IInv /\ IInv' /\ Underway /\ [MuxNext]_muxVars => Underway'
<1> SUFFICES ASSUME ~ReusedAfterFailure, IInv, IInv', Underway, [MuxNext]_muxVars PROVE Underway'
  OBVIOUS
<1>1. ASSUME ~octets', NoStream PROVE Underway'
  BY <1>1 DEF Underway, NoStream
<1>2. ASSUME ~octets, ~octets', UNCHANGED history PROVE Underway'
  BY <1>2 DEF Underway, history
<1>3. (~reading' => ~octets') /\ (~reading => ~octets)
  BY DEF IInv, ReadApart
<1>4. ASSUME NEW id \in Channels, NEW data \in Messages, Send(id, data) PROVE Underway'
  BY <1>4, SendUnderway
<1>5. CASE Begin
  BY <1>5, BeginUnderway
<1>6. CASE Feed
  BY <1>1, <1>3, <1>6, FeedUnderway DEF Feed
<1>7. CASE Take
  BY <1>1, <1>3, <1>7, TakeUnderway DEF Take
<1>8. CASE End
  BY <1>1, <1>8 DEF End, OctetStreamEnd
<1>9. CASE Elsewise
  <2>1. UNCHANGED <<octets, history>> /\ ~octets
    BY <1>9 DEF Elsewise, DocumentNext, Scalar, RowStart, RowEnd, StructStart, StructEnd, AssignmentStart,
                 Ignored, Elsewhere
  <2> QED BY <1>2, <2>1
<1>10. CASE Call
  <2>1. CASE reading
    <3>1. ReadEnds \/ ReadFails
      BY <1>10, <2>1 DEF Call, CallerNext, ReadBegins, Recreate, SetKey
    <3>2. ~reading' /\ NoStream
      BY <1>10, <2>1, <3>1 DEF Call, ReadEnds, ReadFails
    <3> QED BY <1>1, <1>3, <3>2
  <2>2. CASE ~reading
    <3>1. UNCHANGED <<octets, history>> /\ ~octets
      BY <1>3, <1>10, <2>2 DEF Call, CallerNext, ReadBegins, ReadEnds, ReadFails, Recreate, SetKey, document,
                               Elsewhere, Expecting
    <3> QED BY <1>2, <3>1
  <2> QED BY <2>1, <2>2
<1>11. CASE UNCHANGED muxVars
  BY <1>11 DEF muxVars, vars, document, demux, feeding, history, Underway, Quiet, OnTheWay, Unfinished
<1> QED BY <1>4, <1>5, <1>6, <1>7, <1>8, <1>9, <1>10, <1>11 DEF MuxNext

-----------------------------------------------------------------------------
(* The theorems.                                                           *)

\* In every state what is still to be read is chunks of bytes.
LEMMA OutgoingInvariance == MuxSpec => []OutgoingTyped
<1>1. MuxInit => OutgoingTyped
  BY DEF MuxInit, OutgoingTyped
<1> QED BY <1>1, OutgoingKept, PTL DEF MuxSpec

\* Both ends of a stream together do to the demultiplexer what it does in any
\* document, so all that Demux promises holds of them.
THEOREM MuxImplementsDemux == MuxSpec => Spec
<1>1. MuxInit => Init
  BY DEF MuxInit
<1>2. OutgoingTyped /\ [MuxNext]_muxVars => [DemuxNext]_vars
  BY DemuxStep DEF muxVars
<1> QED BY <1>1, <1>2, OutgoingInvariance, PTL DEF MuxSpec, Spec

\* What has been told of each channel, and what it is in the middle of.
THEOREM MuxInvariance == ASSUME ~ReusedAfterFailure PROVE MuxSpec => []MuxInv
<1>1. MuxInit => Told
  BY DEF MuxInit, Init, Told
<1>2. IInv /\ IInv' /\ Told /\ [MuxNext]_muxVars => Told'
  BY ToldKept
<1>3. MuxSpec => []IInv
  BY MuxImplementsDemux, DemuxInvariance, PTL
<1> QED BY <1>1, <1>2, <1>3, OutgoingInvariance, PTL DEF MuxSpec, MuxInv

\* However a channel's bytes are cut into chunks, of whatever size, and whatever
\* the other channels interleave, what demux_feed tells of the channel is the
\* messages its bytes are made of, each as soon as it is whole.
THEOREM MessagesAreTheStreams == ASSUME ~ReusedAfterFailure PROVE MuxSpec => []MessagesOfStream
<1>1. MuxInv => MessagesOfStream
  BY ToldFramed DEF MuxInv
<1> QED BY <1>1, MuxInvariance, PTL

\* A stream that ends with a message unfinished leaves an error behind.
THEOREM LossIsNeverSilent == ASSUME ~ReusedAfterFailure PROVE MuxSpec => LossIsLatched
<1>1. ASSUME MuxInv, End, in_octet, NEW c \in DOMAIN streams, LeftOver(streams[c]) PROVE error' = "truncated"
  <2>1. octets /\ LossLatched
    BY <1>1 DEF End, OctetStreamEnd
  <2>2. /\ c \in DOMAIN chans /\ Sound(streams[c]) /\ InMiddle(chans[c], Rest(streams[c]))
    BY <1>1, <2>1 DEF MuxInv, Told, ToldOf, Known
  <2> DEFINE st == streams[c]
             r == Rest(st)
  <2>3. Len(r) # 0
    <3> HIDE DEF st
    <3>1. /\ Ends(st.bytes)[Len(st.messages)] \in Len(st.messages)..Len(st.bytes)
          /\ Len(r) = Len(st.bytes) - Ends(st.bytes)[Len(st.messages)]
          /\ Len(st.bytes) \in Nat /\ Len(st.messages) \in Nat
      BY <2>2, RestTypedOf DEF st
    <3>2. Ends(st.bytes)[Len(st.messages)] # Len(st.bytes)
      BY <1>1 DEF LeftOver, st
    <3> HIDE DEF r
    <3> QED BY <3>1, <3>2
  <2> HIDE DEF r
  <2>4. r # <<>>
    BY <2>3, Len(<<>>) = 0
  <2>5. Unfinished(c)
    <3>1. InMiddle(chans[c], r)
      BY <2>2 DEF r
    <3> QED BY <2>4, <3>1 DEF InMiddle, Unfinished
  <2> QED BY <2>1, <2>2, <2>5 DEF LossLatched
<1>2. MuxInv /\ [MuxNext]_muxVars =>
        [End /\ in_octet /\ (\E c \in DOMAIN streams : LeftOver(streams[c])) => error' = "truncated"]_muxVars
  BY <1>1
<1> QED BY <1>2, MuxInvariance, PTL DEF MuxSpec, LossIsLatched

\* What mux_send sends arrives: cut into chunks that each go as a fragment of
\* their own, every message is told once, in the order sent, and when nothing is
\* left to read nothing sent is missing.
THEOREM SentArrives == ASSUME ~ReusedAfterFailure PROVE MuxSpec => []SentIsTold
<1>1. MuxInit => Underway
  BY DEF MuxInit, Init, Underway
<1>2. IInv /\ IInv' /\ Underway /\ [MuxNext]_muxVars => Underway'
  BY UnderwayKept
<1>3. IInv /\ Underway => SentIsTold
  BY NeverStuck DEF Underway, Quiet, SentIsTold
<1>4. MuxSpec => []IInv
  BY MuxImplementsDemux, DemuxInvariance, PTL
<1> QED BY <1>1, <1>2, <1>3, <1>4, PTL DEF MuxSpec
=============================================================================

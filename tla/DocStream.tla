------------------------------ MODULE DocStream ------------------------------
(***************************************************************************)
(* Documents one after the other on one byte stream (bovnar_stream.c): a   *)
(* sender writes frames -- magic, length, payload -- and a reader takes    *)
(* them apart again, exactly, whatever the reads give, and has each parsed *)
(* by one reader it opens anew for every document.                         *)
(***************************************************************************)
EXTENDS FdChannel

CONSTANTS
    HeaderSize,    \* BVNR_FRAME_HEADER_SIZE: a magic byte and the length here
    GrowStart,     \* the 4096 bytes a payload's buffer starts with
    MaxDocument    \* opts->max_document_size

ASSUME StreamAssumption ==
    HeaderSize = 2 /\ GrowStart \in Nat \ {0} /\ MaxDocument \in Nat

VARIABLES
    frames,    \* what the sender means to send: [length, sound]
    sender,    \* [next, part]: the frame it is at, and what of it is pushed
    reader,    \* bvnr_doc_stream_read: where it stands and what it has
    reported   \* what on_document was told, in order

streamVars == <<frames, sender, reader, reported>>

-----------------------------------------------------------------------------
Magic     == <<0, 0>>
Length(n) == <<-1, n>>
Junk      == <<-2, 0>>       \* anything that does not begin a frame

\* Payload byte j of frame i; a frame of length -1 is a stray byte.
Payload(i) == [j \in 1..frames[i].length |-> <<i, j>>]
Stray(i)   == frames[i].length = -1

(* bvnr_frame_write: the header, then, unless it is empty, the document.   *)
SendHeader ==
    /\ sender.part = "header" /\ push = Idle /\ sender.next <= Len(frames)
    /\ LET i == sender.next IN
       push' = PushBegun(IF Stray(i) THEN <<Junk>> ELSE <<Magic, Length(frames[i].length)>>)
    /\ sender' = [sender EXCEPT !.part = "sending"]
    /\ UNCHANGED <<frames, reader, reported, taken, pulled, ends>>

HeaderSent ==
    /\ sender.part = "sending" /\ Pushed
    /\ LET i == sender.next IN
       IF frames[i].length > 0
       THEN push' = PushBegun(Payload(i)) /\ sender' = [sender EXCEPT !.part = "payload"]
       ELSE push' = Idle /\ sender' = [next |-> i + 1, part |-> "header"]
    /\ UNCHANGED <<frames, reader, reported, taken, pulled, ends>>

PayloadSent ==
    /\ sender.part = "payload" /\ Pushed
    /\ push' = Idle
    /\ sender' = [next |-> sender.next + 1, part |-> "header"]
    /\ UNCHANGED <<frames, reader, reported, taken, pulled, ends>>

\* A sink that failed: the caller sends no more.
SendFails ==
    /\ PushFailed
    /\ push' = Idle
    /\ sender' = [sender EXCEPT !.part = "gone"]
    /\ ends' = ends \ {"write"}
    /\ UNCHANGED <<frames, reader, reported, taken, pulled>>

\* All frames are sent, and the sender closes its end.
SenderDone ==
    /\ sender.part = "header" /\ push = Idle /\ sender.next > Len(frames)
    /\ sender' = [sender EXCEPT !.part = "gone"]
    /\ Close("write") /\ UNCHANGED <<frames, reader, reported, push>>

\* The sender is killed; what it was writing stays cut where it is.
SenderCrash ==
    /\ sender.part # "gone"
    /\ sender' = [sender EXCEPT !.part = "gone"]
    /\ push' = Idle
    /\ Close("write") /\ UNCHANGED <<frames, reader, reported>>

-----------------------------------------------------------------------------
AtHeader(r) == [r EXCEPT !.at = "header", !.got = <<>>, !.want = HeaderSize, !.cap = HeaderSize]

Ended(r, result) == [r EXCEPT !.at = "ended", !.result = result]

\* The bytes the next read may give: bvn_src_read_exact asks for all that is
\* missing, bvn_src_read_exact_grow for what its buffer has room for.
Wanted == reader.cap - Len(reader.got)

ReadSome(n) ==
    /\ reader.at \in {"header", "payload"} /\ n \in 1..Wanted
    /\ Read(n, Wanted)
    /\ reader' = [reader EXCEPT !.got = @ \o Given(n)]
    /\ UNCHANGED <<frames, sender, reported>>

\* The buffer doubles, clamped to the length of the frame.
Grow ==
    /\ reader.at = "payload" /\ Len(reader.got) = reader.cap /\ reader.cap < reader.want
    /\ reader' = [reader EXCEPT !.cap = IF @ > reader.want \div 2 THEN reader.want ELSE @ * 2]
    /\ UNCHANGED <<frames, sender, reported, channelVars>>

GrowFails ==
    /\ reader.at = "payload" /\ Len(reader.got) = reader.cap /\ reader.cap < reader.want
    /\ reader' = Ended(reader, FALSE)
    /\ ends' = ends \ {"read"}
    /\ UNCHANGED <<frames, sender, reported, taken, pulled, push>>

\* Mutant: in the middle of a frame, the rest of it is waited for.
ReadEndWaits ==
    /\ reader.at = "header" /\ reader.got = <<>> /\ AtEnd
    /\ reader' = Ended(reader, TRUE)
    /\ Close("read") /\ UNCHANGED <<frames, sender, reported, push>>

\* Nothing more comes: on a frame boundary the sequence has ended, anywhere
\* else it was cut off.
ReadEnd ==
    /\ reader.at \in {"header", "payload"} /\ Wanted > 0 /\ AtEnd
    /\ reader' = Ended(reader, reader.at = "header" /\ reader.got = <<>>)
    /\ Close("read") /\ UNCHANGED <<frames, sender, reported, push>>

ReadFails ==
    /\ reader.at \in {"header", "payload"} /\ Wanted > 0
    /\ reader' = Ended(reader, FALSE)
    /\ Close("read") /\ UNCHANGED <<frames, sender, reported, push>>

\* Mutant: the length is believed whatever precedes it.
SoundUnmarked(got) == TRUE

\* The magic.
Sound(got) == got[1] = Magic

\* A whole header is judged; what stands where the length should is some number.
HeaderRead ==
    /\ reader.at = "header" /\ Len(reader.got) = HeaderSize
    /\ LET n == reader.got[2][2] IN
       IF ~Sound(reader.got) \/ n > MaxDocument
       THEN /\ reader' = Ended(reader, FALSE)
            /\ ends' = ends \ {"read"}
       ELSE /\ reader' = [reader EXCEPT !.at = "payload", !.got = <<>>, !.want = n,
                                        !.cap = IF n < GrowStart THEN n ELSE GrowStart]
            /\ UNCHANGED ends
    /\ UNCHANGED <<frames, sender, reported, taken, pulled, push>>

\* bvnr_read on the payload: sound documents parse, and nothing else does.
Parses(got) ==
    \E i \in DOMAIN frames : ~Stray(i) /\ frames[i].sound /\ got = Payload(i)

(* A document is complete: it is parsed, counted, told to on_document,     *)
(* whose veto ends the sequence, as does a failed document unless the      *)
(* caller opted to go past it.                                             *)
DocumentRead(veto) ==
    /\ reader.at = "payload" /\ Len(reader.got) = reader.want
    /\ LET ok   == Parses(reader.got)
           next == [reader EXCEPT !.count = @ + 1]
           stop == veto \/ (~ok /\ ~reader.resilient)
       IN /\ reader' = IF stop THEN Ended(next, FALSE) ELSE AtHeader(next)
          /\ reported' = Append(reported, [payload |-> reader.got, ok |-> ok, veto |-> veto])
          /\ ends' = IF stop THEN ends \ {"read"} ELSE ends
    /\ UNCHANGED <<frames, sender, taken, pulled, push>>

StreamInit ==
    /\ sender = [next |-> 1, part |-> "header"]
    /\ \E resilient \in BOOLEAN :
          reader = AtHeader([at |-> "", got |-> <<>>, want |-> 0, cap |-> 0, count |-> 0,
                             resilient |-> resilient, result |-> FALSE])
    /\ reported = <<>>

SenderStep == SendHeader \/ HeaderSent \/ PayloadSent \/ SendFails \/ SenderDone
ReaderStep == (\E n \in 1..MaxDocument + HeaderSize : ReadSome(n)) \/ Grow \/ ReadEnd \/ HeaderRead
              \/ \E veto \in BOOLEAN : DocumentRead(veto)
=============================================================================

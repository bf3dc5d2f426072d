--------------------------------- MODULE Pipe ---------------------------------
(***************************************************************************)
(* The two ways a document crosses a pipe, end to end.  "text": a writer   *)
(* whose sink is the pipe, and bvn_dom_parse_fd, which takes everything    *)
(* before it parses.  "frames": a sequence of documents, as DocStream.     *)
(***************************************************************************)
EXTENDS TextOut, DocStream, FiniteSets

CONSTANTS
    MaxText,       \* bound: bytes of the text of one document
    SlurpStart,    \* the 65536 bytes bvn_dom_parse_fd starts with
    SlurpMax,      \* its max_bytes
    FrameLengths,  \* the lengths a frame may have
    MaxFrames      \* bound: frames of a stream

ASSUME PipeAssumption ==
    /\ SlurpStart \in Nat \ {0} /\ SlurpMax \in Nat
    /\ FrameLengths \subseteq Nat /\ MaxFrames \in Nat

VARIABLES
    mode,      \* "text" or "frames"
    slurp      \* bvn_dom_parse_fd: [at, got, cap]

vars == <<mode, slurp, channelVars, textVars, streamVars>>

-----------------------------------------------------------------------------
SlurpEnds(s, at) == [s EXCEPT !.at = at]

\* bvn_dom_parse_fd_policy: one read into the room that is left; more than
\* max_bytes is refused.
SlurpSome(n) ==
    /\ slurp.at = "reading" /\ n \in 1..(slurp.cap - Len(slurp.got))
    /\ n <= Len(InFlight)
    /\ pulled' = pulled + n
    /\ LET more == [slurp EXCEPT !.got = @ \o Given(n)]
           over == Len(more.got) > SlurpMax
       IN /\ slurp' = IF over THEN SlurpEnds(more, "refused") ELSE more
          /\ ends' = IF over THEN ends \ {"read"} ELSE ends
    /\ UNCHANGED <<mode, taken, push, textVars, streamVars>>

\* Mutant: no room is made for the byte that tells a document is too long.
SlurpRoomExact(cap) == IF cap * 2 > SlurpMax THEN SlurpMax ELSE cap * 2

SlurpRoom(cap) == IF cap * 2 > SlurpMax THEN SlurpMax + 1 ELSE cap * 2

\* A full buffer doubles, up to one byte past the limit.
SlurpGrow(fails) ==
    /\ slurp.at = "reading" /\ Len(slurp.got) = slurp.cap
    /\ LET room == SlurpRoom(slurp.cap) IN
       IF fails \/ room <= slurp.cap
       THEN slurp' = SlurpEnds(slurp, IF fails THEN "failed" ELSE "refused") /\ ends' = ends \ {"read"}
       ELSE slurp' = [slurp EXCEPT !.cap = room] /\ UNCHANGED ends
    /\ UNCHANGED <<mode, taken, pulled, push, textVars, streamVars>>

\* All of it is there, and is parsed.
SlurpEnd ==
    /\ slurp.at = "reading" /\ Len(slurp.got) < slurp.cap /\ AtEnd
    /\ slurp' = SlurpEnds(slurp, "parsed")
    /\ Close("read") /\ UNCHANGED <<mode, push, textVars, streamVars>>

SlurpFails ==
    /\ slurp.at = "reading" /\ Len(slurp.got) < slurp.cap
    /\ slurp' = SlurpEnds(slurp, "failed")
    /\ Close("read") /\ UNCHANGED <<mode, push, textVars, streamVars>>

-----------------------------------------------------------------------------
\* The writing process, in either mode.
InText   == mode = "text" /\ UNCHANGED <<mode, slurp, streamVars>>
InFrames == mode = "frames" /\ UNCHANGED <<mode, slurp, textVars>>

Emit ==
    /\ InText
    /\ \E n \in 1..MaxPush : produced + n <= MaxText /\ SerPush(n)

WriterRefuses == InText /\ Refuse
WriterSteps   == InText /\ WriterStep
WriterFinish  == InText /\ FinishBegins

\* The process exits after bvnr_write_finish, or is killed before.
WriterExits ==
    /\ InText /\ writer.phase \in {"finished", "done"} /\ "write" \in ends
    /\ Close("write") /\ UNCHANGED <<push, textVars>>

WriterCrash ==
    /\ InText /\ writer.phase \notin {"finished", "done", "killed"}
    /\ writer' = [writer EXCEPT !.phase = "killed"]
    /\ push' = Idle
    /\ Close("write") /\ UNCHANGED <<wbuf, pending, produced>>

PipeTakes  == UNCHANGED <<mode, slurp, textVars, streamVars>> /\ \E n \in 1..Capacity : Write(n)
PipeRefuses == UNCHANGED <<mode, slurp, textVars, streamVars>> /\ WriteFails

Sends       == InFrames /\ SenderStep
SenderDies  == InFrames /\ SenderCrash
Reads       == InFrames /\ ReaderStep
ReaderFails == InFrames /\ (GrowFails \/ ReadFails)

Slurps      == mode = "text" /\ ((\E n \in 1..SlurpMax + 1 : SlurpSome(n)) \/ SlurpGrow(FALSE) \/ SlurpEnd)
SlurpBreaks == mode = "text" /\ (SlurpGrow(TRUE) \/ SlurpFails)

\* What a sender may mean to send; -1 is a stray byte.
Frame == [length : FrameLengths \cup {-1}, sound : BOOLEAN]

PipeInit ==
    /\ ChannelInit /\ TextInit /\ StreamInit
    /\ slurp = [at |-> "reading", got |-> <<>>, cap |-> SlurpStart]
    /\ mode \in {"text", "frames"}
    /\ frames \in IF mode = "text" THEN {<<>>} ELSE UNION {[1..k -> Frame] : k \in 0..MaxFrames}

PipeNext ==
    \/ Emit \/ WriterRefuses \/ WriterSteps \/ WriterFinish \/ WriterExits \/ WriterCrash
    \/ PipeTakes \/ PipeRefuses
    \/ Sends \/ SenderDies \/ Reads \/ ReaderFails
    \/ Slurps \/ SlurpBreaks

(* Every process goes on with what it can do by itself: a caller that      *)
(* began a document finishes it and exits, a pipe with room takes          *)
(* something, one that no one reads refuses, and a read of what is there   *)
(* returns.                                                                *)
Fairness ==
    /\ WF_vars(WriterSteps) /\ WF_vars(WriterFinish) /\ WF_vars(WriterExits)
    /\ WF_vars(PipeTakes) /\ WF_vars("read" \notin ends /\ PipeRefuses)
    /\ WF_vars(Sends) /\ WF_vars(Reads) /\ WF_vars(Slurps)

PipeSpec == PipeInit /\ [][PipeNext]_vars /\ Fairness

-----------------------------------------------------------------------------
(* What the pipe was given of a document's text is a prefix of it, without *)
(* a gap: all of it once bvnr_write_finish has returned true, and all that *)
(* precedes the error when only the caller made one.  What is parsed at    *)
(* the other end is all the pipe was given, and never more than max_bytes. *)
TextWhole ==
    mode = "text" =>
        /\ \A i \in DOMAIN taken : taken[i] = i
        /\ writer.error = "none" /\ writer.phase # "killed" =>
              Len(taken) + (IF push = Idle THEN Len(wbuf) ELSE Len(push.left)) + Len(pending) = produced
        /\ writer.phase = "finished" => Len(taken) = produced
        /\ writer.phase = "done" /\ writer.error = "refused" /\ wbuf = <<>> => Len(taken) = produced
        /\ slurp.at = "parsed" => slurp.got = taken /\ Len(taken) <= SlurpMax
        /\ slurp.at = "refused" => Len(slurp.got) > SlurpMax

\* What of the text is between the serialiser and the pipe.
Unwritten == IF push = Idle THEN wbuf ELSE push.left

\* A writer that nothing has happened to that loses text.
Going == writer.phase \notin {"done", "killed"} /\ writer.error # "writing_to_sink"

\* The bytes of s follow byte k.
Follows(s, k) == \A i \in DOMAIN s : s[i] = k + i

TextTypeOK ==
    /\ taken \in Seq(Nat) /\ wbuf \in Seq(Nat) /\ pending \in Seq(Nat)
    /\ pulled \in 0..Len(taken) /\ produced \in Nat /\ ends \subseteq {"read", "write"}
    /\ push \in [state : {"idle", "busy", "failed"}, left : Seq(Nat)]
    /\ push.state = "idle" => push = Idle
    /\ writer \in [phase : {"open", "closing", "flushing", "finished", "done", "killed"},
                   error : {"none", "refused", "writing_to_sink"}, offset : Nat]
    /\ slurp \in [at : {"reading", "parsed", "refused", "failed"}, got : Seq(Nat), cap : Nat \ {0}]

\* Taken, unwritten and not yet copied, the text is in one piece while nothing
\* was lost; an error stops the writer where nothing more can be pushed.
WriterInv ==
    /\ Follows(taken, 0)
    /\ Going => /\ Follows(Unwritten, Len(taken)) /\ Follows(pending, Len(taken) + Len(Unwritten))
                /\ Len(taken) + Len(Unwritten) + Len(pending) = produced
                /\ push = Idle => Len(wbuf) < BufferSize
    /\ writer.phase \in {"closing", "finished"} => writer.error = "none"
    /\ writer.phase = "flushing" => writer.error = "refused"
    /\ writer.phase = "done" => writer.error # "none"
    /\ writer.error # "none" \/ writer.phase \in {"finished", "done"} => pending = <<>>
    /\ push # Idle => /\ wbuf # <<>> /\ writer.phase \in {"open", "closing", "flushing"}
                      /\ writer.phase = "open" => writer.error = "none"
                      /\ writer.error # "writing_to_sink"
    /\ writer.phase = "finished" => wbuf = <<>>
    /\ writer.phase = "done" /\ writer.error = "refused" /\ wbuf = <<>> => Len(taken) = produced

SlurpInv ==
    /\ slurp.at = "reading" => slurp.got = SubSeq(taken, 1, pulled) /\ Len(slurp.got) <= SlurpMax
    /\ slurp.at = "parsed" => slurp.got = taken /\ Len(taken) <= SlurpMax /\ "read" \notin ends
    /\ slurp.at = "refused" => Len(slurp.got) > SlurpMax

TextInv == mode = "text" => TextTypeOK /\ WriterInv /\ SlurpInv

\* The bytes of a frame, and of the first k.
SizeOf(frame) == IF frame.length = -1 THEN 1 ELSE HeaderSize + frame.length
Offsets(fs) ==
    LET upTo[k \in 0..Len(fs)] == IF k = 0 THEN 0 ELSE upTo[k - 1] + SizeOf(fs[k])
    IN  upTo
BytesUpTo(k) == Offsets(frames)[k]

ToldAsSent ==
    /\ Len(reported) <= Len(frames) /\ reader.count = Len(reported)
    /\ \A i \in DOMAIN reported :
          /\ ~Stray(i) /\ frames[i].length <= MaxDocument
          /\ reported[i].payload = Payload(i)
          /\ reported[i].ok => \E j \in DOMAIN frames : frames[j].sound /\ Payload(j) = Payload(i)
          /\ frames[i].sound => reported[i].ok
          /\ i < Len(reported) => ~reported[i].veto /\ (reported[i].ok \/ reader.resilient)

EndsBetween ==
    reader.result =>
        /\ BytesUpTo(Len(reported)) = Len(taken)
        /\ \A i \in DOMAIN reported : ~reported[i].veto /\ (reported[i].ok \/ reader.resilient)

(* on_document is told the documents sent, each whole and in the order     *)
(* they were sent, counted exactly and judged right, however the bytes     *)
(* were cut, and none after a stray byte.  The sequence is a success only  *)
(* where the stream ended between two frames, with nothing vetoed and,     *)
(* unless the caller is resilient, nothing failed.                         *)
FramesWhole == mode = "frames" => ToldAsSent /\ EndsBetween

Byte == Int \X Int

FramesTypeOK ==
    /\ frames \in Seq(Frame) /\ taken \in Seq(Byte) /\ pulled \in 0..Len(taken)
    /\ push \in [state : {"idle", "busy", "failed"}, left : Seq(Byte)]
    /\ push.state = "idle" => push = Idle
    /\ sender \in [next : 1..Len(frames) + 1, part : {"header", "sending", "payload", "gone"}]
    /\ reader \in [at : {"header", "payload", "ended"}, got : Seq(Byte), want : Nat, cap : Nat,
                    count : Nat, resilient : BOOLEAN, result : BOOLEAN]
    /\ reported \in Seq([payload : Seq(Byte), ok : BOOLEAN, veto : BOOLEAN])

\* Byte j of frame i of fs.
ByteOf(fs, i, j) ==
    IF fs[i].length = -1 THEN Junk
    ELSE IF j = 1 THEN Magic ELSE IF j = 2 THEN Length(fs[i].length) ELSE <<i, j - 2>>

\* Where the call to push that is under way ends, in the frame being sent.
PushEnds ==
    IF sender.part = "payload" \/ Stray(sender.next) THEN SizeOf(frames[sender.next]) ELSE HeaderSize

\* The pipe was given the frames, byte by byte, up to where the sender is.
SenderInv ==
    /\ \A i \in DOMAIN frames : \A j \in 1..SizeOf(frames[i]) :
          BytesUpTo(i - 1) + j <= Len(taken) => taken[BytesUpTo(i - 1) + j] = ByteOf(frames, i, j)
    /\ Len(taken) <= BytesUpTo(Len(frames))
    /\ sender.part = "header" => push = Idle /\ Len(taken) = BytesUpTo(sender.next - 1)
    /\ sender.part \in {"sending", "payload"} =>
          /\ push # Idle /\ sender.next <= Len(frames)
          /\ Len(taken) >= BytesUpTo(sender.next - 1)
          /\ Len(taken) + Len(push.left) = BytesUpTo(sender.next - 1) + PushEnds
          /\ \A j \in DOMAIN push.left :
                push.left[j] = ByteOf(frames, sender.next, Len(taken) + j - BytesUpTo(sender.next - 1))
    /\ sender.part = "gone" => push = Idle

\* The bytes of a frame that the reader has behind it.
Skipped == IF reader.at = "header" THEN 0 ELSE HeaderSize

\* What the reader has is what stands in the pipe after the documents told.
ReaderInv ==
    /\ reader.at # "ended" =>
          /\ pulled = BytesUpTo(reader.count) + Skipped + Len(reader.got) /\ ~reader.result
          /\ Len(reader.got) <= reader.cap /\ reader.cap <= reader.want
          /\ \A j \in DOMAIN reader.got : reader.got[j] = taken[BytesUpTo(reader.count) + Skipped + j]
          /\ \A i \in DOMAIN reported : ~reported[i].veto /\ (reported[i].ok \/ reader.resilient)
    /\ reader.at = "header" => reader.want = HeaderSize
    /\ reader.at = "payload" =>
          /\ reader.count < Len(frames) /\ ~Stray(reader.count + 1)
          /\ reader.want = frames[reader.count + 1].length /\ reader.want <= MaxDocument
    /\ reader.result => "read" \notin ends

FramesInv == mode = "frames" => FramesTypeOK /\ SenderInv /\ ReaderInv /\ ToldAsSent /\ EndsBetween

(* Whoever dies or fails, no one waits for ever: both ends of the pipe are *)
(* given up in the end.                                                    *)
NoOneWaits == <>(ends = {})
=============================================================================

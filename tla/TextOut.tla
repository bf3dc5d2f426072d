------------------------------- MODULE TextOut -------------------------------
(***************************************************************************)
(* How the writer's text gets to an fd sink (bovnar_writer.c): pushes go   *)
(* into a buffer of fixed size that is handed to the sink when it is full  *)
(* and when the document is finished.  The first error is latched, with    *)
(* the position it occurred at.  Bytes are numbered in the order the       *)
(* serialiser produced them.                                               *)
(***************************************************************************)
EXTENDS FdChannel

CONSTANTS
    BufferSize,    \* BVN_SER_WBUF_SIZE
    MaxPush        \* bound: bytes of one push

ASSUME TextAssumption == BufferSize \in Nat \ {0} /\ MaxPush \in Nat \ {0}

VARIABLES
    wbuf,      \* wbuf[0 .. wbuf_pos)
    pending,   \* what the push under way has not yet copied into wbuf
    produced,  \* how many bytes the serialiser has pushed so far
    writer     \* [phase, error, offset]

textVars == <<wbuf, pending, produced, writer>>

-----------------------------------------------------------------------------
\* bvnr_writer_bytes_written: what the sink counted and what is buffered.
BytesWritten == Len(taken) + Len(wbuf)

\* bvn_writer_set_error, of a writer in state w.
Failed(w, error) == [w EXCEPT !.error = error, !.offset = BytesWritten]

\* bvn_ser_push begins: one piece of an event's text.
SerPush(n) ==
    /\ writer.phase = "open" /\ writer.error = "none" /\ pending = <<>> /\ push = Idle
    /\ pending' = [i \in 1..n |-> produced + i]
    /\ produced' = produced + n
    /\ UNCHANGED <<wbuf, writer, channelVars>>

\* An event the gate refuses: nothing of it is pushed.
Refuse ==
    /\ writer.phase = "open" /\ writer.error = "none" /\ pending = <<>> /\ push = Idle
    /\ writer' = Failed(writer, "refused")
    /\ UNCHANGED <<wbuf, pending, produced, channelVars>>

\* As much as fits is copied; a buffer that is full goes to the sink.
Copy ==
    /\ writer.phase # "killed" /\ pending # <<>> /\ push = Idle
    /\ LET space  == BufferSize - Len(wbuf)
           copied == IF Len(pending) < space THEN Len(pending) ELSE space
           filled == wbuf \o SubSeq(pending, 1, copied)
       IN /\ wbuf' = filled
          /\ pending' = SubSeq(pending, copied + 1, Len(pending))
          /\ push' = IF Len(filled) = BufferSize THEN PushBegun(filled) ELSE Idle
    /\ UNCHANGED <<produced, writer, taken, pulled, ends>>

\* Mutant: the buffer is reused although the sink failed.
FlushReturnsEmptied ==
    /\ Pushed \/ PushFailed
    /\ wbuf' = <<>>
    /\ push' = Idle
    /\ UNCHANGED <<pending, produced, writer, taken, pulled, ends>>

(* bvn_ser_flush_wbuf returns: the buffer is empty again, or the event has *)
(* failed and the rest of it is never pushed.                              *)
FlushReturns ==
    /\ writer.phase # "killed" /\ (Pushed \/ PushFailed)
    /\ push' = Idle
    /\ IF Pushed THEN wbuf' = <<>> /\ UNCHANGED <<pending, writer>>
       ELSE /\ pending' = <<>>
            /\ LET w == IF writer.error = "none" THEN Failed(writer, "writing_to_sink")
                        ELSE writer
               IN writer' = IF w.phase = "open" THEN w ELSE [w EXCEPT !.phase = "done"]
            /\ UNCHANGED wbuf
    /\ UNCHANGED <<produced, taken, pulled, ends>>

-----------------------------------------------------------------------------
(* bvnr_write_finish of a whole document: the last ';' is pushed and the   *)
(* buffer flushed, full or not.                                            *)
FinishBegins ==
    /\ writer.phase = "open" /\ writer.error = "none" /\ pending = <<>> /\ push = Idle
    /\ pending' = <<produced + 1>>
    /\ produced' = produced + 1
    /\ writer' = [writer EXCEPT !.phase = "closing"]
    /\ UNCHANGED <<wbuf, channelVars>>

\* After an error what was written up to it is still handed over, unless it
\* was the sink that failed.
FinishFailed ==
    /\ writer.phase = "open" /\ writer.error # "none" /\ push = Idle
    /\ writer' = [writer EXCEPT !.phase =
                      IF writer.error = "writing_to_sink" THEN "done" ELSE "flushing"]
    /\ UNCHANGED <<wbuf, pending, produced, channelVars>>

LastFlush ==
    /\ writer.phase \in {"closing", "flushing"} /\ pending = <<>> /\ push = Idle
    /\ wbuf # <<>>
    /\ push' = PushBegun(wbuf)
    /\ UNCHANGED <<textVars, taken, pulled, ends>>

\* Nothing is left to flush: finish returns.
FinishReturns ==
    /\ writer.phase \in {"closing", "flushing"} /\ pending = <<>> /\ push = Idle
    /\ wbuf = <<>>
    /\ writer' = [writer EXCEPT !.phase = IF writer.error = "none" THEN "finished" ELSE "done"]
    /\ UNCHANGED <<wbuf, pending, produced, channelVars>>

TextInit ==
    /\ wbuf = <<>> /\ pending = <<>> /\ produced = 0
    /\ writer = [phase |-> "open", error |-> "none", offset |-> 0]

\* What the writer does by itself once a push has begun.
WriterStep == Copy \/ FlushReturns \/ FinishFailed \/ LastFlush \/ FinishReturns
=============================================================================

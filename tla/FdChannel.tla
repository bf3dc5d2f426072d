------------------------------ MODULE FdChannel ------------------------------
(***************************************************************************)
(* A byte stream between two processes, as the fd backends of bovnar_io.c  *)
(* use it: push_fd hands a buffer to write() until all of it is taken,     *)
(* pull_fd takes what one read() gives.  The kernel's pipe is the          *)
(* environment: it takes and gives any part of what is asked.  A call      *)
(* interrupted by a signal (EINTR), or one that would block and is waited  *)
(* for with poll(), is retried and changes nothing.                        *)
(***************************************************************************)
EXTENDS Integers, Sequences, SequencesExt

CONSTANT Capacity     \* bytes the pipe holds

ASSUME ChannelAssumption == Capacity \in Nat \ {0}

VARIABLES
    taken,     \* every byte write() has accepted, in order
    pulled,    \* how many of them read() has given out
    push,      \* the push_fd under way: what is left, and how it stands
    ends       \* the ends of the pipe that are still open

channelVars == <<taken, pulled, push, ends>>

-----------------------------------------------------------------------------
InFlight == SubSeq(taken, pulled + 1, Len(taken))
Room     == Capacity - Len(InFlight)

Idle == [state |-> "idle", left |-> <<>>]

\* bvn_sink_push of an fd sink: the call begins ...
PushBegun(bytes) == [state |-> "busy", left |-> bytes]

\* ... and returns true when nothing is left, false once write() has failed.
Pushed     == push.state = "busy" /\ push.left = <<>>
PushFailed == push.state = "failed"

\* Mutant: one write() per push, however little it takes.
WriteOnce(n) ==
    /\ push.state = "busy" /\ push.left # <<>>
    /\ "read" \in ends
    /\ n <= Room /\ n <= Len(push.left)
    /\ taken' = taken \o SubSeq(push.left, 1, n)
    /\ push' = [push EXCEPT !.left = <<>>]
    /\ UNCHANGED <<pulled, ends>>

\* write() takes the first n bytes of what is left.
Write(n) ==
    /\ push.state = "busy" /\ push.left # <<>>
    /\ "read" \in ends
    /\ n <= Room /\ n <= Len(push.left)
    /\ taken' = taken \o SubSeq(push.left, 1, n)
    /\ push' = [push EXCEPT !.left = SubSeq(@, n + 1, Len(@))]
    /\ UNCHANGED <<pulled, ends>>

\* write() fails, or takes nothing (ENOSPC); always, once no one reads.
WriteFails ==
    /\ push.state = "busy" /\ push.left # <<>>
    /\ push' = [push EXCEPT !.state = "failed"]
    /\ UNCHANGED <<taken, pulled, ends>>

\* read() gives the next n bytes, at most `want` of them.
Read(n, want) ==
    /\ n <= want /\ n <= Len(InFlight)
    /\ pulled' = pulled + n
    /\ UNCHANGED <<taken, push, ends>>

Given(n) == SubSeq(InFlight, 1, n)

\* read() gives nothing: no more will come.
AtEnd == "write" \notin ends /\ InFlight = <<>>

\* Either process gives up its end; what is in flight is still there to read.
Close(end) == ends' = ends \ {end} /\ UNCHANGED <<taken, pulled>>

ChannelInit ==
    /\ taken = <<>> /\ pulled = 0 /\ push = Idle
    /\ ends = {"read", "write"}
=============================================================================

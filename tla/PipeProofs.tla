----------------------------- MODULE PipeProofs -----------------------------
(***************************************************************************)
(* Proofs about documents that cross a pipe, for every pipe, buffer and    *)
(* document size: the text that arrives is the text that was written, and  *)
(* the documents told are the documents sent.                              *)
(***************************************************************************)
EXTENDS Pipe, WellFoundedInduction, TLAPS

-----------------------------------------------------------------------------
(* Taking sequences apart.                                                 *)

LEMMA Heads ==
    ASSUME NEW S, NEW s \in Seq(S), NEW n \in 0..Len(s)
    PROVE  /\ SubSeq(s, 1, n) \in Seq(S) /\ Len(SubSeq(s, 1, n)) = n
           /\ \A i \in 1..n : SubSeq(s, 1, n)[i] = s[i]
OBVIOUS

LEMMA Tails ==
    ASSUME NEW S, NEW s \in Seq(S), NEW n \in 0..Len(s)
    PROVE  /\ SubSeq(s, n + 1, Len(s)) \in Seq(S) /\ Len(SubSeq(s, n + 1, Len(s))) = Len(s) - n
           /\ \A i \in 1..(Len(s) - n) : SubSeq(s, n + 1, Len(s))[i] = s[n + i]
OBVIOUS

LEMMA Joined ==
    ASSUME NEW S, NEW s \in Seq(S), NEW t \in Seq(S)
    PROVE  /\ s \o t \in Seq(S) /\ Len(s \o t) = Len(s) + Len(t)
           /\ \A i \in 1..Len(s) : (s \o t)[i] = s[i]
           /\ \A i \in (Len(s) + 1)..(Len(s) + Len(t)) : i - Len(s) \in 1..Len(t) /\ (s \o t)[i] = t[i - Len(s)]
           /\ \A i \in 1..(Len(s) + Len(t)) : i \in 1..Len(s) \/ i \in (Len(s) + 1)..(Len(s) + Len(t))
OBVIOUS

LEMMA Shape ==
    ASSUME NEW S, NEW s \in Seq(S)
    PROVE  Len(s) \in Nat /\ DOMAIN s = 1..Len(s) /\ \A i \in 1..Len(s) : s[i] \in S
OBVIOUS

LEMMA SameSequence ==
    ASSUME NEW S, NEW s \in Seq(S), NEW t \in Seq(S), Len(s) = Len(t), \A i \in 1..Len(s) : s[i] = t[i]
    PROVE  s = t
OBVIOUS

\* What a read adds to what was read before.
LEMMA ReadOn ==
    ASSUME NEW S, taken \in Seq(S), pulled \in 0..Len(taken), NEW n \in 1..Len(InFlight)
    PROVE  /\ Len(InFlight) = Len(taken) - pulled /\ Given(n) \in Seq(S) /\ Len(Given(n)) = n
           /\ \A i \in 1..n : Given(n)[i] = taken[pulled + i]
           /\ SubSeq(taken, 1, pulled) \o Given(n) = SubSeq(taken, 1, pulled + n)
<1>1. /\ InFlight \in Seq(S) /\ Len(InFlight) = Len(taken) - pulled
      /\ \A i \in 1..(Len(taken) - pulled) : InFlight[i] = taken[pulled + i]
  BY Tails DEF InFlight
<1>2. /\ Given(n) \in Seq(S) /\ Len(Given(n)) = n
      /\ \A i \in 1..n : Given(n)[i] = InFlight[i]
  BY <1>1, Heads DEF Given
<1> DEFINE old == SubSeq(taken, 1, pulled)
           new == SubSeq(taken, 1, pulled + n)
<1>3. /\ old \in Seq(S) /\ Len(old) = pulled /\ \A i \in 1..pulled : old[i] = taken[i]
      /\ pulled + n \in 0..Len(taken)
  BY <1>1, Heads
<1>4. new \in Seq(S) /\ Len(new) = pulled + n /\ \A i \in 1..(pulled + n) : new[i] = taken[i]
  BY <1>3, Heads
<1> HIDE DEF old, new
<1>5. /\ old \o Given(n) \in Seq(S) /\ Len(old \o Given(n)) = pulled + n
      /\ \A i \in 1..pulled : (old \o Given(n))[i] = old[i]
      /\ \A i \in (pulled + 1)..(pulled + n) : i - pulled \in 1..n /\ (old \o Given(n))[i] = Given(n)[i - pulled]
      /\ \A i \in 1..(pulled + n) : i \in 1..pulled \/ i \in (pulled + 1)..(pulled + n)
  <2> DEFINE given == Given(n)
  <2>1. given \in Seq(S) /\ old \in Seq(S) /\ Len(given) = n /\ Len(old) = pulled
    BY <1>2, <1>3
  <2> HIDE DEF given
  <2>2. /\ old \o given \in Seq(S) /\ Len(old \o given) = Len(old) + Len(given)
        /\ \A i \in 1..Len(old) : (old \o given)[i] = old[i]
        /\ \A i \in (Len(old) + 1)..(Len(old) + Len(given)) :
             i - Len(old) \in 1..Len(given) /\ (old \o given)[i] = given[i - Len(old)]
        /\ \A i \in 1..(Len(old) + Len(given)) : i \in 1..Len(old) \/ i \in (Len(old) + 1)..(Len(old) + Len(given))
    BY <2>1, Joined
  <2> QED BY <2>1, <2>2 DEF given
<1>7. \A i \in 1..(pulled + n) : (old \o Given(n))[i] = new[i]
  <2> TAKE i \in 1..(pulled + n)
  <2>1. CASE i \in 1..pulled
    BY <1>3, <1>4, <1>5, <2>1
  <2>2. CASE i \in (pulled + 1)..(pulled + n)
    <3>1. i - pulled \in 1..n /\ (old \o Given(n))[i] = Given(n)[i - pulled]
      BY <1>5, <2>2
    <3>2. Given(n)[i - pulled] = InFlight[i - pulled] /\ i - pulled \in 1..(Len(taken) - pulled)
      BY <1>1, <1>2, <3>1
    <3>3. InFlight[i - pulled] = taken[pulled + (i - pulled)] /\ pulled + (i - pulled) = i
      BY <1>1, <1>3, <3>2
    <3> QED BY <1>4, <3>1, <3>2, <3>3
  <2> QED BY <1>5, <2>1, <2>2
<1>8. old \o Given(n) = new
  BY <1>4, <1>5, <1>7, SameSequence
<1> QED BY <1>1, <1>2, <1>8 DEF old, new

\* A stretch of the text, in two pieces.
LEMMA FollowsJoined ==
    ASSUME NEW s \in Seq(Nat), NEW t \in Seq(Nat), NEW k \in Nat, Follows(s, k), Follows(t, k + Len(s))
    PROVE  s \o t \in Seq(Nat) /\ Len(s \o t) = Len(s) + Len(t) /\ Follows(s \o t, k)
<1>1. /\ s \o t \in Seq(Nat) /\ Len(s \o t) = Len(s) + Len(t) /\ DOMAIN (s \o t) = 1..(Len(s) + Len(t))
      /\ DOMAIN s = 1..Len(s) /\ DOMAIN t = 1..Len(t) /\ Len(s) \in Nat /\ Len(t) \in Nat
  BY Joined, Shape
<1>0. \A i \in 1..Len(s) : (s \o t)[i] = s[i]
  BY Joined
<1>2. ASSUME NEW i \in 1..(Len(s) + Len(t)) PROVE (s \o t)[i] = k + i
  <2>1. CASE i \in 1..Len(s)
    BY <1>0, <1>1, <2>1 DEF Follows
  <2>2. CASE i \in (Len(s) + 1)..(Len(s) + Len(t))
    <3>1. i - Len(s) \in 1..Len(t) /\ (s \o t)[i] = t[i - Len(s)]
      BY <2>2, Joined
    <3>2. t[i - Len(s)] = (k + Len(s)) + (i - Len(s))
      BY <1>1, <3>1 DEF Follows
    <3> QED BY <1>1, <3>1, <3>2
  <2> QED BY <2>1, <2>2, Joined
<1> QED BY <1>1, <1>2 DEF Follows

LEMMA FollowsCut ==
    ASSUME NEW s \in Seq(Nat), NEW k \in Nat, Follows(s, k), NEW n \in 0..Len(s)
    PROVE  /\ SubSeq(s, 1, n) \in Seq(Nat) /\ Len(SubSeq(s, 1, n)) = n /\ Follows(SubSeq(s, 1, n), k)
           /\ SubSeq(s, n + 1, Len(s)) \in Seq(Nat) /\ Len(SubSeq(s, n + 1, Len(s))) = Len(s) - n
           /\ Follows(SubSeq(s, n + 1, Len(s)), k + n)
<1>1. /\ SubSeq(s, 1, n) \in Seq(Nat) /\ Len(SubSeq(s, 1, n)) = n
      /\ DOMAIN SubSeq(s, 1, n) = 1..n /\ \A i \in 1..n : SubSeq(s, 1, n)[i] = s[i]
  BY Heads, Shape
<1>2. /\ SubSeq(s, n + 1, Len(s)) \in Seq(Nat) /\ Len(SubSeq(s, n + 1, Len(s))) = Len(s) - n
      /\ DOMAIN SubSeq(s, n + 1, Len(s)) = 1..(Len(s) - n)
      /\ \A i \in 1..(Len(s) - n) : SubSeq(s, n + 1, Len(s))[i] = s[n + i]
  BY Tails, Shape, SMTT(20)
<1>3. Len(s) \in Nat /\ \A i \in 1..Len(s) : s[i] = k + i
  BY Shape DEF Follows
<1>4. \A i \in 1..n : s[i] = k + i
  BY <1>3
<1>5. \A i \in 1..(Len(s) - n) : s[n + i] = k + n + i
  BY <1>3
<1> QED BY <1>1, <1>2, <1>4, <1>5 DEF Follows

-----------------------------------------------------------------------------
(* The text.                                                               *)

TextOK == TextTypeOK /\ WriterInv /\ SlurpInv

LEMMA EmptyText == \A k \in Nat : Follows(<<>>, k)
BY DEF Follows

\* What a step of the writer leaves alone.
LEMMA SlurpStays ==
    ASSUME SlurpInv, UNCHANGED <<slurp, taken, pulled, ends>>
    PROVE  SlurpInv'
BY DEF SlurpInv

LEMMA SerPushStep ==
    ASSUME TextOK, UNCHANGED slurp, NEW n \in 1..MaxPush, SerPush(n)
    PROVE  TextOK'
<1> USE DEF TextOK
<1>1. /\ writer.phase = "open" /\ writer.error = "none" /\ pending = <<>> /\ push = Idle
      /\ pending' = [i \in 1..n |-> produced + i] /\ produced' = produced + n
      /\ UNCHANGED <<wbuf, writer, taken, pulled, push, ends, slurp>>
  BY DEF SerPush, channelVars
<1>2. n \in Nat /\ produced \in Nat
  BY TextAssumption DEF TextTypeOK
<1>3. pending' \in Seq(Nat) /\ Len(pending') = n /\ Follows(pending', produced)
  BY <1>1, <1>2 DEF Follows
<1>4. TextTypeOK'
  BY <1>1, <1>2, <1>3 DEF TextTypeOK, Idle
<1>5. Going /\ Going' /\ Unwritten' = Unwritten
  BY <1>1 DEF Going, Unwritten
<1>6. Len(taken) + Len(Unwritten) = produced /\ Len(Unwritten) \in Nat /\ Len(taken) \in Nat
  BY <1>1, <1>5, Shape DEF WriterInv, TextTypeOK, Unwritten
<1>7. WriterInv'
  BY <1>1, <1>2, <1>3, <1>5, <1>6 DEF WriterInv
<1> QED BY <1>1, <1>4, <1>7, SlurpStays

LEMMA RefuseStep ==
    ASSUME TextOK, UNCHANGED slurp, Refuse
    PROVE  TextOK'
<1> USE DEF TextOK
<1>1. /\ writer.phase = "open" /\ writer.error = "none" /\ pending = <<>> /\ push = Idle
      /\ writer' = [writer EXCEPT !.error = "refused", !.offset = BytesWritten]
      /\ UNCHANGED <<wbuf, pending, produced, taken, pulled, push, ends, slurp>>
  BY DEF Refuse, channelVars, Failed
<1>2. BytesWritten \in Nat
  BY Shape DEF TextTypeOK, BytesWritten
<1>3. TextTypeOK' /\ writer'.phase = "open" /\ writer'.error = "refused"
  BY <1>1, <1>2 DEF TextTypeOK, Idle
<1>4. Going /\ Unwritten' = Unwritten
  BY <1>1 DEF Going, Unwritten
<1>5. WriterInv'
  BY <1>1, <1>3, <1>4 DEF WriterInv
<1> QED BY <1>1, <1>3, <1>5, SlurpStays

LEMMA CopyStep ==
    ASSUME TextOK, UNCHANGED slurp, Copy
    PROVE  TextOK'
<1> USE DEF TextOK
<1> DEFINE space  == BufferSize - Len(wbuf)
           copied == IF Len(pending) < space THEN Len(pending) ELSE space
           filled == wbuf \o SubSeq(pending, 1, copied)
<1>1. /\ writer.phase # "killed" /\ pending # <<>> /\ push = Idle
      /\ wbuf' = filled /\ pending' = SubSeq(pending, copied + 1, Len(pending))
      /\ push' = IF Len(filled) = BufferSize THEN PushBegun(filled) ELSE Idle
      /\ UNCHANGED <<produced, writer, taken, pulled, ends, slurp>>
  BY DEF Copy
<1>2. Going
  BY <1>1 DEF Going, WriterInv, TextTypeOK
<1>3. Follows(wbuf, Len(taken)) /\ Follows(pending, Len(taken) + Len(wbuf))
      /\ Len(taken) + Len(wbuf) + Len(pending) = produced
  BY <1>1, <1>2 DEF WriterInv, Unwritten
<1>4. wbuf \in Seq(Nat) /\ pending \in Seq(Nat) /\ Len(wbuf) \in Nat /\ Len(pending) \in Nat /\ Len(taken) \in Nat
      /\ Len(wbuf) < BufferSize /\ BufferSize \in Nat
  BY <1>1, <1>2, Shape, TextAssumption DEF TextTypeOK, WriterInv
<1>5. copied \in 0..Len(pending) /\ copied <= space
  BY <1>4
<1> HIDE DEF copied
<1> DEFINE head == SubSeq(pending, 1, copied)
<1>6. /\ head \in Seq(Nat) /\ Len(head) = copied /\ Follows(head, Len(taken) + Len(wbuf))
      /\ pending' \in Seq(Nat) /\ Len(pending') = Len(pending) - copied
      /\ Follows(pending', Len(taken) + Len(wbuf) + copied)
  BY <1>1, <1>3, <1>4, <1>5, FollowsCut
<1> HIDE DEF head
<1>7. filled = wbuf \o head
  BY DEF head
<1>8. filled \in Seq(Nat) /\ Len(filled) = Len(wbuf) + copied /\ Follows(filled, Len(taken))
  BY <1>3, <1>4, <1>6, <1>7, FollowsJoined
<1> HIDE DEF filled
<1>9. Going'
  BY <1>1, <1>2 DEF Going
<1>10. Unwritten' = filled
  BY <1>1 DEF Unwritten, PushBegun, Idle
<1>11. TextTypeOK'
  BY <1>1, <1>6, <1>8 DEF TextTypeOK, PushBegun, Idle
<1>12. WriterInv'
  <2>1. writer.error = "none" /\ writer.phase \in {"open", "closing"}
    BY <1>1, <1>2 DEF WriterInv, TextTypeOK, Going
  <2>2. push' # Idle => wbuf' # <<>>
    BY <1>1, <1>8, TextAssumption
  <2>3. push' = Idle => Len(wbuf') < BufferSize
    <3>1. push' = Idle => Len(filled) # BufferSize
      BY <1>1 DEF PushBegun, Idle
    <3>2. Len(filled) <= BufferSize /\ Len(filled) \in Nat /\ wbuf' = filled
      BY <1>1, <1>4, <1>5, <1>8
    <3> QED BY <1>4, <3>1, <3>2
  <2>4. Follows(taken', 0) /\ Follows(Unwritten', Len(taken')) /\ Follows(pending', Len(taken') + Len(Unwritten'))
        /\ Len(taken') + Len(Unwritten') + Len(pending') = produced'
    <3>1. /\ taken' = taken /\ produced' = produced /\ Len(Unwritten') = Len(wbuf) + copied
          /\ Len(taken') + Len(Unwritten') = Len(taken) + Len(wbuf) + copied
      <4>1. taken' = taken /\ produced' = produced
        BY <1>1
      <4>2. Len(Unwritten') = Len(wbuf) + copied
        BY <1>8, <1>10
      <4>3. Len(taken) + (Len(wbuf) + copied) = Len(taken) + Len(wbuf) + copied
        BY <1>4, <1>5
      <4> QED BY <4>1, <4>2, <4>3
    <3>2. Follows(taken, 0) /\ Len(pending') = Len(pending) - copied
      BY <1>6 DEF WriterInv
    <3>3. Len(taken) + Len(wbuf) + copied + (Len(pending) - copied) = produced
      BY <1>3, <1>4, <1>5
    <3> QED BY <1>6, <1>8, <1>10, <3>1, <3>2, <3>3
  <2> QED BY <1>1, <1>9, <2>1, <2>2, <2>3, <2>4 DEF WriterInv
<1> QED BY <1>1, <1>11, <1>12, SlurpStays

LEMMA FlushReturnsStep ==
    ASSUME TextOK, UNCHANGED slurp, FlushReturns
    PROVE  TextOK'
<1> USE DEF TextOK
<1>1. /\ writer.phase # "killed" /\ (Pushed \/ PushFailed) /\ push' = Idle /\ push # Idle
      /\ UNCHANGED <<produced, taken, pulled, ends, slurp>>
  BY DEF FlushReturns, Pushed, PushFailed, Idle
<1>2. /\ writer.phase \in {"open", "closing", "flushing"} /\ writer.error # "writing_to_sink" /\ wbuf # <<>>
      /\ writer.phase = "open" => writer.error = "none"
      /\ writer.phase = "closing" => writer.error = "none"
      /\ writer.phase = "flushing" => writer.error = "refused"
      /\ Going /\ Follows(taken, 0)
  BY <1>1 DEF WriterInv, Going
<1>3. CASE Pushed
  <2>1. wbuf' = <<>> /\ pending' = pending /\ writer' = writer /\ push.left = <<>>
    BY <1>3 DEF FlushReturns, Pushed
  <2>2. Unwritten' = <<>> /\ Unwritten = <<>> /\ Going'
    BY <1>1, <1>2, <2>1 DEF Unwritten, Going
  <2>3. TextTypeOK'
    BY <1>1, <2>1 DEF TextTypeOK, Idle
  <2>4. WriterInv'
    BY <1>1, <1>2, <2>1, <2>2, TextAssumption DEF WriterInv
  <2> QED BY <1>1, <2>3, <2>4, SlurpStays
<1>4. CASE ~Pushed
  <2> DEFINE w == IF writer.error = "none" THEN Failed(writer, "writing_to_sink") ELSE writer
  <2>1. pending' = <<>> /\ wbuf' = wbuf /\ writer' = IF w.phase = "open" THEN w ELSE [w EXCEPT !.phase = "done"]
    BY <1>4 DEF FlushReturns
  <2>2. BytesWritten \in Nat
    BY Shape DEF TextTypeOK, BytesWritten
  <2>3. /\ w \in [phase : {"open", "closing", "flushing"}, error : {"refused", "writing_to_sink"}, offset : Nat]
        /\ w.phase = writer.phase /\ (writer.error = "none" => w.error = "writing_to_sink")
        /\ (writer.error # "none" => w.error = writer.error)
    BY <1>2, <2>2 DEF Failed, TextTypeOK
  <2> HIDE DEF w
  <2>4. /\ writer' \in [phase : {"open", "done"}, error : {"refused", "writing_to_sink"}, offset : Nat]
        /\ writer'.phase = "open" => writer'.error = "writing_to_sink"
    BY <1>2, <2>1, <2>3
  <2>5. TextTypeOK'
    BY <1>1, <2>1, <2>4 DEF TextTypeOK, Idle
  <2>6. ~Going'
    BY <2>4 DEF Going
  <2>7. WriterInv'
    BY <1>1, <1>2, <2>1, <2>4, <2>6 DEF WriterInv
  <2> QED BY <1>1, <2>5, <2>7, SlurpStays
<1> QED BY <1>3, <1>4

LEMMA FinishBeginsStep ==
    ASSUME TextOK, UNCHANGED slurp, FinishBegins
    PROVE  TextOK'
<1> USE DEF TextOK
<1>1. /\ writer.phase = "open" /\ writer.error = "none" /\ pending = <<>> /\ push = Idle
      /\ pending' = <<produced + 1>> /\ produced' = produced + 1
      /\ writer' = [writer EXCEPT !.phase = "closing"]
      /\ UNCHANGED <<wbuf, taken, pulled, push, ends, slurp>>
  BY DEF FinishBegins, channelVars
<1>2. produced \in Nat /\ Len(pending') = 1 /\ pending' \in Seq(Nat) /\ Follows(pending', produced)
  BY <1>1 DEF TextTypeOK, Follows
<1>3. writer'.phase = "closing" /\ writer'.error = "none"
      /\ writer' \in [phase : {"closing"}, error : {"none"}, offset : Nat]
  BY <1>1 DEF TextTypeOK
<1>7. TextTypeOK'
  BY <1>1, <1>2, <1>3 DEF TextTypeOK, Idle
<1>4. Going /\ Going' /\ Unwritten' = Unwritten
  BY <1>1, <1>3 DEF Going, Unwritten
<1>5. Len(taken) + Len(Unwritten) = produced /\ Len(Unwritten) \in Nat /\ Len(taken) \in Nat
  BY <1>1, <1>4, Shape DEF WriterInv, TextTypeOK, Unwritten
<1>6. WriterInv'
  BY <1>1, <1>2, <1>3, <1>4, <1>5 DEF WriterInv
<1> QED BY <1>1, <1>7, <1>6, SlurpStays

\* A phase that ends with nothing pushed.
LEMMA PhaseStep ==
    ASSUME TextOK, UNCHANGED slurp, FinishFailed \/ FinishReturns
    PROVE  TextOK'
<1> USE DEF TextOK
<1>1. /\ push = Idle /\ UNCHANGED <<wbuf, pending, produced, taken, pulled, push, ends, slurp>>
      /\ Unwritten' = Unwritten /\ Unwritten = wbuf
  BY DEF FinishFailed, FinishReturns, channelVars, Unwritten
<1>2. Len(taken) \in Nat /\ Len(<<>>) = 0
  BY DEF TextTypeOK
<1>3. CASE FinishFailed
  <2>1. /\ writer.phase = "open" /\ writer.error # "none"
        /\ writer' = [writer EXCEPT !.phase = IF writer.error = "writing_to_sink" THEN "done" ELSE "flushing"]
    BY <1>3 DEF FinishFailed
  <2>0. /\ writer.error \in {"refused", "writing_to_sink"} /\ writer'.error = writer.error
        /\ writer' \in [phase : {"flushing", "done"}, error : {"refused", "writing_to_sink"}, offset : Nat]
        /\ writer.error = "writing_to_sink" => writer'.phase = "done"
        /\ writer.error = "refused" => writer'.phase = "flushing"
    BY <2>1 DEF TextTypeOK
  <2>2. TextTypeOK'
    BY <1>1, <2>0 DEF TextTypeOK, Idle
  <2>3. Going' => Going
    BY <2>0, <2>1 DEF Going
  <2>4. WriterInv'
    BY <1>1, <2>0, <2>1, <2>3 DEF WriterInv
  <2> QED BY <1>1, <2>2, <2>4, SlurpStays
<1>4. CASE FinishReturns
  <2>1. /\ writer.phase \in {"closing", "flushing"} /\ pending = <<>> /\ wbuf = <<>>
        /\ writer' = [writer EXCEPT !.phase = IF writer.error = "none" THEN "finished" ELSE "done"]
    BY <1>4 DEF FinishReturns
  <2>0. /\ writer'.error = writer.error /\ writer.error \in {"none", "refused"}
        /\ writer' \in [phase : {"finished", "done"}, error : {"none", "refused"}, offset : Nat]
        /\ writer.error = "none" => writer'.phase = "finished"
        /\ writer.error = "refused" => writer'.phase = "done"
    BY <2>1 DEF TextTypeOK, WriterInv
  <2>2. TextTypeOK'
    BY <1>1, <2>0 DEF TextTypeOK, Idle
  <2>3. Going
    BY <2>0, <2>1 DEF Going
  <2>4. Len(taken) = produced
    BY <1>1, <1>2, <2>1, <2>3 DEF WriterInv
  <2>5. WriterInv'
    BY <1>1, <2>1, <2>0, <2>3, <2>4 DEF WriterInv, Going
  <2> QED BY <1>1, <2>2, <2>5, SlurpStays
<1> QED BY <1>3, <1>4

LEMMA LastFlushStep ==
    ASSUME TextOK, UNCHANGED slurp, LastFlush
    PROVE  TextOK'
<1> USE DEF TextOK
<1>1. /\ writer.phase \in {"closing", "flushing"} /\ pending = <<>> /\ push = Idle /\ wbuf # <<>>
      /\ push' = PushBegun(wbuf)
      /\ UNCHANGED <<wbuf, pending, produced, writer, taken, pulled, ends, slurp>>
  BY DEF LastFlush, textVars
<1>2. TextTypeOK' /\ push' # Idle /\ Unwritten' = wbuf /\ Unwritten = wbuf /\ (Going' <=> Going)
  BY <1>1 DEF TextTypeOK, PushBegun, Idle, Unwritten, Going
<1>3. Going
  BY <1>1 DEF WriterInv, Going
<1>4. WriterInv'
  BY <1>1, <1>2, <1>3 DEF WriterInv
<1> QED BY <1>1, <1>2, <1>4, SlurpStays

-----------------------------------------------------------------------------
(* The writing process ends, or is killed.                                 *)

LEMMA ExitStep ==
    ASSUME TextOK, WriterExits
    PROVE  TextOK'
<1> USE DEF TextOK
<1>1. /\ ends' = ends \ {"write"}
      /\ UNCHANGED <<wbuf, pending, produced, writer, taken, pulled, push, slurp>>
  BY DEF WriterExits, InText, Close, textVars
<1>2. TextTypeOK'
  BY <1>1 DEF TextTypeOK, Idle
<1>3. WriterInv'
  <2>1. Unwritten' = Unwritten /\ (Going' <=> Going)
    BY <1>1 DEF Unwritten, Going
  <2> QED BY <1>1, <2>1 DEF WriterInv
<1>4. SlurpInv'
  BY <1>1 DEF SlurpInv
<1> QED BY <1>2, <1>3, <1>4

LEMMA CrashStep ==
    ASSUME TextOK, WriterCrash
    PROVE  TextOK'
<1> USE DEF TextOK
<1>1. /\ writer.phase \notin {"finished", "done", "killed"} /\ writer' = [writer EXCEPT !.phase = "killed"]
      /\ push' = Idle /\ ends' = ends \ {"write"}
      /\ UNCHANGED <<wbuf, pending, produced, taken, pulled, slurp>>
  BY DEF WriterCrash, InText, Close
<1>2. /\ writer' \in [phase : {"killed"}, error : {"none", "refused", "writing_to_sink"}, offset : Nat]
      /\ writer'.error = writer.error /\ writer'.phase = "killed"
  BY <1>1 DEF TextTypeOK
<1>3. TextTypeOK'
  BY <1>1, <1>2 DEF TextTypeOK, Idle
<1>4. WriterInv'
  BY <1>1, <1>2 DEF WriterInv, Going
<1>5. SlurpInv'
  BY <1>1 DEF SlurpInv
<1> QED BY <1>3, <1>4, <1>5

-----------------------------------------------------------------------------
(* The pipe.                                                               *)

\* What has been read is still what was taken first, when more is taken.
LEMMA LongerStill ==
    ASSUME NEW S, NEW s \in Seq(S), NEW t \in Seq(S), NEW n \in 0..Len(s)
    PROVE  SubSeq(s \o t, 1, n) = SubSeq(s, 1, n)
<1>1. s \o t \in Seq(S) /\ Len(s \o t) = Len(s) + Len(t) /\ \A i \in 1..Len(s) : (s \o t)[i] = s[i]
  BY Joined
<1>2. Len(s) \in Nat /\ Len(t) \in Nat
  BY Shape
<1>3. n \in 0..Len(s \o t)
  BY <1>1, <1>2
<1> DEFINE st == s \o t
<1> HIDE DEF st
<1>4. st \in Seq(S) /\ n \in 0..Len(st) /\ \A i \in 1..n : st[i] = s[i]
  BY <1>1, <1>2, <1>3 DEF st
<1>5. /\ SubSeq(st, 1, n) \in Seq(S) /\ Len(SubSeq(st, 1, n)) = n
      /\ \A i \in 1..n : SubSeq(st, 1, n)[i] = st[i]
  BY <1>4, Heads
<1>6. /\ SubSeq(s, 1, n) \in Seq(S) /\ Len(SubSeq(s, 1, n)) = n
      /\ \A i \in 1..n : SubSeq(s, 1, n)[i] = s[i]
  BY Heads
<1>7. SubSeq(st, 1, n) = SubSeq(s, 1, n)
  BY <1>4, <1>5, <1>6, SameSequence
<1> QED BY <1>7 DEF st

LEMMA TakeStep ==
    ASSUME TextOK, UNCHANGED <<slurp, textVars>>, NEW n \in 1..Capacity, Write(n)
    PROVE  TextOK'
<1> USE DEF TextOK
<1> DEFINE head == SubSeq(push.left, 1, n)
           tail == SubSeq(push.left, n + 1, Len(push.left))
<1>1. /\ push.state = "busy" /\ push.left # <<>> /\ "read" \in ends /\ n <= Len(push.left)
      /\ taken' = taken \o head /\ push' = [push EXCEPT !.left = tail]
      /\ UNCHANGED <<wbuf, pending, produced, writer, pulled, ends, slurp>>
  BY DEF Write, textVars
<1>2. /\ push.left \in Seq(Nat) /\ taken \in Seq(Nat) /\ pulled \in 0..Len(taken) /\ Len(push.left) \in Nat
      /\ Len(taken) \in Nat /\ n \in Nat
  BY Shape, ChannelAssumption DEF TextTypeOK
<1>3. n \in 0..Len(push.left)
  BY <1>1, <1>2
<1>4. /\ Going /\ Unwritten = push.left /\ push # Idle
      /\ Follows(taken, 0) /\ Follows(push.left, Len(taken)) /\ Follows(pending, Len(taken) + Len(push.left))
      /\ Len(taken) + Len(push.left) + Len(pending) = produced
  <2>1. push # Idle /\ Unwritten = push.left
    BY <1>1 DEF Idle, Unwritten
  <2>2. Going
    BY <2>1 DEF WriterInv, Going
  <2> QED BY <2>1, <2>2 DEF WriterInv
<1>5. /\ head \in Seq(Nat) /\ Len(head) = n /\ Follows(head, Len(taken))
      /\ tail \in Seq(Nat) /\ Len(tail) = Len(push.left) - n /\ Follows(tail, Len(taken) + n)
  BY <1>2, <1>3, <1>4, FollowsCut
<1> HIDE DEF head, tail
<1>6. taken' \in Seq(Nat) /\ Len(taken') = Len(taken) + n /\ Follows(taken', 0)
  <2>1. Follows(head, 0 + Len(taken)) /\ 0 \in Nat
    BY <1>2, <1>5
  <2>2. /\ taken \o head \in Seq(Nat) /\ Len(taken \o head) = Len(taken) + Len(head)
        /\ Follows(taken \o head, 0)
    BY <1>2, <1>4, <1>5, <2>1, FollowsJoined
  <2> QED BY <1>1, <1>5, <2>2
<1>7. push' \in [state : {"busy"}, left : Seq(Nat)] /\ push'.left = tail /\ push' # Idle
  BY <1>1, <1>5 DEF TextTypeOK, Idle
<1>8. TextTypeOK'
  <2>1. pulled' \in 0..Len(taken')
    BY <1>1, <1>2, <1>6
  <2> QED BY <1>1, <1>6, <1>7, <2>1 DEF TextTypeOK
<1>9. WriterInv'
  <2>1. Unwritten' = tail /\ Going'
    BY <1>1, <1>4, <1>7 DEF Unwritten, Going
  <2>2. Len(taken') + Len(Unwritten') = Len(taken) + Len(push.left)
    <3>1. Len(Unwritten') = Len(push.left) - n
      BY <1>5, <2>1
    <3>2. (Len(taken) + n) + (Len(push.left) - n) = Len(taken) + Len(push.left)
      <4>1. \A a, b, c \in Nat : (a + b) + (c - b) = a + c
        OBVIOUS
      <4>2. Len(taken) \in Nat /\ n \in Nat /\ Len(push.left) \in Nat
        BY <1>2
      <4> HIDE DEF TextOK
      <4> QED BY <4>1, <4>2
    <3> QED BY <1>6, <3>1, <3>2
  <2>3. /\ Follows(Unwritten', Len(taken')) /\ Follows(pending', Len(taken') + Len(Unwritten'))
        /\ Len(taken') + Len(Unwritten') + Len(pending') = produced'
    BY <1>1, <1>4, <1>5, <1>6, <2>1, <2>2
  <2> QED BY <1>1, <1>4, <1>6, <1>7, <2>1, <2>3 DEF WriterInv
<1>10. SlurpInv'
  <2>1. SubSeq(taken', 1, pulled) = SubSeq(taken, 1, pulled)
    BY <1>1, <1>2, <1>5, LongerStill
  <2> QED BY <1>1, <2>1 DEF SlurpInv
<1> QED BY <1>8, <1>9, <1>10

LEMMA TakeFailsStep ==
    ASSUME TextOK, UNCHANGED <<slurp, textVars>>, WriteFails
    PROVE  TextOK'
<1> USE DEF TextOK
<1>1. /\ push.state = "busy" /\ push' = [push EXCEPT !.state = "failed"]
      /\ UNCHANGED <<wbuf, pending, produced, writer, taken, pulled, ends, slurp>>
  BY DEF WriteFails, textVars
<1>2. push' \in [state : {"failed"}, left : Seq(Nat)] /\ push'.left = push.left /\ push # Idle /\ push' # Idle
  <2>1. push \in [state : {"idle", "busy", "failed"}, left : Seq(Nat)]
    BY DEF TextTypeOK
  <2>2. push' \in [state : {"failed"}, left : Seq(Nat)] /\ push'.left = push.left /\ push'.state = "failed"
    BY <1>1, <2>1
  <2> QED BY <1>1, <2>2 DEF Idle
<1>3. TextTypeOK'
  BY <1>1, <1>2 DEF TextTypeOK
<1>4. Unwritten' = Unwritten /\ (Going' <=> Going)
  BY <1>1, <1>2 DEF Unwritten, Going
<1>5. WriterInv'
  BY <1>1, <1>2, <1>4 DEF WriterInv
<1> QED BY <1>1, <1>3, <1>5, SlurpStays

-----------------------------------------------------------------------------
(* The reading process.                                                    *)

LEMMA WriterStays ==
    ASSUME WriterInv, UNCHANGED <<textVars, taken, push>>
    PROVE  WriterInv'
<1>1. Unwritten' = Unwritten /\ (Going' <=> Going)
  BY DEF Unwritten, Going, textVars
<1> QED BY <1>1 DEF WriterInv, textVars

LEMMA SlurpSomeStep ==
    ASSUME TextOK, NEW n \in 1..SlurpMax + 1, SlurpSome(n)
    PROVE  TextOK'
<1> USE DEF TextOK
<1> DEFINE grown == slurp.got \o Given(n)
           more  == [slurp EXCEPT !.got = grown]
<1>1. /\ slurp.at = "reading" /\ n <= Len(InFlight) /\ pulled' = pulled + n
      /\ slurp' = IF Len(more.got) > SlurpMax THEN SlurpEnds(more, "refused") ELSE more
  BY DEF SlurpSome
<1>0. UNCHANGED <<taken, push, textVars>> /\ ends' \subseteq ends
  BY DEF SlurpSome
<1>2. /\ taken \in Seq(Nat) /\ pulled \in 0..Len(taken) /\ Len(taken) \in Nat /\ n \in Nat /\ n >= 1
      /\ slurp.got = SubSeq(taken, 1, pulled)
  BY <1>1, Shape, PipeAssumption DEF TextTypeOK, SlurpInv
<1>3. Len(InFlight) \in Nat
  BY <1>2, Tails, Shape DEF InFlight
<1>4. n \in 1..Len(InFlight)
  BY <1>1, <1>2, <1>3
<1>5. grown = SubSeq(taken, 1, pulled + n) /\ Len(InFlight) = Len(taken) - pulled
  BY <1>2, <1>4, ReadOn
<1>6. pulled' \in 0..Len(taken) /\ grown \in Seq(Nat) /\ Len(grown) \in Nat
  <2>1. pulled + n \in 0..Len(taken)
    BY <1>2, <1>4, <1>5
  <2> DEFINE end == pulled + n
  <2> HIDE DEF end
  <2>2. SubSeq(taken, 1, end) \in Seq(Nat) /\ Len(SubSeq(taken, 1, end)) = end
    BY <1>2, <2>1, Heads DEF end
  <2>3. grown \in Seq(Nat)
    BY <1>5, <2>2 DEF end
  <2>4. Len(grown) \in Nat
    BY <2>3, Shape
  <2> QED BY <1>1, <2>1, <2>3, <2>4
<1> HIDE DEF grown
<1>7. more \in [at : {"reading"}, got : Seq(Nat), cap : Nat \ {0}] /\ more.got = grown
  BY <1>1, <1>6 DEF TextTypeOK
<1> HIDE DEF more
<1>8. CASE Len(grown) > SlurpMax
  <2>1. slurp' \in [at : {"refused"}, got : Seq(Nat), cap : Nat \ {0}] /\ slurp'.got = grown
    BY <1>1, <1>7, <1>8 DEF SlurpEnds
  <2>2. TextTypeOK'
    BY <1>0, <1>6, <2>1 DEF TextTypeOK, textVars
  <2>3. SlurpInv'
    BY <1>8, <2>1 DEF SlurpInv
  <2> QED BY <1>0, <2>2, <2>3, WriterStays
<1>9. CASE ~(Len(grown) > SlurpMax)
  <2>1. slurp' = more
    BY <1>1, <1>7, <1>9
  <2>2. TextTypeOK'
    BY <1>0, <1>6, <1>7, <2>1 DEF TextTypeOK, textVars
  <2>3. Len(grown) <= SlurpMax
    BY <1>6, <1>9, PipeAssumption
  <2>4. SlurpInv'
    BY <1>0, <1>1, <1>5, <1>7, <2>1, <2>3 DEF SlurpInv
  <2> QED BY <1>0, <2>2, <2>4, WriterStays
<1> QED BY <1>8, <1>9

LEMMA SlurpGrowStep ==
    ASSUME TextOK, NEW fails \in BOOLEAN, SlurpGrow(fails)
    PROVE  TextOK'
<1> USE DEF TextOK
<1> DEFINE room == SlurpRoom(slurp.cap)
<1>1. /\ slurp.at = "reading" /\ Len(slurp.got) = slurp.cap /\ ends' \subseteq ends
      /\ UNCHANGED <<taken, pulled, push, textVars>>
      /\ \/ slurp' = SlurpEnds(slurp, "failed")
         \/ room <= slurp.cap /\ slurp' = SlurpEnds(slurp, "refused")
         \/ ~(room <= slurp.cap) /\ slurp' = [slurp EXCEPT !.cap = room]
  BY DEF SlurpGrow
<1>2. slurp.cap \in Nat \ {0} /\ slurp.got \in Seq(Nat) /\ Len(slurp.got) <= SlurpMax
  BY <1>1 DEF TextTypeOK, SlurpInv
<1>3. room \in Nat /\ SlurpMax \in Nat
  BY <1>2, PipeAssumption DEF SlurpRoom
<1>4. ~(room <= slurp.cap)
  BY <1>1, <1>2, <1>3 DEF SlurpRoom
<1>5. slurp' \in [at : {"reading", "failed"}, got : Seq(Nat), cap : Nat \ {0}] /\ slurp'.got = slurp.got
  <2> HIDE DEF room
  <2>1. CASE slurp' = SlurpEnds(slurp, "failed")
    BY <2>1 DEF TextTypeOK, SlurpEnds
  <2>2. CASE slurp' = [slurp EXCEPT !.cap = room]
    <3>1. room \in Nat \ {0}
      BY <1>2, <1>3, <1>4
    <3> QED BY <1>1, <2>2, <3>1 DEF TextTypeOK
  <2> QED BY <1>1, <1>4, <2>1, <2>2
<1>6. TextTypeOK'
  BY <1>1, <1>5 DEF TextTypeOK, textVars
<1>7. SlurpInv'
  BY <1>1, <1>5 DEF SlurpInv
<1> QED BY <1>1, <1>6, <1>7, WriterStays

LEMMA SlurpEndStep ==
    ASSUME TextOK, SlurpEnd
    PROVE  TextOK'
<1> USE DEF TextOK
<1>1. /\ slurp.at = "reading" /\ AtEnd /\ slurp' = [slurp EXCEPT !.at = "parsed"]
      /\ ends' = ends \ {"read"} /\ UNCHANGED <<taken, pulled, push, textVars>>
  BY DEF SlurpEnd, SlurpEnds, Close
<1>2. /\ taken \in Seq(Nat) /\ Len(taken) \in Nat /\ pulled \in 0..Len(taken)
      /\ slurp.got = SubSeq(taken, 1, pulled) /\ Len(slurp.got) <= SlurpMax
  BY <1>1, Shape DEF TextTypeOK, SlurpInv
<1>3. Len(taken) - pulled = 0
  <2>1. Len(InFlight) = Len(taken) - pulled
    BY <1>2, Tails DEF InFlight
  <2> QED BY <1>1, <2>1 DEF AtEnd
<1>4. SubSeq(taken, 1, pulled) = taken
  <2>1. /\ Len(SubSeq(taken, 1, pulled)) = pulled /\ SubSeq(taken, 1, pulled) \in Seq(Nat)
        /\ \A i \in 1..pulled : SubSeq(taken, 1, pulled)[i] = taken[i]
    BY <1>2, Heads
  <2>2. pulled = Len(taken)
    BY <1>2, <1>3
  <2> QED BY <1>2, <2>1, <2>2, SameSequence
<1>5. slurp' \in [at : {"parsed"}, got : Seq(Nat), cap : Nat \ {0}] /\ slurp'.got = slurp.got
  BY <1>1 DEF TextTypeOK
<1>6. TextTypeOK'
  BY <1>1, <1>5 DEF TextTypeOK, textVars
<1>7. SlurpInv'
  BY <1>1, <1>2, <1>4, <1>5 DEF SlurpInv
<1> QED BY <1>1, <1>6, <1>7, WriterStays

LEMMA SlurpFailsStep ==
    ASSUME TextOK, SlurpFails
    PROVE  TextOK'
<1> USE DEF TextOK
<1>1. /\ slurp' = [slurp EXCEPT !.at = "failed"] /\ slurp.at = "reading"
      /\ ends' = ends \ {"read"} /\ UNCHANGED <<taken, pulled, push, textVars>>
  BY DEF SlurpFails, SlurpEnds, Close
<1>2. slurp' \in [at : {"failed"}, got : Seq(Nat), cap : Nat \ {0}]
  BY <1>1 DEF TextTypeOK
<1>3. TextTypeOK'
  BY <1>1, <1>2 DEF TextTypeOK, textVars
<1>4. SlurpInv'
  BY <1>2 DEF SlurpInv
<1> QED BY <1>1, <1>3, <1>4, WriterStays

-----------------------------------------------------------------------------
LEMMA TextStarts == PipeInit => TextInv
<1> SUFFICES ASSUME PipeInit, mode = "text" PROVE TextOK
  BY DEF TextInv, TextOK
<1>1. /\ taken = <<>> /\ pulled = 0 /\ push = Idle /\ ends = {"read", "write"}
      /\ wbuf = <<>> /\ pending = <<>> /\ produced = 0
      /\ writer = [phase |-> "open", error |-> "none", offset |-> 0]
      /\ slurp = [at |-> "reading", got |-> <<>>, cap |-> SlurpStart]
  BY DEF PipeInit, ChannelInit, TextInit
<1>2. <<>> \in Seq(Nat) /\ Len(<<>>) = 0 /\ SubSeq(<<>>, 1, 0) = <<>>
  OBVIOUS
<1>3. TextTypeOK
  BY <1>1, <1>2, PipeAssumption DEF TextTypeOK, Idle
<1>4. WriterInv
  BY <1>1, <1>2, EmptyText, TextAssumption DEF WriterInv, Unwritten, Going
<1>5. SlurpInv
  BY <1>1, <1>2, PipeAssumption DEF SlurpInv
<1> QED BY <1>3, <1>4, <1>5 DEF TextOK

LEMMA TextKept == TextInv /\ [PipeNext]_vars => TextInv'
<1> SUFFICES ASSUME TextInv, [PipeNext]_vars, mode' = "text" PROVE TextOK'
  BY DEF TextInv, TextOK
<1>1. mode = "text"
  BY DEF PipeNext, Emit, WriterRefuses, WriterSteps, WriterFinish, WriterExits, WriterCrash, PipeTakes,
         PipeRefuses, Sends, SenderDies, Reads, ReaderFails, Slurps, SlurpBreaks, InText, InFrames,
         SlurpSome, SlurpGrow, SlurpEnd, SlurpFails, vars
<1>2. TextOK
  BY <1>1 DEF TextInv, TextOK
<1>3. ~InFrames
  BY <1>1 DEF InFrames
<1>4. CASE Emit
  BY <1>2, <1>4, SerPushStep DEF Emit, InText
<1>5. CASE WriterRefuses
  BY <1>2, <1>5, RefuseStep DEF WriterRefuses, InText
<1>6. CASE WriterSteps
  BY <1>2, <1>6, CopyStep, FlushReturnsStep, PhaseStep, LastFlushStep DEF WriterSteps, WriterStep, InText
<1>7. CASE WriterFinish
  BY <1>2, <1>7, FinishBeginsStep DEF WriterFinish, InText
<1>8. CASE WriterExits \/ WriterCrash
  BY <1>2, <1>8, ExitStep, CrashStep
<1>9. CASE PipeTakes \/ PipeRefuses
  BY <1>2, <1>9, TakeStep, TakeFailsStep DEF PipeTakes, PipeRefuses
<1>10. CASE Slurps
  BY <1>2, <1>10, SlurpSomeStep, SlurpGrowStep, SlurpEndStep DEF Slurps
<1>11. CASE SlurpBreaks
  BY <1>2, <1>11, SlurpGrowStep, SlurpFailsStep DEF SlurpBreaks
<1>12. CASE UNCHANGED vars
  <2>1. UNCHANGED <<taken, pulled, push, ends, wbuf, pending, produced, writer, slurp>>
    BY <1>12 DEF vars, channelVars, textVars
  <2>2. TextTypeOK'
    BY <1>2, <2>1 DEF TextOK, TextTypeOK, Idle
  <2> QED BY <1>2, <2>1, <2>2, WriterStays, SlurpStays DEF TextOK, textVars
<1> QED BY <1>3, <1>4, <1>5, <1>6, <1>7, <1>8, <1>9, <1>10, <1>11, <1>12
        DEF PipeNext, Sends, SenderDies, Reads, ReaderFails

LEMMA TextIsWhole == TextInv => TextWhole
<1> SUFFICES ASSUME TextInv, mode = "text" PROVE TextWhole
  BY DEF TextWhole
<1>1. TextTypeOK /\ WriterInv /\ SlurpInv
  BY DEF TextInv
<1>2. \A i \in DOMAIN taken : taken[i] = i
  BY <1>1, Shape DEF WriterInv, Follows, TextTypeOK
<1>3. writer.error = "none" /\ writer.phase # "killed" =>
         Len(taken) + (IF push = Idle THEN Len(wbuf) ELSE Len(push.left)) + Len(pending) = produced
  BY <1>1 DEF WriterInv, Going, Unwritten
<1>4. writer.phase = "finished" => Len(taken) = produced
  <2> SUFFICES ASSUME writer.phase = "finished" PROVE Len(taken) = produced
    OBVIOUS
  <2>1. Going /\ wbuf = <<>> /\ pending = <<>> /\ push = Idle
    BY <1>1 DEF WriterInv, Going
  <2>2. Unwritten = <<>> /\ Len(<<>>) = 0 /\ Len(taken) \in Nat
    BY <1>1, <2>1, Shape DEF Unwritten, TextTypeOK
  <2> QED BY <1>1, <2>1, <2>2 DEF WriterInv
<1> QED BY <1>1, <1>2, <1>3, <1>4 DEF TextWhole, WriterInv, SlurpInv

(* The text of a document crosses the pipe whole: what was taken is a      *)
(* prefix of what the serialiser produced, all of it once the writer has   *)
(* finished, and what is parsed is all that was taken.                     *)
THEOREM TextCrossesWhole == PipeSpec => []TextWhole
<1>1. PipeSpec => []TextInv
  BY TextStarts, TextKept, PTL DEF PipeSpec
<1> QED BY <1>1, TextIsWhole, PTL

-----------------------------------------------------------------------------
(* Where a frame begins in the stream.                                     *)

\* Every set of numbers that is not empty has a least element.
LEMMA LeastNatural ==
    ASSUME NEW T, T \subseteq Nat, NEW x \in T
    PROVE  \E m \in T : \A k \in T : m <= k
<1> DEFINE R == {p \in Nat \X Nat : p[1] < p[2]}
<1>1. IsWellFoundedOn(R, Nat)
  BY NatLessThanWellFounded DEF OpToRel
<1> HIDE DEF R
<1>2. PICK m \in T : \A k \in T : ~(<<k, m>> \in R)
  BY <1>1, WFMin
<1>3. \A j, k \in Nat : ~(<<k, j>> \in R) => j <= k
  BY DEF R
<1> QED BY <1>2, <1>3

LEMMA FrameSize ==
    ASSUME NEW fs \in Seq(Frame), NEW i \in 1..Len(fs)
    PROVE  /\ SizeOf(fs[i]) \in Nat \ {0} /\ HeaderSize = 2
           /\ fs[i].length = -1 => SizeOf(fs[i]) = 1
           /\ fs[i].length # -1 => fs[i].length \in Nat /\ SizeOf(fs[i]) = HeaderSize + fs[i].length
<1>1. fs[i] \in Frame
  OBVIOUS
<1>2. fs[i].length \in Nat \cup {-1}
  BY <1>1, PipeAssumption DEF Frame
<1> QED BY <1>2, StreamAssumption DEF SizeOf

LEMMA OffsetsDefined ==
    ASSUME NEW fs \in Seq(Frame)
    PROVE  Offsets(fs) = [k \in 0..Len(fs) |-> IF k = 0 THEN 0 ELSE Offsets(fs)[k - 1] + SizeOf(fs[k])]
<1> DEFINE Is(f, n) == f = [k \in 0..n |-> IF k = 0 THEN 0 ELSE f[k - 1] + SizeOf(fs[k])]
           None == {n \in Nat : ~\E f : Is(f, n)}
<1>1. ASSUME NEW n \in None PROVE FALSE
  <2> HIDE DEF Is
  <2>1. PICK m \in None : \A k \in None : m <= k
    BY LeastNatural
  <2>2. m \in Nat /\ ~\E f : Is(f, m)
    OBVIOUS
  <2>3. CASE m = 0
    <3>1. Is([k \in 0..0 |-> 0], 0)
      BY DEF Is
    <3> QED BY <2>2, <2>3, <3>1
  <2>4. CASE m # 0
    <3>1. m - 1 \in Nat /\ ~(m <= m - 1)
      BY <2>2, <2>4
    <3>2. PICK f : Is(f, m - 1)
      BY <2>1, <3>1
    <3> DEFINE g == [k \in 0..m |-> IF k = 0 THEN 0 ELSE f[k - 1] + SizeOf(fs[k])]
    <3>3. ASSUME NEW k \in 0..m, k # 0 PROVE g[k - 1] = f[k - 1]
      <4>1. k - 1 \in 0..(m - 1) /\ k - 1 \in 0..m
        BY <2>2, <3>3
      <4>2. f[k - 1] = IF k - 1 = 0 THEN 0 ELSE f[k - 1 - 1] + SizeOf(fs[k - 1])
        BY <3>2, <4>1 DEF Is
      <4>3. g[k - 1] = IF k - 1 = 0 THEN 0 ELSE f[k - 1 - 1] + SizeOf(fs[k - 1])
        BY <4>1
      <4> QED BY <4>2, <4>3
    <3>4. [k \in 0..m |-> IF k = 0 THEN 0 ELSE g[k - 1] + SizeOf(fs[k])]
            = [k \in 0..m |-> IF k = 0 THEN 0 ELSE f[k - 1] + SizeOf(fs[k])]
      <4> HIDE DEF g
      <4> QED BY <3>3
    <3>5. Is(g, m)
      BY <3>4 DEF Is
    <3> QED BY <2>2, <3>5
  <2> QED BY <2>3, <2>4
<1>2. Len(fs) \in Nat
  OBVIOUS
<1>3. \E f : Is(f, Len(fs))
  BY <1>1, <1>2
<1>4. Offsets(fs) = CHOOSE f : Is(f, Len(fs))
  BY DEF Offsets
<1>5. Is(Offsets(fs), Len(fs))
  <2> HIDE DEF Is
  <2> QED BY <1>3, <1>4
<1> QED BY <1>5

LEMMA OffsetsStep ==
    ASSUME NEW fs \in Seq(Frame)
    PROVE  /\ Offsets(fs)[0] = 0
           /\ \A k \in 1..Len(fs) : Offsets(fs)[k] = Offsets(fs)[k - 1] + SizeOf(fs[k])
<1> DEFINE at == Offsets(fs)
<1>1. at = [k \in 0..Len(fs) |-> IF k = 0 THEN 0 ELSE at[k - 1] + SizeOf(fs[k])]
  BY OffsetsDefined
<1>2. Len(fs) \in Nat
  OBVIOUS
<1> HIDE DEF at
<1>3. \A k \in 0..Len(fs) : at[k] = IF k = 0 THEN 0 ELSE at[k - 1] + SizeOf(fs[k])
  BY <1>1
<1>4. 0 \in 0..Len(fs) /\ \A k \in 1..Len(fs) : k \in 0..Len(fs) /\ k # 0
  BY <1>2
<1>5. at[0] = 0 /\ \A k \in 1..Len(fs) : at[k] = at[k - 1] + SizeOf(fs[k])
  BY <1>3, <1>4
<1> QED BY <1>5 DEF at

LEMMA OffsetsNatural ==
    ASSUME NEW fs \in Seq(Frame)
    PROVE  \A k \in 0..Len(fs) : Offsets(fs)[k] \in Nat
<1> DEFINE at == Offsets(fs)
           Bad == {k \in 0..Len(fs) : at[k] \notin Nat}
<1>1. Len(fs) \in Nat /\ Bad \subseteq Nat
  OBVIOUS
<1>0. at[0] = 0 /\ \A k \in 1..Len(fs) : at[k] = at[k - 1] + SizeOf(fs[k]) /\ SizeOf(fs[k]) \in Nat
  BY OffsetsStep, FrameSize
<1> HIDE DEF at
<1>2. ASSUME NEW b \in Bad PROVE FALSE
  <2>1. PICK m \in Bad : \A k \in Bad : m <= k
    BY <1>1, LeastNatural
  <2>2. m \in 0..Len(fs) /\ at[m] \notin Nat /\ m # 0
    BY <1>0
  <2>3. m \in 1..Len(fs) /\ m - 1 \in 0..Len(fs) /\ ~(m <= m - 1)
    BY <1>1, <2>2
  <2>4. at[m - 1] \in Nat
    BY <2>1, <2>3
  <2> QED BY <1>0, <2>2, <2>3, <2>4
<1>3. \A k \in 0..Len(fs) : at[k] \in Nat
  BY <1>2
<1> QED BY <1>3 DEF at

LEMMA OffsetsGrow ==
    ASSUME NEW fs \in Seq(Frame), NEW a \in 0..Len(fs), NEW b \in a..Len(fs)
    PROVE  Offsets(fs)[a] <= Offsets(fs)[b]
<1> DEFINE at == Offsets(fs)
           Bad == {k \in a..Len(fs) : ~(at[a] <= at[k])}
<1>1. Len(fs) \in Nat /\ Bad \subseteq Nat /\ a \in Nat
  OBVIOUS
<1>0. \A k \in 1..Len(fs) : at[k] = at[k - 1] + SizeOf(fs[k]) /\ SizeOf(fs[k]) \in Nat
  BY OffsetsStep, FrameSize
<1>2. \A k \in 0..Len(fs) : at[k] \in Nat
  BY OffsetsNatural
<1> HIDE DEF at
<1>3. ASSUME NEW c \in Bad PROVE FALSE
  <2>1. PICK m \in Bad : \A k \in Bad : m <= k
    BY <1>1, LeastNatural
  <2>2. m \in a..Len(fs) /\ ~(at[a] <= at[m])
    OBVIOUS
  <2>3. at[a] \in Nat /\ m # a
    BY <1>1, <1>2, <2>2
  <2>4. m \in 1..Len(fs) /\ m - 1 \in a..Len(fs) /\ m - 1 \in 0..Len(fs) /\ ~(m <= m - 1)
    BY <1>1, <2>2, <2>3
  <2>5. at[a] <= at[m - 1]
    BY <2>1, <2>4
  <2>6. at[m] = at[m - 1] + SizeOf(fs[m]) /\ SizeOf(fs[m]) \in Nat /\ at[m - 1] \in Nat
    BY <1>0, <1>2, <2>4
  <2> QED BY <2>2, <2>3, <2>5, <2>6
<1>4. at[a] <= at[b]
  BY <1>3
<1> QED BY <1>4 DEF at

-----------------------------------------------------------------------------
(* The frames.                                                             *)

FramesOK == FramesTypeOK /\ SenderInv /\ ReaderInv /\ ToldAsSent /\ EndsBetween

LEMMA FrameFacts ==
    ASSUME FramesTypeOK
    PROVE  /\ Len(taken) \in Nat /\ Len(frames) \in Nat /\ DOMAIN frames = 1..Len(frames)
           /\ HeaderSize = 2 /\ BytesUpTo(0) = 0
           /\ \A k \in 0..Len(frames) : BytesUpTo(k) \in Nat /\ BytesUpTo(k) <= BytesUpTo(Len(frames))
           /\ \A i \in 1..Len(frames) : BytesUpTo(i) = BytesUpTo(i - 1) + SizeOf(frames[i])
<1>1. frames \in Seq(Frame) /\ taken \in Seq(Byte)
  BY DEF FramesTypeOK
<1>2. Len(taken) \in Nat /\ Len(frames) \in Nat /\ DOMAIN frames = 1..Len(frames)
  BY <1>1, Shape
<1>3. \A k \in 0..Len(frames) : Len(frames) \in k..Len(frames)
  BY <1>2
<1>4. \A k \in 0..Len(frames) : Offsets(frames)[k] \in Nat /\ Offsets(frames)[k] <= Offsets(frames)[Len(frames)]
  BY <1>1, <1>3, OffsetsNatural, OffsetsGrow
<1>5. /\ Offsets(frames)[0] = 0
      /\ \A i \in 1..Len(frames) : Offsets(frames)[i] = Offsets(frames)[i - 1] + SizeOf(frames[i])
  BY <1>1, OffsetsStep
<1> QED BY <1>2, <1>4, <1>5, StreamAssumption DEF BytesUpTo

\* A position in the stream is one byte of one frame.
LEMMA OnePosition ==
    ASSUME FramesTypeOK, NEW i \in 1..Len(frames), NEW j \in 1..SizeOf(frames[i]),
           NEW n \in 1..Len(frames), NEW m \in 1..SizeOf(frames[n]),
           BytesUpTo(i - 1) + j = BytesUpTo(n - 1) + m
    PROVE  i = n /\ j = m
<1>1. frames \in Seq(Frame)
  BY DEF FramesTypeOK
<1>2. /\ Len(frames) \in Nat
      /\ i - 1 \in 0..Len(frames) /\ n - 1 \in 0..Len(frames) /\ i \in 0..Len(frames) /\ n \in 0..Len(frames)
  BY <1>1, Shape
<1>3. /\ SizeOf(frames[i]) \in Nat /\ SizeOf(frames[n]) \in Nat /\ BytesUpTo(i - 1) \in Nat /\ BytesUpTo(n - 1) \in Nat
      /\ BytesUpTo(i) = BytesUpTo(i - 1) + SizeOf(frames[i]) /\ BytesUpTo(n) = BytesUpTo(n - 1) + SizeOf(frames[n])
      /\ BytesUpTo(i) \in Nat /\ BytesUpTo(n) \in Nat
  BY <1>1, <1>2, FrameFacts, FrameSize
<1>4. CASE i < n
  <2>1. n - 1 \in i..Len(frames)
    BY <1>2, <1>4
  <2>2. BytesUpTo(i) <= BytesUpTo(n - 1)
    BY <1>1, <1>2, <2>1, OffsetsGrow DEF BytesUpTo
  <2> QED BY <1>3, <2>2
<1>5. CASE n < i
  <2>1. i - 1 \in n..Len(frames)
    BY <1>2, <1>5
  <2>2. BytesUpTo(n) <= BytesUpTo(i - 1)
    BY <1>1, <1>2, <2>1, OffsetsGrow DEF BytesUpTo
  <2> QED BY <1>3, <2>2
<1>6. CASE i = n
  BY <1>3, <1>6
<1> QED BY <1>2, <1>4, <1>5, <1>6

LEMMA Bytes ==
    /\ Junk \in Byte /\ Magic \in Byte /\ \A n \in Int : Length(n) \in Byte
    /\ \A i, j \in Int : <<i, j>> \in Byte
    /\ Magic # Junk /\ \A n : Length(n)[2] = n
BY DEF Junk, Magic, Length, Byte

LEMMA PayloadBytes ==
    ASSUME FramesTypeOK, NEW i \in 1..Len(frames), ~Stray(i)
    PROVE  /\ Payload(i) \in Seq(Byte) /\ Len(Payload(i)) = frames[i].length /\ frames[i].length \in Nat
           /\ \A j \in 1..frames[i].length : Payload(i)[j] = <<i, j>> /\ Payload(i)[j] = ByteOf(frames, i, j + 2)
<1>1. frames[i].length \in Nat
  BY FrameSize DEF FramesTypeOK, Stray
<1>2. \A j \in 1..frames[i].length : <<i, j>> \in Byte
  BY <1>1, Bytes
<1>3. Payload(i) \in Seq(Byte) /\ Len(Payload(i)) = frames[i].length
      /\ \A j \in 1..frames[i].length : Payload(i)[j] = <<i, j>>
  BY <1>1, <1>2 DEF Payload
<1>4. \A j \in 1..frames[i].length : ByteOf(frames, i, j + 2) = <<i, j>>
  BY <1>1 DEF ByteOf, Stray
<1> QED BY <1>1, <1>3, <1>4

\* What a step that is not theirs leaves of the parts.
LEMMA PartsStay ==
    ASSUME UNCHANGED frames
    PROVE  /\ SenderInv /\ UNCHANGED <<taken, push, sender>> => SenderInv'
           /\ ReaderInv /\ UNCHANGED <<reader, reported, pulled, taken>> /\ ends' \subseteq ends => ReaderInv'
           /\ ToldAsSent /\ UNCHANGED <<reader, reported>> => ToldAsSent'
           /\ EndsBetween /\ UNCHANGED <<reader, reported, taken>> => EndsBetween'
<1>1. \A k : BytesUpTo(k)' = BytesUpTo(k) /\ Stray(k)' = Stray(k) /\ Payload(k)' = Payload(k)
  BY DEF BytesUpTo, Stray, Payload
<1>2. UNCHANGED sender => PushEnds' = PushEnds
  BY DEF PushEnds, Stray
<1>3. UNCHANGED reader => Skipped' = Skipped
  BY DEF Skipped
<1>4. ASSUME SenderInv, UNCHANGED <<taken, push, sender>> PROVE SenderInv'
  BY <1>1, <1>2, <1>4 DEF SenderInv, Idle
<1>5. ASSUME ReaderInv, UNCHANGED <<reader, reported, pulled, taken>>, ends' \subseteq ends PROVE ReaderInv'
  BY <1>1, <1>3, <1>5 DEF ReaderInv
<1>6. ASSUME ToldAsSent, UNCHANGED <<reader, reported>> PROVE ToldAsSent'
  BY <1>1, <1>6 DEF ToldAsSent
<1>7. ASSUME EndsBetween, UNCHANGED <<reader, reported, taken>> PROVE EndsBetween'
  BY <1>1, <1>7 DEF EndsBetween
<1> QED BY <1>4, <1>5, <1>6, <1>7

\* The sender begins a frame.
LEMMA SendHeaderStep ==
    ASSUME FramesOK, SendHeader
    PROVE  FramesOK'
<1> USE DEF FramesOK
<1> DEFINE i == sender.next
           head == IF Stray(i) THEN <<Junk>> ELSE <<Magic, Length(frames[i].length)>>
<1>1. /\ sender.part = "header" /\ push = Idle /\ i <= Len(frames)
      /\ push' = [state |-> "busy", left |-> head] /\ sender' = [sender EXCEPT !.part = "sending"]
      /\ UNCHANGED <<frames, reader, reported, taken, pulled, ends>>
  BY DEF SendHeader, PushBegun
<1>2. /\ i \in 1..Len(frames) /\ Len(taken) \in Nat /\ i - 1 \in 0..Len(frames) /\ HeaderSize = 2
      /\ Len(taken) = BytesUpTo(i - 1)
  BY <1>1, FrameFacts DEF FramesTypeOK, SenderInv
<1>3. /\ sender' \in [next : 1..Len(frames) + 1, part : {"sending"}] /\ sender'.next = i
      /\ sender'.part = "sending"
  BY <1>1 DEF FramesTypeOK
<1>4. /\ Stray(i) => SizeOf(frames[i]) = 1
      /\ ~Stray(i) => frames[i].length \in Nat
  BY <1>2, FrameSize DEF FramesTypeOK, Stray
<1>5. /\ head \in Seq(Byte) /\ Len(head) = IF Stray(i) THEN 1 ELSE 2
      /\ \A j \in 1..Len(head) : head[j] = ByteOf(frames, i, j)
  <2>1. CASE Stray(i)
    BY <2>1, Bytes DEF ByteOf, Stray
  <2>2. CASE ~Stray(i)
    BY <2>2, <1>4, Bytes DEF ByteOf, Stray
  <2> QED BY <2>1, <2>2
<1>6. PushEnds' = Len(head)
  BY <1>1, <1>2, <1>3, <1>4, <1>5 DEF PushEnds, Stray
<1> HIDE DEF head
<1>7. push' \in [state : {"busy"}, left : Seq(Byte)] /\ push' # Idle /\ push'.state = "busy" /\ push'.left = head
  BY <1>1, <1>5 DEF Idle
<1>8. FramesTypeOK'
  BY <1>1, <1>3, <1>7 DEF FramesTypeOK
<1>9. SenderInv'
  <2>1. \A k : BytesUpTo(k)' = BytesUpTo(k)
    BY <1>1 DEF BytesUpTo
  <2>2. \A j \in DOMAIN head : head[j] = ByteOf(frames, i, Len(taken) + j - BytesUpTo(i - 1))
    <3> SUFFICES ASSUME NEW j \in DOMAIN head PROVE head[j] = ByteOf(frames, i, Len(taken) + j - BytesUpTo(i - 1))
      OBVIOUS
    <3>1. j \in 1..Len(head) /\ j \in Nat
      BY <1>5, Shape
    <3>2. Len(taken) + j - BytesUpTo(i - 1) = j
      BY <1>2, <3>1
    <3> QED BY <1>5, <3>1, <3>2
  <2>3. Len(taken) + Len(head) = BytesUpTo(i - 1) + PushEnds'
    BY <1>2, <1>6
  <2> QED BY <1>1, <1>2, <1>3, <1>7, <2>1, <2>2, <2>3 DEF SenderInv
<1> QED BY <1>1, <1>8, <1>9, PartsStay

\* A header is sent, and a document begun; or a frame is sent.
LEMMA HeaderSentStep ==
    ASSUME FramesOK, HeaderSent
    PROVE  FramesOK'
<1> USE DEF FramesOK
<1> DEFINE i == sender.next
<1>1. /\ sender.part = "sending" /\ push.left = <<>>
      /\ UNCHANGED <<frames, reader, reported, taken, pulled, ends>>
  BY DEF HeaderSent, Pushed
<1>2. /\ i \in 1..Len(frames) /\ Len(taken) \in Nat /\ i - 1 \in 0..Len(frames) /\ i \in 0..Len(frames)
      /\ HeaderSize = 2 /\ Len(frames) \in Nat
      /\ BytesUpTo(i - 1) \in Nat /\ Len(taken) = BytesUpTo(i - 1) + PushEnds
      /\ BytesUpTo(i) = BytesUpTo(i - 1) + SizeOf(frames[i])
  <2>1. i <= Len(frames) /\ Len(taken) + Len(push.left) = BytesUpTo(i - 1) + PushEnds /\ Len(<<>>) = 0
    BY <1>1 DEF SenderInv
  <2>2. i \in 1..Len(frames) /\ Len(taken) \in Nat /\ i - 1 \in 0..Len(frames) /\ i \in 0..Len(frames)
    BY <2>1, FrameFacts DEF FramesTypeOK
  <2> QED BY <1>1, <2>1, <2>2, FrameFacts
<1>3. /\ SizeOf(frames[i]) \in Nat
      /\ Stray(i) => SizeOf(frames[i]) = 1 /\ frames[i].length = -1
      /\ ~Stray(i) => frames[i].length \in Nat /\ SizeOf(frames[i]) = 2 + frames[i].length
  BY <1>2, FrameSize DEF FramesTypeOK, Stray
<1>4. PushEnds = IF Stray(i) THEN SizeOf(frames[i]) ELSE 2
  BY <1>1, <1>2 DEF PushEnds
<1>5. \A k : BytesUpTo(k)' = BytesUpTo(k)
  BY <1>1 DEF BytesUpTo
<1>6. CASE frames[i].length > 0
  <2>1. push' = [state |-> "busy", left |-> Payload(i)] /\ sender' = [sender EXCEPT !.part = "payload"]
    BY <1>6 DEF HeaderSent, PushBegun
  <2>2. ~Stray(i)
    BY <1>3, <1>6
  <2>3. /\ sender' \in [next : 1..Len(frames) + 1, part : {"payload"}] /\ sender'.next = i
        /\ sender'.part = "payload"
    BY <2>1 DEF FramesTypeOK
  <2>4. /\ Payload(i) \in Seq(Byte) /\ Len(Payload(i)) = frames[i].length
        /\ \A j \in 1..frames[i].length : Payload(i)[j] = ByteOf(frames, i, j + 2)
    BY <1>2, <2>2, PayloadBytes
  <2>5. push' \in [state : {"busy"}, left : Seq(Byte)] /\ push' # Idle /\ push'.state = "busy" /\ push'.left = Payload(i)
    BY <2>1, <2>4 DEF Idle
  <2>6. FramesTypeOK'
    BY <1>1, <2>3, <2>5 DEF FramesTypeOK
  <2>7. PushEnds' = SizeOf(frames[i])
    BY <1>1, <2>3 DEF PushEnds
  <2>8. \A j \in DOMAIN Payload(i) : Payload(i)[j] = ByteOf(frames, i, Len(taken) + j - BytesUpTo(i - 1))
    <3> SUFFICES ASSUME NEW j \in DOMAIN Payload(i)
                 PROVE  Payload(i)[j] = ByteOf(frames, i, Len(taken) + j - BytesUpTo(i - 1))
      OBVIOUS
    <3>1. j \in 1..frames[i].length /\ j \in Nat
      BY <2>4, Shape
    <3>2. Len(taken) + j - BytesUpTo(i - 1) = j + 2
      BY <1>2, <1>4, <2>2, <3>1
    <3> QED BY <2>4, <3>1, <3>2
  <2>9. Len(taken) + Len(Payload(i)) = BytesUpTo(i - 1) + PushEnds' /\ Len(taken) >= BytesUpTo(i - 1)
    <3>1. Len(taken) = BytesUpTo(i - 1) + 2 /\ BytesUpTo(i - 1) \in Nat
      BY <1>2, <1>4, <2>2
    <3>2. PushEnds' = 2 + frames[i].length /\ frames[i].length \in Nat /\ Len(Payload(i)) = frames[i].length
      BY <1>3, <2>2, <2>4, <2>7
    <3>3. \A a, b \in Nat : (a + 2) + b = a + (2 + b) /\ a + 2 >= a
      OBVIOUS
    <3> QED BY <3>1, <3>2, <3>3
  <2>10. SenderInv'
    BY <1>1, <1>2, <1>5, <2>3, <2>5, <2>8, <2>9 DEF SenderInv
  <2> QED BY <1>1, <2>6, <2>10, PartsStay
<1>7. CASE ~(frames[i].length > 0)
  <2>1. push' = Idle /\ sender' = [next |-> i + 1, part |-> "header"]
    BY <1>7 DEF HeaderSent
  <2>2. Len(taken) = BytesUpTo(i)
    BY <1>2, <1>3, <1>4, <1>7, SMTT(20)
  <2>3. i + 1 \in 1..Len(frames) + 1 /\ (i + 1) - 1 = i
    BY <1>2
  <2>4. FramesTypeOK'
    BY <1>1, <2>1, <2>3 DEF FramesTypeOK, Idle
  <2>5. SenderInv'
    BY <1>1, <1>5, <2>1, <2>2, <2>3 DEF SenderInv, Idle
  <2> QED BY <1>1, <2>4, <2>5, PartsStay
<1> QED BY <1>6, <1>7

LEMMA PayloadSentStep ==
    ASSUME FramesOK, PayloadSent
    PROVE  FramesOK'
<1> USE DEF FramesOK
<1> DEFINE i == sender.next
<1>1. /\ sender.part = "payload" /\ push.left = <<>> /\ push' = Idle
      /\ sender' = [next |-> i + 1, part |-> "header"]
      /\ UNCHANGED <<frames, reader, reported, taken, pulled, ends>>
  BY DEF PayloadSent, Pushed
<1>2. i <= Len(frames) /\ Len(taken) + Len(push.left) = BytesUpTo(i - 1) + PushEnds /\ Len(<<>>) = 0
  BY <1>1 DEF SenderInv
<1>3. i \in 1..Len(frames) /\ Len(taken) \in Nat /\ Len(frames) \in Nat
  BY <1>2, FrameFacts DEF FramesTypeOK
<1>4. Len(taken) = BytesUpTo(i) /\ i + 1 \in 1..Len(frames) + 1 /\ (i + 1) - 1 = i
  BY <1>1, <1>2, <1>3, FrameFacts DEF PushEnds
<1>5. \A k : BytesUpTo(k)' = BytesUpTo(k)
  BY <1>1 DEF BytesUpTo
<1>6. FramesTypeOK'
  BY <1>1, <1>4 DEF FramesTypeOK, Idle
<1>7. SenderInv'
  BY <1>1, <1>4, <1>5 DEF SenderInv, Idle
<1> QED BY <1>1, <1>6, <1>7, PartsStay

\* Done, failed or killed, the sender is gone.
LEMMA SenderGoneStep ==
    ASSUME FramesOK, SendFails \/ SenderDone \/ SenderCrash
    PROVE  FramesOK'
<1> USE DEF FramesOK
<1>1. /\ push' = Idle /\ sender' = [sender EXCEPT !.part = "gone"] /\ ends' \subseteq ends
      /\ UNCHANGED <<frames, reader, reported, taken, pulled>>
  BY DEF SendFails, SenderDone, SenderCrash, Close
<1>2. sender' \in [next : 1..Len(frames) + 1, part : {"gone"}] /\ sender'.part = "gone"
  BY <1>1 DEF FramesTypeOK
<1>3. \A k : BytesUpTo(k)' = BytesUpTo(k)
  BY <1>1 DEF BytesUpTo
<1>4. FramesTypeOK'
  BY <1>1, <1>2 DEF FramesTypeOK, Idle
<1>5. SenderInv'
  BY <1>1, <1>2, <1>3 DEF SenderInv, Idle
<1> QED BY <1>1, <1>4, <1>5, PartsStay

-----------------------------------------------------------------------------
(* The pipe takes some of a frame.                                         *)

LEMMA FrameTakenStep ==
    ASSUME FramesOK, UNCHANGED <<frames, sender, reader, reported>>, NEW n \in 1..Capacity, Write(n)
    PROVE  FramesOK'
<1> USE DEF FramesOK
<1> DEFINE i    == sender.next
           left == push.left
           head == SubSeq(left, 1, n)
           tail == SubSeq(left, n + 1, Len(left))
           base == BytesUpTo(i - 1)
           all  == taken \o head
<1>1. /\ push.state = "busy" /\ "read" \in ends /\ n <= Len(left)
      /\ taken' = all /\ push' = [push EXCEPT !.left = tail]
      /\ UNCHANGED <<frames, reader, reported, sender, pulled, ends>>
  BY DEF Write
<1>2. /\ left \in Seq(Byte) /\ taken \in Seq(Byte) /\ Len(left) \in Nat /\ Len(taken) \in Nat
      /\ n \in 1..Len(left) /\ n \in 0..Len(left) /\ n \in Nat /\ pulled \in 0..Len(taken)
      /\ \A j \in 1..Len(left) : j \in DOMAIN left
  BY <1>1, Shape, ChannelAssumption, SMTT(20) DEF FramesTypeOK
<1>3. push # Idle /\ sender.part \in {"sending", "payload"}
  BY <1>1 DEF SenderInv, Idle, FramesTypeOK
<1>4. /\ i \in 1..Len(frames) /\ i - 1 \in 0..Len(frames) /\ i \in 0..Len(frames) /\ Len(frames) \in Nat
      /\ base \in Nat /\ BytesUpTo(i) = base + SizeOf(frames[i]) /\ BytesUpTo(i) <= BytesUpTo(Len(frames))
      /\ BytesUpTo(Len(frames)) \in Nat
  <2>1. i <= Len(frames)
    BY <1>3 DEF SenderInv
  <2>2. i \in 1..Len(frames) /\ i - 1 \in 0..Len(frames) /\ i \in 0..Len(frames) /\ Len(frames) \in Nat
    BY <2>1, FrameFacts DEF FramesTypeOK
  <2>3. Len(frames) \in 0..Len(frames)
    BY <2>2
  <2> QED BY <2>2, <2>3, FrameFacts
<1>5. /\ Len(taken) >= base /\ Len(taken) + Len(left) = base + PushEnds
      /\ \A j \in DOMAIN left : left[j] = ByteOf(frames, i, Len(taken) + j - base)
  BY <1>3 DEF SenderInv
<1>6. PushEnds \in Nat /\ PushEnds <= SizeOf(frames[i]) /\ SizeOf(frames[i]) \in Nat
  <2>1. /\ SizeOf(frames[i]) \in Nat \ {0} /\ HeaderSize = 2
        /\ ~Stray(i) => frames[i].length \in Nat /\ SizeOf(frames[i]) = HeaderSize + frames[i].length
    BY <1>4, FrameSize DEF Stray, FramesTypeOK
  <2>2. CASE sender.part = "payload" \/ Stray(i)
    BY <2>1, <2>2 DEF PushEnds
  <2>3. CASE ~(sender.part = "payload" \/ Stray(i))
    <3>1. PushEnds = HeaderSize
      BY <2>3 DEF PushEnds
    <3> QED BY <2>1, <2>3, <3>1
  <2> QED BY <2>2, <2>3
<1>7. /\ head \in Seq(Byte) /\ Len(head) = n /\ \A j \in 1..n : head[j] = left[j]
  BY <1>2, Heads
<1>8. /\ tail \in Seq(Byte) /\ Len(tail) = Len(left) - n /\ DOMAIN tail = 1..(Len(left) - n)
      /\ \A j \in 1..(Len(left) - n) : tail[j] = left[n + j]
  BY <1>2, Tails, Shape
<1> HIDE DEF head, tail, left, base
<1>9. /\ all \in Seq(Byte) /\ Len(all) = Len(taken) + n
      /\ \A j \in 1..Len(taken) : all[j] = taken[j]
      /\ \A j \in (Len(taken) + 1)..(Len(taken) + n) : j - Len(taken) \in 1..n /\ all[j] = head[j - Len(taken)]
  BY <1>2, <1>7, Joined
<1> HIDE DEF all
<1>10. push' \in [state : {"busy"}, left : Seq(Byte)] /\ push'.left = tail /\ push' # Idle
  BY <1>1, <1>8 DEF FramesTypeOK, Idle
<1>11. \A k : BytesUpTo(k)' = BytesUpTo(k) /\ Stray(k)' = Stray(k) /\ Payload(k)' = Payload(k)
  BY <1>1 DEF BytesUpTo, Stray, Payload
<1>12. FramesTypeOK'
  <2>1. pulled \in 0..Len(all)
    BY <1>2, <1>9
  <2> QED BY <1>1, <1>9, <1>10, <2>1 DEF FramesTypeOK
<1>13. Len(taken) + n <= base + PushEnds /\ Len(taken) + n <= BytesUpTo(Len(frames))
  BY <1>2, <1>4, <1>5, <1>6, SMTT(20)
<1>14. ASSUME NEW f \in 1..Len(frames), NEW j \in 1..SizeOf(frames[f]), BytesUpTo(f - 1) + j <= Len(all)
       PROVE  all[BytesUpTo(f - 1) + j] = ByteOf(frames, f, j)
  <2> DEFINE q == BytesUpTo(f - 1) + j
  <2>1. BytesUpTo(f - 1) \in Nat /\ SizeOf(frames[f]) \in Nat /\ q \in Nat /\ q >= 1 /\ j \in Nat
    <3>1. f - 1 \in 0..Len(frames)
      BY <1>4
    <3>2. BytesUpTo(f - 1) \in Nat /\ SizeOf(frames[f]) \in Nat
      BY <3>1, FrameFacts, FrameSize DEF FramesTypeOK
    <3> QED BY <3>2
  <2>2. q <= Len(taken) + n
    BY <1>9, <1>14
  <2>3. CASE q <= Len(taken)
    <3>1. q \in 1..Len(taken)
      BY <1>2, <2>1, <2>3
    <3>2. taken[q] = ByteOf(frames, f, j)
      BY <2>3, FrameFacts DEF SenderInv
    <3> QED BY <1>9, <3>1, <3>2
  <2>4. CASE ~(q <= Len(taken))
    <3> DEFINE m == q - base
    <3>1. q \in (Len(taken) + 1)..(Len(taken) + n) /\ q - Len(taken) \in 1..Len(left)
      BY <1>2, <2>1, <2>2, <2>4
    <3>2. all[q] = left[q - Len(taken)]
      BY <1>7, <1>9, <3>1
    <3>3. left[q - Len(taken)] = ByteOf(frames, i, Len(taken) + (q - Len(taken)) - base)
      BY <1>2, <1>5, <3>1
    <3>4. Len(taken) + (q - Len(taken)) - base = m
      BY <1>2, <1>4, <2>1, SMTT(20)
    <3>5. m \in 1..SizeOf(frames[i]) /\ base + m = q
      <4>1. \A l, b, p, z, x \in Nat :
               p <= z /\ l >= b /\ x <= b + p /\ ~(x <= l) => x - b \in 1..z /\ b + (x - b) = x
        OBVIOUS
      <4>2. q <= base + PushEnds
        <5> HIDE DEF q
        <5> QED BY <1>2, <1>4, <1>6, <1>13, <2>1, <2>2
      <4> HIDE DEF q
      <4>3. q - base \in 1..SizeOf(frames[i]) /\ base + (q - base) = q
        <5>1. /\ Len(taken) \in Nat /\ base \in Nat /\ PushEnds \in Nat /\ SizeOf(frames[i]) \in Nat /\ q \in Nat
              /\ PushEnds <= SizeOf(frames[i]) /\ Len(taken) >= base /\ ~(q <= Len(taken))
          BY <1>2, <1>4, <1>5, <1>6, <2>1, <2>4 DEF q
        <5> QED BY <4>1, <4>2, <5>1
      <4> QED BY <4>3
    <3> HIDE DEF m
    <3>6. BytesUpTo(f - 1) + j = BytesUpTo(i - 1) + m
      BY <3>5 DEF base
    <3>7. f = i /\ j = m
      BY <1>4, <3>5, <3>6, OnePosition
    <3> QED BY <3>2, <3>3, <3>4, <3>7
  <2> QED BY <2>3, <2>4
<1>15. SenderInv'
  <2>1. PushEnds' = PushEnds
    BY <1>1, <1>11 DEF PushEnds
  <2>2. Len(taken') + Len(push'.left) = base + PushEnds /\ Len(taken') >= base
    <3>1. \A l, b, p, k, m \in Nat : l + k = b + p /\ l >= b => (l + m) + (k - m) = b + p /\ l + m >= b
      OBVIOUS
    <3>2. Len(taken') = Len(taken) + n /\ Len(push'.left) = Len(left) - n
      BY <1>1, <1>8, <1>9, <1>10
    <3>3. /\ Len(taken) \in Nat /\ base \in Nat /\ PushEnds \in Nat /\ Len(left) \in Nat /\ n \in Nat
          /\ Len(taken) + Len(left) = base + PushEnds /\ Len(taken) >= base
      BY <1>2, <1>4, <1>5, <1>6
    <3>4. (Len(taken) + n) + (Len(left) - n) = base + PushEnds /\ Len(taken) + n >= base
      BY <3>1, <3>3
    <3> QED BY <3>2, <3>4
  <2>3. ASSUME NEW j \in DOMAIN tail PROVE tail[j] = ByteOf(frames, i, Len(all) + j - base)
    <3>1. j \in 1..(Len(left) - n) /\ n + j \in 1..Len(left) /\ j \in Nat
      BY <1>2, <1>8
    <3>2. tail[j] = ByteOf(frames, i, Len(taken) + (n + j) - base)
      BY <1>2, <1>5, <1>8, <3>1
    <3>3. Len(all) + j - base = Len(taken) + (n + j) - base
      BY <1>2, <1>4, <1>9, <3>1
    <3> QED BY <3>2, <3>3
  <2>4. Len(all) <= BytesUpTo(Len(frames))
    BY <1>9, <1>13
  <2>5. DOMAIN frames = 1..Len(frames)
    BY FrameFacts
  <2> QED BY <1>1, <1>3, <1>4, <1>10, <1>11, <1>14, <2>1, <2>2, <2>3, <2>4, <2>5 DEF SenderInv, base
<1>16. ReaderInv'
  <2>1. Skipped' = Skipped /\ Skipped \in Nat
    BY <1>1, FrameFacts DEF Skipped
  <2>2. ASSUME reader.at # "ended", NEW j \in DOMAIN reader.got
        PROVE  /\ BytesUpTo(reader.count) + Skipped + j \in 1..Len(taken)
               /\ reader.got[j] = all[BytesUpTo(reader.count) + Skipped + j]
    <3>1. reader.got \in Seq(Byte) /\ reader.count \in 0..Len(frames)
      BY DEF FramesTypeOK, ToldAsSent
    <3>2. Len(reader.got) \in Nat /\ j \in 1..Len(reader.got) /\ BytesUpTo(reader.count) \in Nat
      BY <3>1, Shape, FrameFacts
    <3>3. pulled = BytesUpTo(reader.count) + Skipped + Len(reader.got)
      BY <2>2 DEF ReaderInv
    <3>4. BytesUpTo(reader.count) + Skipped + j \in 1..Len(taken)
      BY <1>2, <2>1, <3>2, <3>3
    <3>5. reader.got[j] = taken[BytesUpTo(reader.count) + Skipped + j]
      BY <2>2 DEF ReaderInv
    <3> QED BY <1>9, <3>4, <3>5
  <2> QED BY <1>1, <1>11, <2>1, <2>2 DEF ReaderInv
<1>17. EndsBetween'
  BY <1>1 DEF EndsBetween, ReaderInv
<1> QED BY <1>1, <1>12, <1>15, <1>16, <1>17, PartsStay

LEMMA FrameRefusedStep ==
    ASSUME FramesOK, UNCHANGED <<frames, sender, reader, reported>>, WriteFails
    PROVE  FramesOK'
<1> USE DEF FramesOK
<1>1. /\ push.state = "busy" /\ push' = [push EXCEPT !.state = "failed"]
      /\ UNCHANGED <<frames, sender, reader, reported, taken, pulled, ends>>
  BY DEF WriteFails
<1>2. push' \in [state : {"failed"}, left : Seq(Byte)] /\ push'.left = push.left /\ push # Idle /\ push' # Idle
  <2>1. push \in [state : {"idle", "busy", "failed"}, left : Seq(Byte)]
    BY DEF FramesTypeOK
  <2>2. push' \in [state : {"failed"}, left : Seq(Byte)] /\ push'.left = push.left /\ push'.state = "failed"
    BY <1>1, <2>1
  <2> QED BY <1>1, <2>2 DEF Idle
<1>3. FramesTypeOK'
  BY <1>1, <1>2 DEF FramesTypeOK
<1>4. SenderInv'
  <2>1. \A k : BytesUpTo(k)' = BytesUpTo(k)
    BY <1>1 DEF BytesUpTo
  <2>2. PushEnds' = PushEnds
    BY <1>1 DEF PushEnds, Stray
  <2> QED BY <1>1, <1>2, <2>1, <2>2 DEF SenderInv
<1> QED BY <1>1, <1>3, <1>4, PartsStay

-----------------------------------------------------------------------------
(* The reader of the frames.                                               *)

\* What has been read of the frame at hand.
LEMMA GotBytes ==
    ASSUME FramesOK, reader.at # "ended"
    PROVE  /\ reader.got \in Seq(Byte) /\ Len(reader.got) \in Nat /\ Skipped \in {0, 2}
           /\ reader.count \in 0..Len(frames) /\ BytesUpTo(reader.count) \in Nat
           /\ pulled = BytesUpTo(reader.count) + Skipped + Len(reader.got) /\ pulled <= Len(taken)
           /\ \A j \in 1..Len(reader.got) : reader.got[j] = taken[BytesUpTo(reader.count) + Skipped + j]
<1>1. reader.got \in Seq(Byte) /\ reader.count \in 0..Len(frames) /\ pulled \in 0..Len(taken)
  BY DEF FramesOK, FramesTypeOK, ToldAsSent
<1>2. Len(reader.got) \in Nat /\ DOMAIN reader.got = 1..Len(reader.got)
  BY <1>1, Shape
<1>3. Skipped \in {0, 2} /\ BytesUpTo(reader.count) \in Nat /\ Len(taken) \in Nat
  BY <1>1, FrameFacts DEF Skipped, FramesOK
<1>4. /\ pulled = BytesUpTo(reader.count) + Skipped + Len(reader.got)
      /\ \A j \in 1..Len(reader.got) : reader.got[j] = taken[BytesUpTo(reader.count) + Skipped + j]
  BY <1>2 DEF ReaderInv, FramesOK
<1>5. pulled <= Len(taken)
  BY <1>1, <1>3
<1> QED BY <1>1, <1>2, <1>3, <1>4, <1>5

\* Something read past the documents told is some of the frame after them.
LEMMA FrameAtHand ==
    ASSUME FramesOK, reader.at # "ended", NEW j \in 1..Len(reader.got)
    PROVE  /\ reader.count + 1 \in 1..Len(frames) /\ (reader.count + 1) - 1 = reader.count
           /\ Skipped + j <= SizeOf(frames[reader.count + 1]) =>
                 reader.got[j] = ByteOf(frames, reader.count + 1, Skipped + j)
<1> DEFINE count == reader.count
           at    == BytesUpTo(count)
           far   == Len(reader.got)
           total == Len(taken)
           last  == Len(frames)
<1>1. /\ far \in Nat /\ Skipped \in Nat /\ count \in 0..last /\ at \in Nat
      /\ pulled = at + Skipped + far /\ pulled <= total /\ j \in 1..far
      /\ reader.got[j] = taken[at + Skipped + j]
  <2>1. Skipped \in Nat
    BY GotBytes
  <2> QED BY <2>1, GotBytes
<1>2. total \in Nat /\ last \in Nat /\ DOMAIN frames = 1..last /\ total <= BytesUpTo(last)
  BY FrameFacts DEF FramesOK, SenderInv
<1>3. count # last
  <2> SUFFICES ASSUME count = last PROVE FALSE
    OBVIOUS
  <2>1. total <= at
    BY <1>2
  <2> HIDE DEF at, count, last, total, far
  <2> QED BY <1>1, <1>2, <2>1
<1>4. count + 1 \in 1..last /\ (count + 1) - 1 = count
  <2> HIDE DEF at, count, last, total, far
  <2> QED BY <1>1, <1>2, <1>3
<1>5. ASSUME Skipped + j <= SizeOf(frames[count + 1]) PROVE reader.got[j] = ByteOf(frames, count + 1, Skipped + j)
  <2>1. SizeOf(frames[count + 1]) \in Nat
    BY <1>4, FrameSize DEF FramesOK, FramesTypeOK
  <2>2. Skipped + j \in 1..SizeOf(frames[count + 1])
    BY <1>1, <1>5, <2>1, SMTT(20)
  <2>3. at + (Skipped + j) <= total /\ at + (Skipped + j) = at + Skipped + j
    <3> HIDE DEF at, count, last, total, far
    <3> QED BY <1>1, <1>2
  <2>4. at = BytesUpTo((count + 1) - 1)
    BY <1>4
  <2>5. taken[at + (Skipped + j)] = ByteOf(frames, count + 1, Skipped + j)
    <3> HIDE DEF at
    <3> QED BY <1>2, <1>4, <2>2, <2>3, <2>4 DEF SenderInv, FramesOK
  <2> QED BY <1>1, <2>3, <2>5
<1> QED BY <1>4, <1>5

LEMMA ReadSomeStep ==
    ASSUME FramesOK, NEW n \in 1..MaxDocument + HeaderSize, ReadSome(n)
    PROVE  FramesOK'
<1> USE DEF FramesOK
<1> DEFINE got  == reader.got
           more == got \o Given(n)
           at   == BytesUpTo(reader.count)
<1>1. /\ reader.at \in {"header", "payload"} /\ n \in 1..(reader.cap - Len(got)) /\ n <= Len(InFlight)
      /\ pulled' = pulled + n /\ reader' = [reader EXCEPT !.got = more]
      /\ UNCHANGED <<frames, sender, reported, taken, push, ends>>
  BY DEF ReadSome, Read, Wanted
<1>2. /\ got \in Seq(Byte) /\ Len(got) \in Nat /\ Skipped \in {0, 2} /\ at \in Nat
      /\ pulled = at + Skipped + Len(got)
      /\ \A j \in 1..Len(got) : got[j] = taken[at + Skipped + j]
  BY <1>1, GotBytes
<1>3. taken \in Seq(Byte) /\ pulled \in 0..Len(taken) /\ n \in Nat /\ Len(taken) \in Nat /\ reader.cap \in Nat
  BY StreamAssumption, FrameFacts DEF FramesTypeOK
<1>4. Len(InFlight) = Len(taken) - pulled
  BY <1>3, Tails DEF InFlight
<1>5. n \in 1..Len(InFlight) /\ pulled + n \in 0..Len(taken)
  BY <1>1, <1>3, <1>4
<1>6. Given(n) \in Seq(Byte) /\ Len(Given(n)) = n /\ \A j \in 1..n : Given(n)[j] = taken[pulled + j]
  BY <1>3, <1>5, ReadOn
<1> DEFINE given == Given(n)
<1> HIDE DEF given, got, at
<1>7. /\ more \in Seq(Byte) /\ Len(more) = Len(got) + n /\ DOMAIN more = 1..(Len(got) + n)
      /\ \A j \in 1..Len(got) : more[j] = got[j]
      /\ \A j \in (Len(got) + 1)..(Len(got) + n) : j - Len(got) \in 1..n /\ more[j] = Given(n)[j - Len(got)]
      /\ \A j \in 1..(Len(got) + n) : j \in 1..Len(got) \/ j \in (Len(got) + 1)..(Len(got) + n)
  <2>1. given \in Seq(Byte) /\ Len(given) = n
    BY <1>6 DEF given
  <2>2. /\ got \o given \in Seq(Byte) /\ Len(got \o given) = Len(got) + Len(given)
        /\ \A j \in 1..Len(got) : (got \o given)[j] = got[j]
        /\ \A j \in (Len(got) + 1)..(Len(got) + Len(given)) :
              j - Len(got) \in 1..Len(given) /\ (got \o given)[j] = given[j - Len(got)]
        /\ \A j \in 1..(Len(got) + Len(given)) : j \in 1..Len(got) \/ j \in (Len(got) + 1)..(Len(got) + Len(given))
    BY <1>2, <2>1, Joined
  <2>3. DOMAIN (got \o given) = 1..Len(got \o given)
    BY <2>2, Shape
  <2> QED BY <2>1, <2>2, <2>3 DEF given
<1> HIDE DEF more
<1>8. ASSUME NEW j \in 1..(Len(got) + n) PROVE more[j] = taken[at + Skipped + j]
  <2>1. CASE j \in 1..Len(got)
    BY <1>2, <1>7, <2>1
  <2>2. CASE j \in (Len(got) + 1)..(Len(got) + n)
    <3>1. j - Len(got) \in 1..n /\ more[j] = taken[pulled + (j - Len(got))]
      BY <1>6, <1>7, <2>2
    <3>2. pulled + (j - Len(got)) = at + Skipped + j
      BY <1>2, <2>2
    <3> QED BY <3>1, <3>2
  <2> QED BY <1>7, <2>1, <2>2
<1>9. /\ reader' \in [at : {"header", "payload", "ended"}, got : Seq(Byte), want : Nat, cap : Nat,
                      count : Nat, resilient : BOOLEAN, result : BOOLEAN]
      /\ reader'.got = more /\ reader'.at = reader.at /\ reader'.want = reader.want /\ reader'.cap = reader.cap
      /\ reader'.count = reader.count /\ reader'.resilient = reader.resilient /\ reader'.result = reader.result
  BY <1>1, <1>7 DEF FramesTypeOK
<1>10. FramesTypeOK'
  BY <1>1, <1>5, <1>9 DEF FramesTypeOK
<1>11. \A k : BytesUpTo(k)' = BytesUpTo(k) /\ Stray(k)' = Stray(k) /\ Payload(k)' = Payload(k)
  BY <1>1 DEF BytesUpTo, Stray, Payload
<1>12. ReaderInv'
  <2>1. Skipped' = Skipped /\ reader.at # "ended"
    BY <1>1, <1>9 DEF Skipped
  <2>2. pulled + n = at + Skipped + (Len(got) + n)
    BY <1>2, <1>3
  <2>3. Len(got) + n <= reader.cap
    BY <1>1, <1>2, <1>3 DEF got
  <2>4. \A j \in DOMAIN more : more[j] = taken[at + Skipped + j]
    BY <1>7, <1>8
  <2> QED BY <1>1, <1>7, <1>9, <1>11, <2>1, <2>2, <2>3, <2>4 DEF ReaderInv, at
<1>13. ToldAsSent' /\ EndsBetween'
  BY <1>1, <1>9, <1>11 DEF ToldAsSent, EndsBetween
<1> QED BY <1>1, <1>10, <1>12, <1>13, PartsStay

LEMMA GrowStep ==
    ASSUME FramesOK, Grow
    PROVE  FramesOK'
<1> USE DEF FramesOK
<1> DEFINE cap == IF reader.cap > reader.want \div 2 THEN reader.want ELSE reader.cap * 2
<1>1. /\ reader.at = "payload" /\ Len(reader.got) = reader.cap /\ reader' = [reader EXCEPT !.cap = cap]
      /\ UNCHANGED <<frames, sender, reported, taken, pulled, push, ends>>
  BY DEF Grow, channelVars
<1>2. reader.cap \in Nat /\ reader.want \in Nat /\ reader.cap <= reader.want
  BY <1>1 DEF FramesTypeOK, ReaderInv
<1>3. cap \in Nat /\ cap <= reader.want /\ reader.cap <= cap
  BY <1>2
<1> HIDE DEF cap
<1>4. /\ reader' \in [at : {"header", "payload", "ended"}, got : Seq(Byte), want : Nat, cap : Nat,
                      count : Nat, resilient : BOOLEAN, result : BOOLEAN]
      /\ reader'.got = reader.got /\ reader'.at = reader.at /\ reader'.want = reader.want /\ reader'.cap = cap
      /\ reader'.count = reader.count /\ reader'.resilient = reader.resilient /\ reader'.result = reader.result
  BY <1>1, <1>3 DEF FramesTypeOK
<1>5. FramesTypeOK'
  BY <1>1, <1>4 DEF FramesTypeOK
<1>6. \A k : BytesUpTo(k)' = BytesUpTo(k) /\ Stray(k)' = Stray(k) /\ Payload(k)' = Payload(k)
  BY <1>1 DEF BytesUpTo, Stray, Payload
<1>7. ReaderInv'
  BY <1>1, <1>3, <1>4, <1>6 DEF ReaderInv, Skipped
<1>8. ToldAsSent' /\ EndsBetween'
  BY <1>1, <1>4, <1>6 DEF ToldAsSent, EndsBetween
<1> QED BY <1>1, <1>5, <1>7, <1>8, PartsStay

\* The sequence ends.
LEMMA EndStep ==
    ASSUME FramesOK, NEW result \in BOOLEAN, reader' = Ended(reader, result),
           ends' \subseteq ends, UNCHANGED <<frames, sender, reported, taken, pulled, push>>,
           result => /\ "read" \notin ends' /\ reader.at = "header" /\ reader.got = <<>> /\ InFlight = <<>>
    PROVE  FramesOK'
<1> USE DEF FramesOK
<1>1. /\ reader' \in [at : {"ended"}, got : Seq(Byte), want : Nat, cap : Nat,
                      count : Nat, resilient : BOOLEAN, result : BOOLEAN]
      /\ reader'.result = result /\ reader'.count = reader.count /\ reader'.resilient = reader.resilient
  BY DEF FramesTypeOK, Ended
<1>2. FramesTypeOK'
  BY <1>1 DEF FramesTypeOK, Idle
<1>3. \A k : BytesUpTo(k)' = BytesUpTo(k) /\ Stray(k)' = Stray(k) /\ Payload(k)' = Payload(k)
  BY DEF BytesUpTo, Stray, Payload
<1>4. ReaderInv'
  BY <1>1 DEF ReaderInv
<1>5. ToldAsSent'
  BY <1>1, <1>3 DEF ToldAsSent
<1>6. EndsBetween'
  <2> SUFFICES ASSUME result
               PROVE  /\ BytesUpTo(Len(reported)) = Len(taken)
                      /\ \A i \in DOMAIN reported : ~reported[i].veto /\ (reported[i].ok \/ reader.resilient)
    BY <1>1, <1>3 DEF EndsBetween
  <2>1. reader.at = "header" /\ Len(reader.got) = 0 /\ Skipped = 0 /\ Len(InFlight) = 0
    BY DEF Skipped
  <2>2. Len(InFlight) = Len(taken) - pulled /\ Len(taken) \in Nat /\ pulled \in Nat
    <3>1. taken \in Seq(Byte) /\ pulled \in 0..Len(taken)
      BY DEF FramesTypeOK
    <3> QED BY <3>1, Tails, Shape DEF InFlight
  <2>3. pulled = BytesUpTo(reader.count) /\ BytesUpTo(reader.count) \in Nat
    BY <2>1, GotBytes
  <2> QED BY <2>1, <2>2, <2>3 DEF ReaderInv, ToldAsSent
<1> QED BY <1>2, <1>4, <1>5, <1>6, PartsStay

\* A header: a document that may come is the one that was sent.
LEMMA HeaderReadStep ==
    ASSUME FramesOK, HeaderRead
    PROVE  FramesOK'
<1> USE DEF FramesOK
<1> DEFINE i == reader.count + 1
           n == reader.got[2][2]
<1>1. /\ reader.at = "header" /\ Len(reader.got) = 2
      /\ UNCHANGED <<frames, sender, reported, taken, pulled, push>>
  BY StreamAssumption DEF HeaderRead
<1>2. /\ i \in 1..Len(frames) /\ Skipped = 0 /\ HeaderSize = 2
      /\ 1 <= SizeOf(frames[i]) => reader.got[1] = ByteOf(frames, i, 1)
      /\ 2 <= SizeOf(frames[i]) => reader.got[2] = ByteOf(frames, i, 2)
  <2>1. Skipped = 0
    BY <1>1 DEF Skipped
  <2>2. 1 \in 1..Len(reader.got) /\ 2 \in 1..Len(reader.got) /\ Skipped + 1 = 1 /\ Skipped + 2 = 2
    BY <1>1, <2>1
  <2>3. i \in 1..Len(frames) /\ (Skipped + 1 <= SizeOf(frames[i]) => reader.got[1] = ByteOf(frames, i, Skipped + 1))
    BY <1>1, <2>2, FrameAtHand
  <2>4. Skipped + 2 <= SizeOf(frames[i]) => reader.got[2] = ByteOf(frames, i, Skipped + 2)
    BY <1>1, <2>2, FrameAtHand
  <2> QED BY <2>1, <2>2, <2>3, <2>4, StreamAssumption
<1>3. /\ SizeOf(frames[i]) \in Nat \ {0}
      /\ ~Stray(i) => frames[i].length \in Nat /\ SizeOf(frames[i]) = 2 + frames[i].length
  BY <1>2, FrameSize DEF Stray, FramesTypeOK
<1>4. reader.got[1] = ByteOf(frames, i, 1)
  <2>1. 1 <= SizeOf(frames[i])
    BY <1>3
  <2> QED BY <1>2, <2>1
<1>5. CASE ~Sound(reader.got) \/ n > MaxDocument
  <2>1. reader' = Ended(reader, FALSE) /\ ends' = ends \ {"read"}
    BY <1>5 DEF HeaderRead
  <2>2. ends' \subseteq ends /\ FALSE \in BOOLEAN
    BY <2>1
  <2> QED BY <1>1, <2>1, <2>2, EndStep
<1>6. CASE Sound(reader.got) /\ ~(n > MaxDocument)
  <2>1. ~Stray(i)
    BY <1>4, <1>6, Bytes DEF Sound, ByteOf, Stray
  <2>2. frames[i].length \in Nat /\ n = frames[i].length
    <3>1. frames[i].length \in Nat /\ 2 <= SizeOf(frames[i])
      BY <1>3, <2>1
    <3>2. reader.got[2] = Length(frames[i].length)
      BY <1>2, <2>1, <3>1 DEF ByteOf, Stray
    <3> QED BY <3>1, <3>2, Bytes
  <2> HIDE DEF n
  <2> DEFINE cap == IF n < GrowStart THEN n ELSE GrowStart
  <2>3. /\ reader' = [reader EXCEPT !.at = "payload", !.got = <<>>, !.want = n, !.cap = cap]
        /\ UNCHANGED ends
    BY <1>6 DEF HeaderRead, n
  <2>4. n \in Nat /\ cap \in Nat /\ cap <= n /\ n <= MaxDocument /\ 0 <= cap
    BY <1>6, <2>2, StreamAssumption
  <2> HIDE DEF cap
  <2>5. /\ reader' \in [at : {"header", "payload", "ended"}, got : Seq(Byte), want : Nat, cap : Nat,
                        count : Nat, resilient : BOOLEAN, result : BOOLEAN]
        /\ reader'.got = <<>> /\ reader'.at = "payload" /\ reader'.want = n /\ reader'.cap = cap
        /\ reader'.count = reader.count /\ reader'.resilient = reader.resilient /\ reader'.result = reader.result
    <3>1. reader \in [at : {"header", "payload", "ended"}, got : Seq(Byte), want : Nat, cap : Nat,
                       count : Nat, resilient : BOOLEAN, result : BOOLEAN] /\ <<>> \in Seq(Byte)
      BY DEF FramesTypeOK
    <3> HIDE DEF FramesOK
    <3> QED BY <2>3, <2>4, <3>1
  <2>6. FramesTypeOK'
    BY <1>1, <2>3, <2>5 DEF FramesTypeOK, Idle
  <2>7. \A k : BytesUpTo(k)' = BytesUpTo(k) /\ Stray(k)' = Stray(k) /\ Payload(k)' = Payload(k)
    BY <1>1 DEF BytesUpTo, Stray, Payload
  <2>8. ReaderInv'
    <3>1. reader.count < Len(frames) /\ Skipped' = 2
      BY <1>2, <2>5, FrameFacts DEF Skipped, FramesTypeOK
    <3>2. BytesUpTo(reader.count) \in Nat /\ pulled = BytesUpTo(reader.count) + 0 + 2
      BY <1>1, <1>2, GotBytes
    <3>3. pulled = BytesUpTo(reader.count) + 2 + 0 /\ Len(<<>>) = 0 /\ DOMAIN <<>> = {}
      BY <3>2
    <3> QED BY <1>1, <2>1, <2>2, <2>3, <2>4, <2>5, <2>7, <3>1, <3>3 DEF ReaderInv
  <2>9. ToldAsSent' /\ EndsBetween'
    BY <1>1, <2>5, <2>7 DEF ToldAsSent, EndsBetween
  <2> QED BY <1>1, <2>6, <2>8, <2>9, PartsStay
<1> QED BY <1>5, <1>6

\* A document that is complete is the one that was sent.
LEMMA PayloadComplete ==
    ASSUME FramesOK, reader.at = "payload", Len(reader.got) = reader.want
    PROVE  /\ reader.count + 1 \in 1..Len(frames) /\ ~Stray(reader.count + 1)
           /\ frames[reader.count + 1].length <= MaxDocument
           /\ reader.got = Payload(reader.count + 1) /\ pulled = BytesUpTo(reader.count + 1)
<1> USE DEF FramesOK
<1> DEFINE i == reader.count + 1
<1>1. /\ reader.count < Len(frames) /\ ~Stray(i) /\ reader.want = frames[i].length /\ reader.want <= MaxDocument
  BY DEF ReaderInv
<1>2. /\ reader.got \in Seq(Byte) /\ reader.count \in 0..Len(frames) /\ BytesUpTo(reader.count) \in Nat
      /\ pulled = BytesUpTo(reader.count) + Skipped + Len(reader.got)
  BY GotBytes
<1>3. i \in 1..Len(frames) /\ i - 1 = reader.count
  BY <1>1, <1>2, FrameFacts
<1>4. /\ Payload(i) \in Seq(Byte) /\ Len(Payload(i)) = frames[i].length /\ frames[i].length \in Nat
      /\ \A j \in 1..frames[i].length : Payload(i)[j] = ByteOf(frames, i, j + 2)
  BY <1>1, <1>3, PayloadBytes
<1>5. SizeOf(frames[i]) = 2 + frames[i].length /\ Skipped = 2
  BY <1>1, <1>3, FrameSize DEF FramesTypeOK, Stray, Skipped
<1>6. ASSUME NEW j \in 1..Len(reader.got) PROVE reader.got[j] = Payload(i)[j]
  <2>1. Skipped + j = j + 2 /\ Skipped + j <= SizeOf(frames[i]) /\ j \in 1..frames[i].length
    BY <1>1, <1>4, <1>5
  <2>2. reader.got[j] = ByteOf(frames, i, Skipped + j)
    BY <2>1, FrameAtHand
  <2> QED BY <1>4, <2>1, <2>2
<1>7. reader.got = Payload(i)
  BY <1>1, <1>2, <1>4, <1>6, SameSequence
<1>8. pulled = BytesUpTo(i)
  <2>1. BytesUpTo(i) = BytesUpTo(reader.count) + SizeOf(frames[i])
    BY <1>3, FrameFacts
  <2>2. /\ BytesUpTo(reader.count) \in Nat /\ frames[i].length \in Nat
        /\ pulled = BytesUpTo(reader.count) + 2 + frames[i].length
        /\ BytesUpTo(i) = BytesUpTo(reader.count) + (2 + frames[i].length)
    BY <1>1, <1>2, <1>4, <1>5, <2>1
  <2>3. \A a, b \in Nat : a + 2 + b = a + (2 + b)
    OBVIOUS
  <2> QED BY <2>2, <2>3
<1> QED BY <1>1, <1>3, <1>7, <1>8

LEMMA DocumentReadStep ==
    ASSUME FramesOK, NEW veto \in BOOLEAN, DocumentRead(veto)
    PROVE  FramesOK'
<1> USE DEF FramesOK
<1> DEFINE i    == reader.count + 1
           ok   == Parses(reader.got)
           next == [reader EXCEPT !.count = @ + 1]
           stop == veto \/ (~ok /\ ~reader.resilient)
           told == [payload |-> reader.got, ok |-> ok, veto |-> veto]
<1>1. /\ reader.at = "payload" /\ Len(reader.got) = reader.want /\ reported' = Append(reported, told)
      /\ reader' = IF stop THEN Ended(next, FALSE) ELSE AtHeader(next)
      /\ ends' \subseteq ends
      /\ UNCHANGED <<frames, sender, taken, pulled, push>>
  BY DEF DocumentRead
<1>2. /\ i \in 1..Len(frames) /\ ~Stray(i) /\ frames[i].length <= MaxDocument /\ reader.got = Payload(i)
      /\ pulled = BytesUpTo(i)
  BY <1>1, PayloadComplete
<1>3. /\ reader.got \in Seq(Byte) /\ HeaderSize = 2 /\ ok \in BOOLEAN /\ reader.count = Len(reported)
      /\ reported \in Seq([payload : Seq(Byte), ok : BOOLEAN, veto : BOOLEAN]) /\ Len(frames) \in Nat
      /\ i - 1 = reader.count /\ i \in Nat
  <2>1. reader.got \in Seq(Byte) /\ HeaderSize = 2 /\ reader.count = Len(reported)
        /\ reported \in Seq([payload : Seq(Byte), ok : BOOLEAN, veto : BOOLEAN]) /\ Len(frames) \in Nat
    BY StreamAssumption, FrameFacts DEF FramesTypeOK, ToldAsSent
  <2>2. ok \in BOOLEAN
    BY DEF Parses
  <2>3. reader.count \in Nat
    BY DEF FramesTypeOK
  <2> HIDE DEF ok
  <2> QED BY <2>1, <2>2, <2>3
<1>4. /\ ok => \E j \in DOMAIN frames : frames[j].sound /\ Payload(j) = Payload(i)
      /\ frames[i].sound => ok
  BY <1>2, FrameFacts DEF Parses
<1> HIDE DEF ok
<1>5. told \in [payload : Seq(Byte), ok : BOOLEAN, veto : BOOLEAN]
      /\ told.payload = Payload(i) /\ told.ok = ok /\ told.veto = veto
  BY <1>2, <1>3
<1> HIDE DEF told
<1>6. /\ reported' \in Seq([payload : Seq(Byte), ok : BOOLEAN, veto : BOOLEAN])
      /\ Len(reported') = i /\ DOMAIN reported' = 1..i /\ reported'[i] = told
      /\ DOMAIN reported = 1..(i - 1) /\ \A k \in 1..(i - 1) : reported'[k] = reported[k]
  BY <1>1, <1>3, <1>5
<1>7. /\ reader' \in [at : {"header", "payload", "ended"}, got : Seq(Byte), want : Nat, cap : Nat,
                      count : Nat, resilient : BOOLEAN, result : BOOLEAN]
      /\ reader'.count = i /\ reader'.resilient = reader.resilient
      /\ stop => reader'.at = "ended" /\ ~reader'.result
      /\ ~stop => /\ reader'.at = "header" /\ reader'.got = <<>> /\ reader'.want = 2 /\ reader'.cap = 2
                  /\ reader'.result = reader.result
  <2> DEFINE R == [at : {"header", "payload", "ended"}, got : Seq(Byte), want : Nat, cap : Nat,
                   count : Nat, resilient : BOOLEAN, result : BOOLEAN]
  <2>1. reader \in R /\ <<>> \in Seq(Byte)
    BY DEF FramesTypeOK
  <2>2. next \in R /\ next.count = i /\ next.resilient = reader.resilient /\ next.result = reader.result
    BY <1>3, <2>1
  <2> HIDE DEF next, FramesOK
  <2>3. CASE stop
    BY <1>1, <2>2, <2>3 DEF Ended
  <2>4. CASE ~stop
    BY <1>1, <1>3, <2>1, <2>2, <2>4 DEF AtHeader
  <2> QED BY <2>3, <2>4
<1>8. FramesTypeOK'
  BY <1>1, <1>6, <1>7 DEF FramesTypeOK, Idle
<1>9. \A k : BytesUpTo(k)' = BytesUpTo(k) /\ Stray(k)' = Stray(k) /\ Payload(k)' = Payload(k)
  BY <1>1 DEF BytesUpTo, Stray, Payload
<1>10. ~reader.result /\ \A k \in 1..(i - 1) : ~reported[k].veto /\ (reported[k].ok \/ reader.resilient)
  BY <1>1, <1>6 DEF ReaderInv
<1>11. ToldAsSent'
  <2>1. ASSUME NEW k \in 1..i
        PROVE  /\ ~Stray(k) /\ frames[k].length <= MaxDocument
               /\ reported'[k].payload = Payload(k)
               /\ reported'[k].ok => \E j \in DOMAIN frames : frames[j].sound /\ Payload(j) = Payload(k)
               /\ frames[k].sound => reported'[k].ok
               /\ k < i => ~reported'[k].veto /\ (reported'[k].ok \/ reader.resilient)
    <3>1. CASE k = i
      BY <1>2, <1>3, <1>4, <1>5, <1>6, <3>1
    <3>2. CASE k # i
      <4>1. k \in 1..(i - 1)
        BY <1>3, <3>2
      <4> QED BY <1>6, <1>10, <4>1 DEF ToldAsSent
    <3> QED BY <3>1, <3>2
  <2>2. i <= Len(frames)
    BY <1>2, <1>3
  <2> QED BY <1>1, <1>6, <1>7, <1>9, <2>1, <2>2 DEF ToldAsSent
<1>12. EndsBetween'
  BY <1>7, <1>10 DEF EndsBetween
<1>13. ReaderInv'
  <2>1. CASE stop
    BY <1>7, <2>1 DEF ReaderInv
  <2>2. CASE ~stop
    <3>1. Skipped' = 0 /\ Len(<<>>) = 0 /\ DOMAIN <<>> = {}
      BY <1>7, <2>2 DEF Skipped
    <3>2. BytesUpTo(i) \in Nat /\ BytesUpTo(i) + 0 + 0 = BytesUpTo(i)
      <4>1. i \in 0..Len(frames)
        BY <1>2, <1>3
      <4>2. BytesUpTo(i) \in Nat
        BY <4>1, FrameFacts
      <4> QED BY <4>2
    <3>3. \A k \in 1..i : ~reported'[k].veto /\ (reported'[k].ok \/ reader.resilient)
      <4> SUFFICES ASSUME NEW k \in 1..i PROVE ~reported'[k].veto /\ (reported'[k].ok \/ reader.resilient)
        OBVIOUS
      <4>1. CASE k = i
        BY <1>5, <1>6, <2>2, <4>1
      <4>2. CASE k # i
        <5>1. k \in 1..(i - 1)
          BY <1>3, <4>2
        <5> QED BY <1>6, <1>10, <5>1
      <4> QED BY <4>1, <4>2
    <3>4. BytesUpTo(reader.count)' = BytesUpTo(i)
      BY <1>1, <1>7 DEF BytesUpTo
    <3>5. pulled' = BytesUpTo(reader.count)' + Skipped' + Len(reader'.got)
      BY <1>1, <1>2, <1>7, <2>2, <3>1, <3>2, <3>4
    <3>6. /\ reader'.at = "header" /\ ~reader'.result /\ Len(reader'.got) <= reader'.cap /\ reader'.cap <= reader'.want
          /\ reader'.want = HeaderSize /\ DOMAIN reader'.got = {} /\ reader'.resilient = reader.resilient
          /\ DOMAIN reported' = 1..i
      BY <1>3, <1>6, <1>7, <1>10, <2>2, <3>1
    <3> QED BY <3>3, <3>5, <3>6 DEF ReaderInv
  <2> QED BY <2>1, <2>2
<1> QED BY <1>1, <1>8, <1>11, <1>12, <1>13, PartsStay

-----------------------------------------------------------------------------
LEMMA FramesStart == PipeInit => FramesInv
<1> SUFFICES ASSUME PipeInit, mode = "frames" PROVE FramesOK
  BY DEF FramesInv, FramesOK
<1>1. /\ taken = <<>> /\ pulled = 0 /\ push = Idle
      /\ sender = [next |-> 1, part |-> "header"] /\ reported = <<>>
  BY DEF PipeInit, ChannelInit, StreamInit
<1>2. frames \in Seq(Frame)
  <2>1. PICK k \in 0..MaxFrames : frames \in [1..k -> Frame]
    BY DEF PipeInit
  <2>2. k \in Nat
    BY PipeAssumption
  <2> QED BY <2>1, <2>2
<1>3. PICK resilient \in BOOLEAN :
        reader = AtHeader([at |-> "", got |-> <<>>, want |-> 0, cap |-> 0, count |-> 0,
                           resilient |-> resilient, result |-> FALSE])
  BY DEF PipeInit, StreamInit
<1>4. reader = [at |-> "header", got |-> <<>>, want |-> HeaderSize, cap |-> HeaderSize, count |-> 0,
                resilient |-> resilient, result |-> FALSE] /\ HeaderSize = 2
  BY <1>3, StreamAssumption DEF AtHeader
<1>5. Len(frames) \in Nat /\ 1 \in 1..Len(frames) + 1
  <2>1. Len(frames) \in Nat
    BY <1>2, Shape
  <2> QED BY <2>1
<1>6. <<>> \in Seq(Byte) /\ Len(<<>>) = 0 /\ <<>> \in Seq([payload : Seq(Byte), ok : BOOLEAN, veto : BOOLEAN])
      /\ DOMAIN <<>> = {}
  OBVIOUS
<1>7. FramesTypeOK
  <2>1. reader \in [at : {"header", "payload", "ended"}, got : Seq(Byte), want : Nat, cap : Nat,
                    count : Nat, resilient : BOOLEAN, result : BOOLEAN]
    BY <1>4, <1>6
  <2>2. sender \in [next : 1..Len(frames) + 1, part : {"header", "sending", "payload", "gone"}]
    BY <1>1, <1>5
  <2>3. push \in [state : {"idle", "busy", "failed"}, left : Seq(Byte)]
    BY <1>1, <1>6 DEF Idle
  <2> QED BY <1>1, <1>2, <1>6, <2>1, <2>2, <2>3 DEF FramesTypeOK
<1>8. BytesUpTo(0) = 0 /\ 0 <= BytesUpTo(Len(frames)) /\ 0 <= Len(frames) /\ 1 - 1 = 0
  <2>1. 0 \in 0..Len(frames)
    BY <1>5
  <2> QED BY <1>7, <2>1, FrameFacts
<1>9. SenderInv
  <2>1. ASSUME NEW i \in DOMAIN frames, NEW j \in 1..SizeOf(frames[i]) PROVE ~(BytesUpTo(i - 1) + j <= Len(taken))
    <3>1. i \in 1..Len(frames) /\ i - 1 \in 0..Len(frames)
      BY <1>5, <1>7, FrameFacts
    <3>2. SizeOf(frames[i]) \in Nat /\ BytesUpTo(i - 1) \in Nat
      BY <1>2, <1>7, <3>1, FrameFacts, FrameSize
    <3> QED BY <1>1, <1>6, <3>2
  <2> QED BY <1>1, <1>6, <1>8, <2>1 DEF SenderInv
<1>10. ReaderInv
  BY <1>1, <1>4, <1>6, <1>8 DEF ReaderInv, Skipped
<1>11. ToldAsSent /\ EndsBetween
  BY <1>1, <1>4, <1>6, <1>8 DEF ToldAsSent, EndsBetween
<1> QED BY <1>7, <1>9, <1>10, <1>11 DEF FramesOK

LEMMA FramesKept == FramesInv /\ [PipeNext]_vars => FramesInv'
<1> SUFFICES ASSUME FramesInv, [PipeNext]_vars, mode' = "frames" PROVE FramesOK'
  BY DEF FramesInv, FramesOK
<1>1. mode = "frames"
  BY DEF PipeNext, Emit, WriterRefuses, WriterSteps, WriterFinish, WriterExits, WriterCrash, PipeTakes,
         PipeRefuses, Sends, SenderDies, Reads, ReaderFails, Slurps, SlurpBreaks, InText, InFrames,
         SlurpSome, SlurpGrow, SlurpEnd, SlurpFails, vars
<1>2. FramesOK
  BY <1>1 DEF FramesInv, FramesOK
<1>3. mode # "text" /\ ~InText
  BY <1>1 DEF InText
<1>4. CASE PipeTakes \/ PipeRefuses
  BY <1>2, <1>4, FrameTakenStep, FrameRefusedStep DEF PipeTakes, PipeRefuses, streamVars
<1>5. CASE Sends \/ SenderDies
  BY <1>2, <1>5, SendHeaderStep, HeaderSentStep, PayloadSentStep, SenderGoneStep
     DEF Sends, SenderDies, SenderStep
<1>6. CASE Reads
  <2>1. ReaderStep
    BY <1>6 DEF Reads
  <2>2. CASE \E n \in 1..MaxDocument + HeaderSize : ReadSome(n)
    BY <1>2, <2>2, ReadSomeStep
  <2>3. CASE Grow
    BY <1>2, <2>3, GrowStep
  <2>4. CASE ReadEnd
    <3> DEFINE result == reader.at = "header" /\ reader.got = <<>>
    <3>1. /\ reader' = Ended(reader, result) /\ result \in BOOLEAN /\ ends' = ends \ {"read"} /\ InFlight = <<>>
          /\ UNCHANGED <<frames, sender, reported, taken, pulled, push>>
      BY <2>4 DEF ReadEnd, Close, AtEnd
    <3>2. ends' \subseteq ends /\ (result => "read" \notin ends' /\ reader.at = "header" /\ reader.got = <<>>)
      BY <3>1
    <3> HIDE DEF result
    <3> QED BY <1>2, <3>1, <3>2, EndStep
  <2>5. CASE HeaderRead
    BY <1>2, <2>5, HeaderReadStep
  <2>6. CASE \E veto \in BOOLEAN : DocumentRead(veto)
    BY <1>2, <2>6, DocumentReadStep
  <2> QED BY <2>1, <2>2, <2>3, <2>4, <2>5, <2>6 DEF ReaderStep
<1>7. CASE ReaderFails
  <2>1. /\ reader' = Ended(reader, FALSE) /\ ends' \subseteq ends
        /\ UNCHANGED <<frames, sender, reported, taken, pulled, push>>
    BY <1>7 DEF ReaderFails, GrowFails, ReadFails, Close
  <2>2. FALSE \in BOOLEAN
    OBVIOUS
  <2> QED BY <1>2, <2>1, <2>2, EndStep
<1>8. CASE UNCHANGED vars
  <2>1. UNCHANGED <<frames, sender, reader, reported, taken, pulled, push, ends>>
    BY <1>8 DEF vars, channelVars, streamVars
  <2>2. FramesTypeOK'
    BY <1>2, <2>1 DEF FramesOK, FramesTypeOK, Idle
  <2> QED BY <1>2, <2>1, <2>2, PartsStay DEF FramesOK
<1> QED BY <1>3, <1>4, <1>5, <1>6, <1>7, <1>8
        DEF PipeNext, Emit, WriterRefuses, WriterSteps, WriterFinish, WriterExits, WriterCrash, Slurps, SlurpBreaks

LEMMA FramesAreWhole == FramesInv => FramesWhole
BY DEF FramesInv, FramesWhole

(* The documents told are the documents sent, each whole, in order and     *)
(* judged right, however the bytes were cut; and the sequence succeeds     *)
(* only where the stream ends between two frames.                          *)
THEOREM FramesCrossWhole == PipeSpec => []FramesWhole
<1>1. PipeSpec => []FramesInv
  BY FramesStart, FramesKept, PTL DEF PipeSpec
<1> QED BY <1>1, FramesAreWhole, PTL
=============================================================================

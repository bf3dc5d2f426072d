--------------------------- MODULE DomDocumentProofs ---------------------------
(***************************************************************************)
(* The tree the builder makes is the document the events told, at every    *)
(* event of every document, whatever its size, its shape and its failures. *)
(***************************************************************************)
EXTENDS DomDocument, DomProofs

-----------------------------------------------------------------------------
(* The account of some events is defined, and grows with them.             *)
NodeKinds == Kinds \cup {"document", "struct", "array", "octets"}
Marks == {"stream_start", "struct_start", "struct_end", "row_start", "row_end", "dim_start", "octets_start", "octets_end"}
EventSet == [ev : Marks] \cup [ev : {"assignment_start"}, key : Keys]
              \cup [ev : {"octets"}, chunk : Chunks] \cup [ev : {"data"}, kind : Kinds]

Name(t, i) == IF i \in DOMAIN t THEN t[i].ev ELSE "none"
Recounts(f, t, m) ==
    f = [n \in 0..m |-> IF n = 0 THEN NothingTold ELSE Told(f[n - 1], Name(t, n - 1), t[n], Name(t, n + 1))]

\* Account after account exists.
LEMMA AccountsDefined ==
    ASSUME NEW t, Len(t) \in Nat
    PROVE  Recounts(Accounts(t), t, Len(t))
<1> DEFINE None == {n \in Nat : ~\E f : Recounts(f, t, n)}
           Next(f, k) == Told(f[k - 1], Name(t, k - 1), t[k], Name(t, k + 1))
<1>1. ASSUME NEW x \in None PROVE FALSE
  <2>1. PICK m \in None : \A k \in None : m <= k
    BY LeastNatural
  <2>2. m \in Nat /\ ~\E f : Recounts(f, t, m)
    OBVIOUS
  <2>3. CASE m = 0
    <3>1. Recounts([k \in 0..0 |-> NothingTold], t, 0)
      BY DEF Recounts
    <3> QED BY <2>2, <2>3, <3>1
  <2>4. CASE m # 0
    <3>1. m - 1 \in Nat /\ ~(m <= m - 1)
      BY <2>2, <2>4
    <3>2. PICK f : Recounts(f, t, m - 1)
      BY <2>1, <3>1
    <3> DEFINE g == [k \in 0..m |-> IF k = 0 THEN NothingTold ELSE Next(f, k)]
    <3>3. ASSUME NEW k \in 0..m, k # 0 PROVE g[k - 1] = f[k - 1]
      <4>1. k - 1 \in 0..(m - 1) /\ k - 1 \in 0..m
        BY <2>2, <3>3
      <4>2. f[k - 1] = IF k - 1 = 0 THEN NothingTold ELSE Next(f, k - 1)
        BY <3>2, <4>1 DEF Recounts
      <4> QED BY <4>1, <4>2
    <3>4. [k \in 0..m |-> IF k = 0 THEN NothingTold ELSE Next(g, k)]
            = [k \in 0..m |-> IF k = 0 THEN NothingTold ELSE Next(f, k)]
      <4> HIDE DEF g
      <4> QED BY <3>3
    <3>5. Recounts(g, t, m)
      BY <3>4 DEF Recounts
    <3> QED BY <2>2, <3>5
  <2> QED BY <2>3, <2>4
<1>2. \E f : Recounts(f, t, Len(t))
  BY <1>1
<1>3. Accounts(t) = CHOOSE f : Recounts(f, t, Len(t))
  BY DEF Accounts, Recounts, Name
<1> QED BY <1>2, <1>3

\* The account after each event.
LEMMA AccountsAt ==
    ASSUME NEW t, Len(t) \in Nat
    PROVE  /\ Accounts(t)[0] = NothingTold
           /\ \A n \in 1..Len(t) : Accounts(t)[n] = Told(Accounts(t)[n - 1], Name(t, n - 1), t[n], Name(t, n + 1))
<1> DEFINE f == Accounts(t)
<1>1. Recounts(f, t, Len(t))
  BY AccountsDefined
<1> HIDE DEF f
<1>2. \A n \in 0..Len(t) : f[n] = IF n = 0 THEN NothingTold ELSE Told(f[n - 1], Name(t, n - 1), t[n], Name(t, n + 1))
  BY <1>1 DEF Recounts
<1>3. 0 \in 0..Len(t) /\ \A n \in 1..Len(t) : n \in 0..Len(t) /\ n # 0
  OBVIOUS
<1> QED BY <1>2, <1>3 DEF f

\* One event more changes nothing before the last.
LEMMA AccountsAppended ==
    ASSUME NEW t \in Seq(EventSet), NEW e \in EventSet
    PROVE  LET n == Len(t)
               u == Append(t, e)
           IN /\ \A k \in 0..n : k < n \/ n = 0 => Accounts(u)[k] = Accounts(t)[k]
              /\ n > 0 => /\ Accounts(u)[n] = Told(Accounts(t)[n - 1], Name(t, n - 1), t[n], e.ev)
                          /\ Accounts(t)[n] = Told(Accounts(t)[n - 1], Name(t, n - 1), t[n], "none")
              /\ Accounts(u)[n + 1] = Told(Accounts(u)[n], Name(t, n), e, "none")
<1> DEFINE n == Len(t)
           u == Append(t, e)
           A == Accounts(t)
           B == Accounts(u)
<1>1. /\ n \in Nat /\ Len(u) = n + 1 /\ u \in Seq(EventSet) /\ DOMAIN t = 1..n /\ DOMAIN u = 1..(n + 1)
      /\ u[n + 1] = e /\ \A k \in 1..n : u[k] = t[k]
  OBVIOUS
<1> HIDE DEF u, n
<1>2. /\ \A k \in 0..n : Name(u, k) = Name(t, k)
      /\ Name(u, n + 1) = e.ev /\ Name(u, n + 1 + 1) = "none" /\ Name(t, n + 1) = "none"
  <2>1. Name(u, n + 1) = e.ev /\ Name(u, n + 1 + 1) = "none" /\ Name(t, n + 1) = "none"
    BY <1>1 DEF Name
  <2>2. ASSUME NEW k \in 0..n PROVE Name(u, k) = Name(t, k)
    BY <1>1 DEF Name
  <2> QED BY <2>1, <2>2
<1>3. /\ A[0] = NothingTold /\ B[0] = NothingTold
      /\ \A k \in 1..n : A[k] = Told(A[k - 1], Name(t, k - 1), t[k], Name(t, k + 1))
      /\ \A k \in 1..(n + 1) : B[k] = Told(B[k - 1], Name(u, k - 1), u[k], Name(u, k + 1))
  <2>1. Len(t) = n /\ Len(t) \in Nat /\ Len(u) = n + 1 /\ Len(u) \in Nat
    BY <1>1 DEF n
  <2>2. A[0] = NothingTold /\ \A k \in 1..Len(t) : A[k] = Told(A[k - 1], Name(t, k - 1), t[k], Name(t, k + 1))
    BY ONLY <2>1, AccountsAt
  <2>3. B[0] = NothingTold /\ \A k \in 1..Len(u) : B[k] = Told(B[k - 1], Name(u, k - 1), u[k], Name(u, k + 1))
    BY ONLY <2>1, AccountsAt
  <2> QED BY <2>1, <2>2, <2>3
<1> HIDE DEF A, B
<1>4. \A k \in 0..n : k < n \/ n = 0 => B[k] = A[k]
  <2> DEFINE Off == {k \in 0..n : k < n /\ B[k] # A[k]}
  <2>1. ASSUME NEW x \in Off PROVE FALSE
    <3>1. Off \subseteq Nat
      BY <1>1
    <3>2. PICK m \in Off : \A k \in Off : m <= k
      BY <3>1, LeastNatural
    <3>3. m \in 0..n /\ m < n /\ B[m] # A[m] /\ m \in Int
      BY <1>1
    <3>4. m # 0
      BY <1>3, <3>3
    <3>5. m \in 1..n /\ m \in 1..(n + 1) /\ m - 1 \in 0..n /\ m - 1 < n /\ ~(m <= m - 1) /\ m + 1 \in 0..n
      BY <1>1, <3>3, <3>4
    <3>6. B[m - 1] = A[m - 1]
      BY <3>2, <3>5
    <3>7. Name(u, m - 1) = Name(t, m - 1) /\ Name(u, m + 1) = Name(t, m + 1) /\ u[m] = t[m]
      BY <1>1, <1>2, <3>5
    <3> QED BY <1>3, <3>3, <3>5, <3>6, <3>7
  <2> QED BY <1>1, <1>3, <2>1
<1>5. B[n + 1] = Told(B[n], Name(t, n), e, "none")
  <2>1. n + 1 \in 1..(n + 1) /\ n + 1 - 1 = n /\ n \in 0..n
    BY <1>1
  <2>2. B[n + 1] = Told(B[n + 1 - 1], Name(u, n + 1 - 1), u[n + 1], Name(u, n + 1 + 1))
    BY <1>3, <2>1
  <2> QED BY <1>1, <1>2, <2>1, <2>2
<1>6. ASSUME n > 0
      PROVE  /\ B[n] = Told(A[n - 1], Name(t, n - 1), t[n], e.ev)
             /\ A[n] = Told(A[n - 1], Name(t, n - 1), t[n], "none")
  <2>1. n \in 1..n /\ n \in 1..(n + 1) /\ n - 1 \in 0..n /\ n - 1 < n
    BY <1>1, <1>6
  <2>2. B[n - 1] = A[n - 1] /\ Name(u, n - 1) = Name(t, n - 1) /\ u[n] = t[n]
    BY <1>1, <1>2, <1>4, <2>1
  <2> QED BY <1>2, <1>3, <2>1, <2>2
<1> QED BY <1>4, <1>5, <1>6 DEF A, B, n, u
\* What each event adds.
LEMMA ToldCases ==
    ASSUME NEW s, NEW before, NEW e, NEW after
    PROVE  /\ e.ev = "assignment_start" => Told(s, before, e, after) = [s EXCEPT !.key = e.key]
           /\ e.ev = "data" => Told(s, before, e, after) = Placed(s, e.kind, <<>>)
           /\ e.ev = "struct_start" => Told(s, before, e, after) = Entered(s, "struct")
           /\ e.ev = "struct_end" => Told(s, before, e, after) = [s EXCEPT !.open = Front(s.open)]
           /\ e.ev = "row_start" =>
                 Told(s, before, e, after) =
                    IF before = "dim_start"
                    THEN [s EXCEPT !.open[Len(s.open)].row = s.open[Len(s.open)].row + 1, !.open[Len(s.open)].width = 0]
                    ELSE Entered(s, "array")
           /\ e.ev = "row_end" =>
                 Told(s, before, e, after) =
                    IF after = "dim_start" THEN [s EXCEPT !.open[Len(s.open)].first = s.open[Len(s.open)].width]
                    ELSE [s EXCEPT !.open = Front(s.open)]
           /\ e.ev = "octets_start" => Told(s, before, e, after) = [s EXCEPT !.octets = <<>>]
           /\ e.ev = "octets" => Told(s, before, e, after) = [s EXCEPT !.octets = Append(s.octets, e.chunk)]
           /\ e.ev = "octets_end" => Told(s, before, e, after) = Placed(s, "octets", s.octets)
           /\ e.ev \in {"stream_start", "dim_start"} => Told(s, before, e, after) = s
<1>1. e.ev = "assignment_start" => Told(s, before, e, after) = [s EXCEPT !.key = e.key]
  BY DEF Told
<1>2. e.ev = "data" => Told(s, before, e, after) = Placed(s, e.kind, <<>>)
  BY DEF Told
<1>3. e.ev = "struct_start" => Told(s, before, e, after) = Entered(s, "struct")
  BY DEF Told
<1>4. e.ev = "struct_end" => Told(s, before, e, after) = [s EXCEPT !.open = Front(s.open)]
  BY DEF Told
<1>5. e.ev = "row_start" =>
         Told(s, before, e, after) =
            IF before = "dim_start"
            THEN [s EXCEPT !.open[Len(s.open)].row = s.open[Len(s.open)].row + 1, !.open[Len(s.open)].width = 0]
            ELSE Entered(s, "array")
  BY DEF Told
<1>6. e.ev = "row_end" =>
         Told(s, before, e, after) =
            IF after = "dim_start" THEN [s EXCEPT !.open[Len(s.open)].first = s.open[Len(s.open)].width]
            ELSE [s EXCEPT !.open = Front(s.open)]
  BY DEF Told
<1>7. e.ev = "octets_start" => Told(s, before, e, after) = [s EXCEPT !.octets = <<>>]
  BY DEF Told
<1>8. e.ev = "octets" => Told(s, before, e, after) = [s EXCEPT !.octets = Append(s.octets, e.chunk)]
  BY DEF Told
<1>9. e.ev = "octets_end" => Told(s, before, e, after) = Placed(s, "octets", s.octets)
  BY DEF Told
<1>10. e.ev \in {"stream_start", "dim_start"} => Told(s, before, e, after) = s
  BY DEF Told
<1> QED BY <1>1, <1>2, <1>3, <1>4, <1>5, <1>6, <1>7, <1>8, <1>9, <1>10

(* A row that ended last: whether its array did is said by the next event. *)
(* `Pending` is the account before it, `Continued` what the next event     *)
(* finds.                                                                  *)
Ended(t)   == t # <<>> /\ Last(t).ev = "row_end"
Slashed(t) == t # <<>> /\ Last(t).ev = "dim_start"
Pending(t) == IF Ended(t) THEN Accounts(t)[Len(t) - 1] ELSE Accounts(t)[Len(t)]
Shut(a)    == [a EXCEPT !.open = Front(a.open)]
Widened(a) == [a EXCEPT !.open[Len(a.open)].first = a.open[Len(a.open)].width]
Continued(t, ev) ==
    IF ~Ended(t) THEN Pending(t) ELSE IF ev = "dim_start" THEN Widened(Pending(t)) ELSE Shut(Pending(t))

\* What the end of a row adds.
LEMMA RowEndTold ==
    ASSUME NEW s, NEW before, NEW e, NEW after, e.ev = "row_end"
    PROVE  Told(s, before, e, after) = IF after = "dim_start" THEN Widened(s) ELSE Shut(s)
BY DEF Told, Widened, Shut

\* The account of one event more.
LEMMA PendingStep ==
    ASSUME NEW t \in Seq(EventSet), NEW e \in EventSet
    PROVE  /\ Accounts(t)[Len(t)] = IF Ended(t) THEN Shut(Pending(t)) ELSE Pending(t)
           /\ Pending(Append(t, e)) =
                 IF e.ev = "row_end" THEN Continued(t, e.ev)
                 ELSE Told(Continued(t, e.ev), Name(t, Len(t)), e, "none")
           /\ Ended(Append(t, e)) <=> e.ev = "row_end"
           /\ Slashed(Append(t, e)) <=> e.ev = "dim_start"
           /\ Slashed(t) <=> Name(t, Len(t)) = "dim_start"
<1> DEFINE n == Len(t)
           u == Append(t, e)
           A == Accounts(t)
           B == Accounts(u)
<1>1. /\ n \in Nat /\ Len(u) = n + 1 /\ u # <<>> /\ u[n + 1] = e /\ Last(u) = e
      /\ (n = 0 <=> t = <<>>) /\ Last(t) = t[n] /\ DOMAIN t = 1..n
  BY DEF Last
<1>2. /\ \A k \in 0..n : k < n \/ n = 0 => B[k] = A[k]
      /\ n > 0 => /\ B[n] = Told(A[n - 1], Name(t, n - 1), t[n], e.ev)
                  /\ A[n] = Told(A[n - 1], Name(t, n - 1), t[n], "none")
      /\ B[n + 1] = Told(B[n], Name(t, n), e, "none")
  BY AccountsAppended
<1>3. /\ Ended(u) <=> e.ev = "row_end"
      /\ Slashed(u) <=> e.ev = "dim_start"
      /\ Slashed(t) <=> Name(t, n) = "dim_start"
      /\ Ended(t) <=> Name(t, n) = "row_end"
  BY <1>1 DEF Ended, Slashed, Name
<1>4. /\ Pending(t) = IF Ended(t) THEN A[n - 1] ELSE A[n]
      /\ Pending(u) = IF Ended(u) THEN B[n] ELSE B[n + 1]
  BY <1>1 DEF Pending
<1> HIDE DEF n, u, A, B
<1>5. A[n] = IF Ended(t) THEN Shut(Pending(t)) ELSE Pending(t)
  <2>1. CASE Ended(t)
    <3>1. n > 0 /\ t[n].ev = "row_end"
      BY <1>1, <2>1 DEF Ended
    <3>2. Told(A[n - 1], Name(t, n - 1), t[n], "none") = Shut(A[n - 1])
      BY <3>1, RowEndTold
    <3> QED BY <1>2, <1>4, <2>1, <3>1, <3>2
  <2> QED BY <1>4, <2>1
<1>6. B[n] = Continued(t, e.ev)
  <2>1. CASE Ended(t)
    <3>1. n > 0 /\ t[n].ev = "row_end"
      BY <1>1, <2>1 DEF Ended
    <3>2. Told(A[n - 1], Name(t, n - 1), t[n], e.ev) =
             IF e.ev = "dim_start" THEN Widened(A[n - 1]) ELSE Shut(A[n - 1])
      BY <3>1, RowEndTold
    <3> QED BY <1>2, <1>4, <2>1, <3>1, <3>2 DEF Continued
  <2>2. CASE ~Ended(t)
    <3>1. CASE n = 0
      BY <1>1, <1>2, <1>4, <2>2, <3>1 DEF Continued
    <3>2. CASE n > 0
      <4>1. Told(A[n - 1], Name(t, n - 1), t[n], e.ev) = Told(A[n - 1], Name(t, n - 1), t[n], "none")
        <5>1. t[n].ev # "row_end"
          BY <1>1, <2>2, <3>2 DEF Ended
        <5> QED BY <5>1 DEF Told
      <4> QED BY <1>2, <1>4, <2>2, <3>2, <4>1 DEF Continued
    <3> QED BY <1>1, <3>1, <3>2
  <2> QED BY <2>1, <2>2
<1> QED BY <1>2, <1>3, <1>4, <1>5, <1>6 DEF A, n, u

-----------------------------------------------------------------------------
(* Accounts, part by part.                                                 *)
FrameSet   == [id : Nat, row : Nat, width : Nat, first : Int]
ValueSet   == [parent : Nat, key : Keys \cup {NoKey}, kind : NodeKinds, row : Nat, column : Nat,
               content : Seq(Chunks)]
AccountSet == [open : Seq(FrameSet), values : Seq(ValueSet), key : Keys \cup {NoKey}, octets : Seq(Chunks)]

\* The fields of an account.
LEMMA AccountParts ==
    ASSUME NEW a \in AccountSet
    PROVE  /\ a.open \in Seq(FrameSet) /\ a.values \in Seq(ValueSet) /\ a.key \in Keys \cup {NoKey}
           /\ a.octets \in Seq(Chunks)
           /\ Len(a.open) \in Nat /\ DOMAIN a.open = 1..Len(a.open)
           /\ Len(a.values) \in Nat /\ DOMAIN a.values = 1..Len(a.values)
           /\ \A i \in 1..Len(a.open) : a.open[i] \in FrameSet
           /\ \A v \in 1..Len(a.values) : a.values[v] \in ValueSet
           /\ a.open # <<>> => Len(a.open) \in 1..Len(a.open)
BY DEF AccountSet

\* An account with another open containers.
LEMMA OpenReplaced ==
    ASSUME NEW a \in AccountSet, NEW o \in Seq(FrameSet)
    PROVE  LET b == [a EXCEPT !.open = o]
           IN b \in AccountSet /\ b.open = o /\ b.values = a.values /\ b.key = a.key /\ b.octets = a.octets
BY DEF AccountSet

\* The innermost container gets another frame.
LEMMA FrameReplaced ==
    ASSUME NEW a \in AccountSet, a.open # <<>>, NEW f \in FrameSet
    PROVE  LET b == [a EXCEPT !.open[Len(a.open)] = f]
           IN /\ b \in AccountSet /\ b.values = a.values /\ b.key = a.key /\ b.octets = a.octets
              /\ Len(b.open) = Len(a.open) /\ b.open # <<>>
              /\ \A i \in 1..Len(a.open) : b.open[i] = IF i = Len(a.open) THEN f ELSE a.open[i]
<1> DEFINE o == [a.open EXCEPT ![Len(a.open)] = f]
<1>1. a.open \in Seq(FrameSet) /\ Len(a.open) \in 1..Len(a.open)
  BY AccountParts
<1>2. /\ o \in Seq(FrameSet) /\ Len(o) = Len(a.open) /\ o # <<>>
      /\ \A i \in 1..Len(a.open) : o[i] = IF i = Len(a.open) THEN f ELSE a.open[i]
  BY <1>1
<1>3. [a EXCEPT !.open[Len(a.open)] = f] = [a EXCEPT !.open = o]
  OBVIOUS
<1> HIDE DEF o
<1> QED BY <1>2, <1>3, OpenReplaced

\* A container is left.
LEMMA ShutParts ==
    ASSUME NEW a \in AccountSet, a.open # <<>>
    PROVE  /\ Shut(a) \in AccountSet /\ Shut(a).values = a.values /\ Shut(a).key = a.key /\ Shut(a).octets = a.octets
           /\ Len(Shut(a).open) = Len(a.open) - 1
           /\ \A i \in 1..(Len(a.open) - 1) : Shut(a).open[i] = a.open[i]
<1> DEFINE all == a.open
           o == SubSeq(all, 1, Len(all) - 1)
<1>1. all \in Seq(FrameSet) /\ Len(all) \in Nat /\ Len(all) >= 1
  BY AccountParts
<1>2. Shut(a) = [a EXCEPT !.open = o]
  BY DEF Shut, Front
<1> DEFINE m == Len(all) - 1
<1> HIDE DEF all
<1>3. o \in Seq(FrameSet) /\ Len(o) = Len(all) - 1 /\ \A i \in 1..(Len(all) - 1) : o[i] = all[i]
  <2>1. m \in Nat /\ m <= Len(all) /\ o = SubSeq(all, 1, m)
    BY <1>1
  <2> HIDE DEF m, o
  <2>2. o \in Seq(FrameSet) /\ Len(o) = m /\ \A i \in 1..m : o[i] = all[i]
    BY <1>1, <2>1
  <2> QED BY <2>2 DEF m
<1> HIDE DEF o
<1> QED BY <1>2, <1>3, OpenReplaced DEF all

\* A value is placed in the innermost container.
LEMMA PlacedParts ==
    ASSUME NEW a \in AccountSet, a.open # <<>>, NEW kind \in NodeKinds, NEW content \in Seq(Chunks)
    PROVE  LET n == Len(a.open)
               p == Placed(a, kind, content)
           IN /\ p \in AccountSet /\ p.key = NoKey /\ p.octets = a.octets /\ p.open # <<>>
              /\ Value(a.open[n], a.key, kind, content) \in ValueSet
              /\ p.values = Append(a.values, Value(a.open[n], a.key, kind, content))
              /\ Len(p.open) = n
              /\ \A i \in 1..n : p.open[i] =
                    IF i = n THEN [a.open[n] EXCEPT !.width = a.open[n].width + 1] ELSE a.open[i]
<1> DEFINE n == Len(a.open)
           top == a.open[n]
           v == Value(top, a.key, kind, content)
           f == [top EXCEPT !.width = top.width + 1]
           b == [a EXCEPT !.open[n] = f]
           vs == Append(a.values, v)
           p == Placed(a, kind, content)
<1>1. top \in FrameSet /\ a.values \in Seq(ValueSet) /\ a.key \in Keys \cup {NoKey}
  BY AccountParts
<1>2. f \in FrameSet
  <2> HIDE DEF top
  <2>1. top \in FrameSet
    BY <1>1
  <2>2. top.width + 1 \in Nat
    BY <2>1 DEF FrameSet
  <2> QED BY <2>1, <2>2 DEF FrameSet
<1>3. v \in ValueSet
  BY <1>1 DEF Value, FrameSet, ValueSet
<1>4. p = [b EXCEPT !.values = vs, !.key = NoKey]
  BY DEF Placed, AccountSet
<1> HIDE DEF f, v
<1>5. vs \in Seq(ValueSet)
  BY <1>1, <1>3
<1> HIDE DEF vs
<1>6. /\ b \in AccountSet /\ b.octets = a.octets /\ Len(b.open) = n /\ b.open # <<>>
      /\ \A i \in 1..n : b.open[i] = IF i = n THEN f ELSE a.open[i]
  BY <1>2, FrameReplaced
<1> HIDE DEF b, p
<1>7. p \in AccountSet /\ p.key = NoKey /\ p.octets = b.octets /\ p.values = vs /\ p.open = b.open
  BY <1>4, <1>5, <1>6 DEF AccountSet
<1> QED BY <1>3, <1>6, <1>7 DEF p, vs, v, f, top, n

\* A container is placed, and is the innermost.
LEMMA EnteredParts ==
    ASSUME NEW a \in AccountSet, a.open # <<>>, NEW kind \in NodeKinds
    PROVE  LET n == Len(a.open)
               q == Entered(a, kind)
               id == Len(a.values) + 2
           IN /\ q \in AccountSet /\ q.key = NoKey /\ q.octets = a.octets
              /\ Value(a.open[n], a.key, kind, <<>>) \in ValueSet
              /\ q.values = Append(a.values, Value(a.open[n], a.key, kind, <<>>))
              /\ Len(q.open) = n + 1 /\ q.open[n + 1] = Frame(id)
              /\ \A i \in 1..n : q.open[i] =
                    IF i = n THEN [a.open[n] EXCEPT !.width = a.open[n].width + 1] ELSE a.open[i]
<1> DEFINE n == Len(a.open)
           p == Placed(a, kind, <<>>)
           v == Value(a.open[n], a.key, kind, <<>>)
           id == Len(a.values) + 2
           o == Append(p.open, Frame(id))
           q == Entered(a, kind)
<1>1. <<>> \in Seq(Chunks)
  OBVIOUS
<1>2. /\ p \in AccountSet /\ p.key = NoKey /\ p.octets = a.octets /\ v \in ValueSet
      /\ p.values = Append(a.values, v) /\ Len(p.open) = n
      /\ \A i \in 1..n : p.open[i] = IF i = n THEN [a.open[n] EXCEPT !.width = a.open[n].width + 1] ELSE a.open[i]
  BY <1>1, PlacedParts
<1>3. a.values \in Seq(ValueSet) /\ Len(a.values) \in Nat
  BY AccountParts
<1>4. Len(p.values) + 1 = id /\ id \in Nat
  BY <1>2, <1>3
<1>5. q = [p EXCEPT !.open = o]
  BY <1>4 DEF Entered
<1>6. Frame(id) \in FrameSet
  BY <1>4 DEF Frame, FrameSet
<1> HIDE DEF p
<1>7. p.open \in Seq(FrameSet)
  BY <1>2, AccountParts
<1>8. o \in Seq(FrameSet) /\ Len(o) = n + 1 /\ o[n + 1] = Frame(id) /\ \A i \in 1..n : o[i] = p.open[i]
  BY <1>2, <1>6, <1>7
<1> HIDE DEF o, v, q
<1>9. q \in AccountSet /\ q.open = o /\ q.values = p.values /\ q.key = p.key /\ q.octets = p.octets
  BY <1>2, <1>5, <1>8, OpenReplaced
<1> QED BY <1>2, <1>8, <1>9 DEF q, v

-----------------------------------------------------------------------------
(* The entries of a container, by the account.                             *)
Tallies(f, vs, id, m) ==
    f = [n \in 0..m |-> IF n = 0 THEN <<>>
                        ELSE IF vs[n].parent = id THEN Append(f[n - 1], Entry(vs[n].key, NodeOf(n)))
                        ELSE f[n - 1]]

\* Their lists exist.
LEMMA EntriesDefined ==
    ASSUME NEW a, NEW id, Len(a.values) \in Nat
    PROVE  \E f : Tallies(f, a.values, id, Len(a.values)) /\ Entries(a, id) = f[Len(a.values)]
<1> DEFINE vs == a.values
           None == {n \in Nat : ~\E f : Tallies(f, vs, id, n)}
           Next(f, n) == IF vs[n].parent = id THEN Append(f[n - 1], Entry(vs[n].key, NodeOf(n))) ELSE f[n - 1]
<1>1. ASSUME NEW x \in None PROVE FALSE
  <2>1. PICK m \in None : \A k \in None : m <= k
    BY LeastNatural
  <2>2. m \in Nat /\ ~\E f : Tallies(f, vs, id, m)
    OBVIOUS
  <2>3. CASE m = 0
    <3>1. Tallies([k \in 0..0 |-> <<>>], vs, id, 0)
      BY DEF Tallies
    <3> QED BY <2>2, <2>3, <3>1
  <2>4. CASE m # 0
    <3>1. m - 1 \in Nat /\ ~(m <= m - 1)
      BY <2>2, <2>4
    <3>2. PICK f : Tallies(f, vs, id, m - 1)
      BY <2>1, <3>1
    <3> DEFINE g == [k \in 0..m |-> IF k = 0 THEN <<>> ELSE Next(f, k)]
    <3>3. ASSUME NEW k \in 0..m, k # 0 PROVE g[k - 1] = f[k - 1]
      <4>1. k - 1 \in 0..(m - 1) /\ k - 1 \in 0..m
        BY <2>2, <3>3
      <4>2. f[k - 1] = IF k - 1 = 0 THEN <<>> ELSE Next(f, k - 1)
        BY <3>2, <4>1 DEF Tallies
      <4> QED BY <4>1, <4>2
    <3>4. [k \in 0..m |-> IF k = 0 THEN <<>> ELSE Next(g, k)] = [k \in 0..m |-> IF k = 0 THEN <<>> ELSE Next(f, k)]
      <4> HIDE DEF g
      <4> QED BY <3>3
    <3>5. Tallies(g, vs, id, m)
      BY <3>4 DEF Tallies
    <3> QED BY <2>2, <3>5
  <2> QED BY <2>3, <2>4
<1>2. \E f : Tallies(f, vs, id, Len(vs))
  BY <1>1
<1>3. Entries(a, id) = (CHOOSE f : Tallies(f, vs, id, Len(vs)))[Len(vs)]
  BY DEF Entries, Tallies
<1> QED BY <1>2, <1>3

\* They depend on the values so far.
LEMMA TalliesAgree ==
    ASSUME NEW vs, NEW us, NEW id, NEW m \in Nat, NEW n \in Nat, m <= n,
           \A k \in 1..m : us[k] = vs[k],
           NEW f, Tallies(f, vs, id, m), NEW g, Tallies(g, us, id, n)
    PROVE  f[m] = g[m]
<1> DEFINE Off == {k \in 0..m : f[k] # g[k]}
           Next(h, ws, k) == IF ws[k].parent = id THEN Append(h[k - 1], Entry(ws[k].key, NodeOf(k))) ELSE h[k - 1]
<1>1. /\ \A k \in 0..m : f[k] = IF k = 0 THEN <<>> ELSE Next(f, vs, k)
      /\ \A k \in 0..n : g[k] = IF k = 0 THEN <<>> ELSE Next(g, us, k)
  BY DEF Tallies
<1>2. ASSUME NEW x \in Off PROVE FALSE
  <2>1. Off \subseteq Nat
    OBVIOUS
  <2>2. PICK k \in Off : \A j \in Off : k <= j
    BY <2>1, LeastNatural
  <2>3. k \in 0..m /\ k \in 0..n /\ f[k] # g[k]
    OBVIOUS
  <2>4. k # 0
    BY <1>1, <2>3
  <2>5. k - 1 \in 0..m /\ ~(k <= k - 1) /\ k \in 1..m
    BY <2>3, <2>4
  <2>6. f[k - 1] = g[k - 1] /\ us[k] = vs[k]
    BY <2>2, <2>5
  <2>7. Next(f, vs, k) = Next(g, us, k)
    BY <2>6
  <2> QED BY <1>1, <2>3, <2>4, <2>7
<1> QED BY <1>2

\* One value more is the last entry of its container.
LEMMA EntriesAppended ==
    ASSUME NEW a \in AccountSet, NEW b \in AccountSet, NEW v \in ValueSet, b.values = Append(a.values, v), NEW id
    PROVE  Entries(b, id) = IF v.parent = id THEN Append(Entries(a, id), Entry(v.key, Len(a.values) + 2))
                            ELSE Entries(a, id)
<1> DEFINE n == Len(a.values)
           m == Len(b.values)
<1>1. /\ n \in Nat /\ m = n + 1 /\ m \in Nat /\ b.values[m] = v /\ n <= m
      /\ \A k \in 1..n : b.values[k] = a.values[k]
  BY AccountParts
<1>2. PICK f : Tallies(f, a.values, id, n) /\ Entries(a, id) = f[n]
  BY <1>1, EntriesDefined
<1>3. PICK g : Tallies(g, b.values, id, m) /\ Entries(b, id) = g[m]
  BY <1>1, EntriesDefined
<1> HIDE DEF n, m
<1>4. f[n] = g[n]
  <2> DEFINE vs == a.values
             us == b.values
  <2>1. /\ n \in Nat /\ m \in Nat /\ n <= m /\ Tallies(f, vs, id, n) /\ Tallies(g, us, id, m)
        /\ \A k \in 1..n : us[k] = vs[k]
    BY <1>1, <1>2, <1>3
  <2> HIDE DEF vs, us
  <2> QED BY ONLY <2>1, TalliesAgree
<1>5. m \in 0..m /\ m # 0 /\ m - 1 = n /\ NodeOf(m) = n + 2
  BY <1>1 DEF NodeOf
<1>6. g[m] = IF b.values[m].parent = id THEN Append(g[m - 1], Entry(b.values[m].key, NodeOf(m))) ELSE g[m - 1]
  BY <1>3, <1>5 DEF Tallies
<1> QED BY <1>1, <1>2, <1>3, <1>4, <1>5, <1>6 DEF n

\* Entries are of values.
LEMMA EntriesSame ==
    ASSUME NEW a, NEW b, a.values = b.values, NEW id PROVE Entries(a, id) = Entries(b, id)
BY DEF Entries

\* A container nothing was put in has none.
LEMMA EntriesNone ==
    ASSUME NEW a \in AccountSet, NEW id, \A v \in 1..Len(a.values) : a.values[v].parent # id
    PROVE  Entries(a, id) = <<>>
<1> DEFINE n == Len(a.values)
<1>1. n \in Nat
  BY AccountParts
<1>2. PICK f : Tallies(f, a.values, id, n) /\ Entries(a, id) = f[n]
  BY <1>1, EntriesDefined
<1>3. \A k \in 0..n : f[k] = IF k = 0 THEN <<>>
                             ELSE IF a.values[k].parent = id THEN Append(f[k - 1], Entry(a.values[k].key, NodeOf(k)))
                             ELSE f[k - 1]
  BY <1>2 DEF Tallies
<1> DEFINE Off == {k \in 0..n : f[k] # <<>>}
<1>4. ASSUME NEW x \in Off PROVE FALSE
  <2>1. Off \subseteq Nat
    BY <1>1
  <2>2. PICK k \in Off : \A j \in Off : k <= j
    BY <2>1, LeastNatural
  <2>3. k \in 0..n /\ f[k] # <<>> /\ k # 0
    BY <1>3
  <2>4. k - 1 \in 0..n /\ ~(k <= k - 1) /\ k \in 1..n
    BY <1>1, <2>3
  <2>5. f[k - 1] = <<>>
    BY <2>2, <2>4
  <2> QED BY <1>3, <2>3, <2>4, <2>5
<1>5. n \in 0..n
  BY <1>1
<1> QED BY <1>2, <1>4, <1>5


\* The entries of a container are entries, and each of its values has one.
LEMMA EntriesTyped ==
    ASSUME NEW a \in AccountSet, NEW id
    PROVE  /\ Entries(a, id) \in Seq(EntrySet)
           /\ \A v \in 1..Len(a.values) : a.values[v].parent = id =>
                 \E k \in 1..Len(Entries(a, id)) : Entries(a, id)[k] = Entry(a.values[v].key, NodeOf(v))
<1> DEFINE n == Len(a.values)
           vs == a.values
           Its(v) == Entry(vs[v].key, NodeOf(v))
<1>1. n \in Nat /\ \A v \in 1..n : vs[v] \in ValueSet
  BY AccountParts
<1>2. PICK f : Tallies(f, vs, id, n) /\ Entries(a, id) = f[n]
  BY <1>1, EntriesDefined
<1>3. \A k \in 0..n : f[k] = IF k = 0 THEN <<>>
                             ELSE IF vs[k].parent = id THEN Append(f[k - 1], Its(k)) ELSE f[k - 1]
  BY <1>2 DEF Tallies
<1>4. \A v \in 1..n : Its(v) \in EntrySet
  BY <1>1 DEF Entry, NodeOf, ValueSet, EntrySet
<1> HIDE DEF n, vs, Its
<1> DEFINE Good(m) == /\ f[m] \in Seq(EntrySet)
                      /\ \A v \in 1..m : vs[v].parent = id => \E k \in 1..Len(f[m]) : f[m][k] = Its(v)
           Off == {k \in 0..n : ~Good(k)}
<1>5. ASSUME NEW x \in Off PROVE FALSE
  <2>1. Off \subseteq Nat
    BY <1>1
  <2>2. PICK m \in Off : \A j \in Off : m <= j
    BY <2>1, LeastNatural
  <2>3. m \in 0..n /\ ~Good(m)
    OBVIOUS
  <2>4. CASE m = 0
    <3>1. f[0] = <<>>
      BY <1>3, <2>3, <2>4
    <3> QED BY <2>3, <2>4, <3>1
  <2>5. CASE m # 0
    <3>1. m - 1 \in 0..n /\ ~(m <= m - 1) /\ m \in 1..n /\ m \in Int
      BY <1>1, <2>3, <2>5
    <3>2. Good(m - 1)
      BY <2>2, <3>1
    <3> DEFINE s == f[m - 1]
    <3>3. s \in Seq(EntrySet) /\ \A v \in 1..(m - 1) : vs[v].parent = id => \E k \in 1..Len(s) : s[k] = Its(v)
      BY <3>2
    <3>4. f[m] = IF vs[m].parent = id THEN Append(s, Its(m)) ELSE s
      BY <1>3, <2>3, <2>5
    <3>5. Its(m) \in EntrySet
      BY <1>4, <3>1
    <3> HIDE DEF s
    <3>6. CASE vs[m].parent # id
      <4>1. \A v \in 1..m : vs[v].parent = id => v \in 1..(m - 1)
        BY <3>1, <3>6
      <4> QED BY <2>3, <3>3, <3>4, <3>6, <4>1
    <3>7. CASE vs[m].parent = id
      <4> DEFINE g == Append(s, Its(m))
      <4>1. g \in Seq(EntrySet) /\ Len(s) \in Nat /\ Len(g) = Len(s) + 1 /\ g[Len(s) + 1] = Its(m) /\ \A k \in 1..Len(s) : g[k] = s[k]
        BY <3>3, <3>5
      <4> HIDE DEF g
      <4>2. ASSUME NEW v \in 1..m, vs[v].parent = id PROVE \E k \in 1..Len(g) : g[k] = Its(v)
        <5>1. CASE v = m
          <6>1. Len(s) + 1 \in 1..Len(g)
            BY <4>1
          <6> QED BY <4>1, <5>1, <6>1
        <5>2. CASE v # m
          <6>1. v \in 1..(m - 1)
            BY <3>1, <5>2
          <6>2. PICK k \in 1..Len(s) : s[k] = Its(v)
            BY <3>3, <4>2, <6>1
          <6>3. k \in 1..Len(g) /\ g[k] = s[k]
            BY <4>1
          <6> QED BY <6>2, <6>3
        <5> QED BY <5>1, <5>2
      <4>3. f[m] = g
        BY <3>4, <3>7 DEF g
      <4> QED BY <2>3, <4>1, <4>2, <4>3
    <3> QED BY <3>6, <3>7
  <2> QED BY <2>4, <2>5
<1>6. n \in 0..n
  BY <1>1
<1>7. Good(n)
  BY <1>5, <1>6
<1> QED BY <1>2, <1>7 DEF n, vs, Its
-----------------------------------------------------------------------------
(* What the handlers do to the tree, whatever they do to the units.        *)
Noted(b, c) ==
    /\ c.scopes = b.scopes /\ c.key = b.key /\ c.pop = b.pop /\ c.continue = b.continue
    /\ c.octets = b.octets /\ c.chunks = b.chunks /\ c.error = b.error

\* A node's unit is not its place.
LEMMA TakeUnitAlike ==
    ASSUME NEW h \in HeapSet, NEW id \in DOMAIN h.nodes, NEW u \in Int, IsStatic(h.nodes[id].unit)
    PROVE  Alike(h, TakeUnit(h, id, u)) /\ TakeUnit(h, id, u).b = h.b
<1> DEFINE n == [h.nodes[id] EXCEPT !.unit = u]
<1>1. h.nodes[id] \in Node
  BY HeapParts
<1>2. n \in Node /\ SameNode(h.nodes[id], n)
  BY <1>1 DEF Node, SameNode
<1>3. TakeUnit(h, id, u) = [h EXCEPT !.nodes[id] = n]
  BY DEF TakeUnit, Released
<1> HIDE DEF n
<1>4. /\ [h EXCEPT !.nodes[id] = n].b = h.b
      /\ Len([h EXCEPT !.nodes[id] = n].nodes) = Len(h.nodes)
      /\ \A m \in DOMAIN h.nodes : [h EXCEPT !.nodes[id] = n].nodes[m] = IF m = id THEN n ELSE h.nodes[m]
  BY <1>2, NodeReplaced
<1>5. \A m \in 1..Len(h.nodes) : m \in DOMAIN h.nodes /\ SameNode(h.nodes[m], h.nodes[m])
  BY HeapParts DEF SameNode
<1> QED BY <1>2, <1>3, <1>4, <1>5 DEF Alike

\* The builder's own reference is in no node.
LEMMA RememberedAlike ==
    ASSUME NEW h \in HeapSet, h.b.last \in 0..Len(h.blocks), NEW u \in 1..Len(h.blocks), h.b.last # u
    PROVE  LET g == Remembered(h, u) IN g \in HeapSet /\ g.nodes = h.nodes /\ Noted(h.b, g.b)
<1> DEFINE r == Released(h, h.b.last)
           g == Remembered(h, u)
<1>1. u \in DOMAIN h.blocks /\ ~IsStatic(u)
  BY HeapParts DEF IsStatic
<1>2. g \in HeapSet /\ g.nodes = h.nodes
  BY <1>1, RememberedParts
<1>3. r \in HeapSet /\ r.b = h.b
  BY ReleasedParts
<1> HIDE DEF r
<1>4. g = [r EXCEPT !.b.last = u, !.blocks[u].refs = @ + 1]
  BY <1>1 DEF Remembered, r
<1>5. g.b = [h.b EXCEPT !.last = u] /\ h.b \in Builder
  BY <1>3, <1>4, HeapParts DEF HeapSet
<1> QED BY <1>2, <1>5 DEF Noted, Builder

\* builder_node_unit
LEMMA NodeUnitAlike ==
    ASSUME NEW h \in HeapSet, Held(h), NEW id \in DOMAIN h.nodes, h.nodes[id].unit = Default,
           NEW unit \in Units, NEW src \in Spellings \cup {NoSpelling}, NEW fault,
           NodeUnit(h, id, unit, src, fault).ok
    PROVE  LET g == NodeUnit(h, id, unit, src, fault).h IN Alike(h, g) /\ Noted(h.b, g.b)
<1> DEFINE kept == KeptSpelling(src)
           r == NodeUnit(h, id, unit, src, fault)
           last == h.b.last
<1>0. kept \in Spellings \cup {NoSpelling}
  BY DEF KeptSpelling
<1> HIDE DEF kept
<1>1. Noted(h.b, h.b) /\ last \in 0..Len(h.blocks) /\ Len(h.blocks) \in Nat /\ DOMAIN h.blocks = 1..Len(h.blocks)
  BY HeapParts DEF Noted, Held
<1>2. CASE MayShare(h, unit, kept)
  <2> DEFINE n == h.blocks[last].refs + 1
             s == [h EXCEPT !.blocks[last].refs = n]
  <2>1. r.h = TakeUnit(s, id, last)
    BY <1>2 DEF NodeUnit, kept, Ok
  <2>2. last \in DOMAIN h.blocks /\ last \in Int
    BY <1>1, <1>2 DEF MayShare, Default
  <2>3. n \in Int
    <3>1. h.blocks[last] \in Block
      BY <2>2, HeapParts
    <3> QED BY <3>1 DEF Block
  <2> HIDE DEF n, last
  <2>4. s \in HeapSet /\ s.nodes = h.nodes /\ s.b = h.b
    BY <2>2, <2>3, RefsSet
  <2> HIDE DEF s
  <2>5. IsStatic(s.nodes[id].unit) /\ id \in DOMAIN s.nodes
    BY <2>4 DEF IsStatic, Default
  <2>6. Alike(s, r.h) /\ r.h.b = s.b
    BY <2>1, <2>2, <2>4, <2>5, TakeUnitAlike
  <2> QED BY <1>1, <2>4, <2>6 DEF Alike
<1>3. CASE ~MayShare(h, unit, kept)
  <2> DEFINE got == UnitGet(h, unit, kept, fault)
             s == Remembered(got.h, got.unit)
  <2>1. got.ok /\ r.h = TakeUnit(s, id, got.unit)
    BY <1>3 DEF NodeUnit, kept, Failed, Ok
  <2>2. \/ got.h = h /\ got.unit \in {Default, Unitless}
        \/ /\ got.h \in HeapSet /\ got.h.nodes = h.nodes /\ got.h.b = h.b
           /\ got.unit = Len(h.blocks) + 1 /\ Len(got.h.blocks) = Len(h.blocks) + 1
           /\ got.h.blocks[Len(h.blocks) + 1].refs = 1
           /\ \A v \in DOMAIN h.blocks : got.h.blocks[v] = h.blocks[v]
    BY <1>0, <2>1, UnitGetParts
  <2> HIDE DEF got, r
  <2>3. s \in HeapSet /\ s.nodes = h.nodes /\ Noted(h.b, s.b) /\ got.unit \in Int
    <3>1. CASE got.h = h /\ got.unit \in {Default, Unitless}
      BY <1>1, <3>1 DEF Remembered, IsStatic, Default, Unitless
    <3>2. CASE /\ got.h \in HeapSet /\ got.h.nodes = h.nodes /\ got.h.b = h.b
               /\ got.unit = Len(h.blocks) + 1 /\ Len(got.h.blocks) = Len(h.blocks) + 1
      <4> DEFINE x == got.h
                 u == got.unit
      <4>1. x \in HeapSet /\ x.b.last \in 0..Len(x.blocks) /\ u \in 1..Len(x.blocks) /\ x.b.last # u
        BY <1>1, <3>2
      <4> HIDE DEF x, u
      <4>2. Remembered(x, u) \in HeapSet /\ Remembered(x, u).nodes = x.nodes /\ Noted(x.b, Remembered(x, u).b)
        BY <4>1, RememberedAlike
      <4> QED BY <1>1, <3>2, <4>2 DEF x, u
    <3> QED BY <2>2, <3>1, <3>2
  <2> HIDE DEF s
  <2>4. IsStatic(s.nodes[id].unit) /\ id \in DOMAIN s.nodes
    BY <2>3 DEF IsStatic, Default
  <2>5. Alike(s, r.h) /\ r.h.b = s.b
    BY <2>1, <2>3, <2>4, TakeUnitAlike
  <2> QED BY <2>3, <2>5 DEF Alike, r
<1> QED BY <1>2, <1>3

-----------------------------------------------------------------------------
(* A value that is made: a new node, the last kid of the innermost scope's.*)
Fresh(n, kind, value) == n.kind = kind /\ n.kids = <<>> /\ n.dims = OneRow /\ n.rows = 1 /\ n.value = value
Grew(h, g, into, key, kind, value) ==
    /\ Len(g.nodes) = Len(h.nodes) + 1 /\ Fresh(g.nodes[Len(h.nodes) + 1], kind, value)
    /\ \A m \in 1..Len(h.nodes) :
          /\ g.nodes[m].kind = h.nodes[m].kind /\ g.nodes[m].dims = h.nodes[m].dims
          /\ g.nodes[m].rows = h.nodes[m].rows /\ g.nodes[m].value = h.nodes[m].value
          /\ g.nodes[m].kids = IF m = into THEN Append(h.nodes[m].kids, Entry(key, Len(h.nodes) + 1))
                               ELSE h.nodes[m].kids

\* A step that failed leaves every node that was there where it was.
Kept(h, g) ==
    /\ Len(h.nodes) <= Len(g.nodes)
    /\ \A m \in 1..Len(h.nodes) :
          /\ g.nodes[m].kind = h.nodes[m].kind /\ g.nodes[m].value = h.nodes[m].value
          /\ IsPrefix(h.nodes[m].kids, g.nodes[m].kids)

\* A sequence begins with itself, and with what it was before the last was added.
LEMMA PrefixesOf ==
    ASSUME NEW S, NEW s \in Seq(S)
    PROVE  IsPrefix(s, s) /\ \A x \in S : IsPrefix(s, Append(s, x))
<1>1. IsPrefix(s, s)
  BY DEF IsPrefix
<1>2. ASSUME NEW x \in S PROVE IsPrefix(s, Append(s, x))
  <2>1. Len(s) <= Len(Append(s, x)) /\ SubSeq(s, 1, Len(s)) = SubSeq(Append(s, x), 1, Len(s))
    OBVIOUS
  <2> QED BY <2>1 DEF IsPrefix
<1> QED BY <1>1, <1>2

\* The kids of a node.
LEMMA KidsSeq ==
    ASSUME NEW h \in HeapSet, NEW m \in 1..Len(h.nodes)
    PROVE  /\ m \in DOMAIN h.nodes /\ h.nodes[m] \in Node /\ h.nodes[m].kids \in Seq(EntrySet)
           /\ Len(h.nodes[m].kids) \in Nat /\ IsPrefix(h.nodes[m].kids, h.nodes[m].kids)
<1>1. m \in DOMAIN h.nodes /\ h.nodes[m] \in Node
  BY HeapParts
<1>2. h.nodes[m].kids \in Seq(EntrySet)
  BY <1>1 DEF Node
<1> QED BY <1>1, <1>2, PrefixesOf

\* The node that is made first.
LEMMA MadeFresh ==
    ASSUME NEW h \in HeapSet, NEW kind \in NodeKinds, NEW value \in Seq(Chunks)
    PROVE  LET g  == [h EXCEPT !.nodes = Append(@, [NewNode(kind) EXCEPT !.value = value])]
               id == Len(h.nodes) + 1
           IN /\ Len(g.nodes) = id /\ Fresh(g.nodes[id], kind, value) /\ g.b = h.b /\ g.nodes[id].unit = Default
              /\ \A m \in 1..Len(h.nodes) : g.nodes[m] = h.nodes[m]
<1> DEFINE n == [NewNode(kind) EXCEPT !.value = value]
           ns == Append(h.nodes, n)
           g == [h EXCEPT !.nodes = ns]
<1>1. Fresh(n, kind, value) /\ n.unit = Default /\ n \in Node
  <2>1. <<>> \in Seq(EntrySet) /\ <<>> \in Seq(Int) /\ <<>> \in Seq(Chunks)
    OBVIOUS
  <2> DEFINE new == NewNode(kind)
  <2>2. /\ new \in Node /\ new.kind = kind /\ new.kids = <<>> /\ new.dims = OneRow /\ new.rows = 1
        /\ new.unit = Default
    BY <2>1 DEF NewNode, OneRow, Default, Node, NodeKinds
  <2> HIDE DEF new
  <2>3. [new EXCEPT !.value = value] \in Node
    BY <2>2 DEF Node
  <2>4. Fresh([new EXCEPT !.value = value], kind, value) /\ [new EXCEPT !.value = value].unit = new.unit
    BY <2>2 DEF Node, Fresh
  <2> QED BY <2>2, <2>3, <2>4 DEF new
<1> HIDE DEF n
<1>2. h.nodes \in Seq(Node)
  BY HeapParts
<1>3. Len(ns) = Len(h.nodes) + 1 /\ ns[Len(h.nodes) + 1] = n /\ \A m \in 1..Len(h.nodes) : ns[m] = h.nodes[m]
  BY <1>1, <1>2
<1> HIDE DEF ns
<1>4. g.nodes = ns /\ g.b = h.b
  BY DEF HeapSet
<1> QED BY <1>1, <1>3, <1>4 DEF ns, n

\* One node of a heap gets a kid more.
LEMMA KidAdded ==
    ASSUME NEW h \in HeapSet, NEW into \in DOMAIN h.nodes, NEW x \in EntrySet
    PROVE  LET g == [h EXCEPT !.nodes[into].kids = Append(@, x)]
           IN /\ Len(g.nodes) = Len(h.nodes) /\ g.b = h.b
              /\ \A m \in 1..Len(h.nodes) :
                    /\ g.nodes[m].kind = h.nodes[m].kind /\ g.nodes[m].dims = h.nodes[m].dims
                    /\ g.nodes[m].rows = h.nodes[m].rows /\ g.nodes[m].value = h.nodes[m].value
                    /\ g.nodes[m].kids = IF m = into THEN Append(h.nodes[m].kids, x) ELSE h.nodes[m].kids
<1> DEFINE ks == Append(h.nodes[into].kids, x)
           n == [h.nodes[into] EXCEPT !.kids = ks]
           g == [h EXCEPT !.nodes[into] = n]
<1>1. h.nodes[into] \in Node /\ DOMAIN h.nodes = 1..Len(h.nodes)
  BY HeapParts
<1>2. ks \in Seq(EntrySet)
  <2>1. h.nodes[into].kids \in Seq(EntrySet)
    BY <1>1 DEF Node
  <2> QED BY <2>1
<1>3. [h EXCEPT !.nodes[into].kids = Append(@, x)] = g
  OBVIOUS
<1> HIDE DEF ks
<1>4. /\ n \in Node /\ n.kind = h.nodes[into].kind /\ n.dims = h.nodes[into].dims /\ n.rows = h.nodes[into].rows
      /\ n.value = h.nodes[into].value /\ n.kids = ks
  BY <1>1, <1>2 DEF Node
<1> HIDE DEF n
<1>5. /\ g.b = h.b /\ Len(g.nodes) = Len(h.nodes)
      /\ \A m \in DOMAIN h.nodes : g.nodes[m] = IF m = into THEN n ELSE h.nodes[m]
  BY <1>4, NodeReplaced
<1> HIDE DEF g
<1> QED BY <1>1, <1>3, <1>4, <1>5 DEF ks

\* Alike to a heap that has grown.
LEMMA AlikeGrew ==
    ASSUME NEW h \in HeapSet, NEW g, Len(g.nodes) = Len(h.nodes) + 1,
           \A m \in 1..Len(h.nodes) : g.nodes[m] = h.nodes[m], NEW f, Alike(g, f)
    PROVE  /\ Kept(h, f) /\ Len(f.nodes) = Len(h.nodes) + 1
           /\ SameNode(g.nodes[Len(h.nodes) + 1], f.nodes[Len(h.nodes) + 1])
           /\ \A m \in 1..Len(h.nodes) : SameNode(h.nodes[m], f.nodes[m])
<1>1. Len(h.nodes) \in Nat
  BY HeapParts
<1>2. Len(h.nodes) + 1 \in 1..Len(g.nodes) /\ \A m \in 1..Len(h.nodes) : m \in 1..Len(g.nodes)
  BY <1>1
<1>3. Len(f.nodes) = Len(g.nodes) /\ \A m \in 1..Len(g.nodes) : SameNode(g.nodes[m], f.nodes[m])
  BY DEF Alike
<1>4. \A m \in 1..Len(h.nodes) : SameNode(h.nodes[m], f.nodes[m])
  BY <1>2, <1>3
<1>5. \A m \in 1..Len(h.nodes) : IsPrefix(h.nodes[m].kids, h.nodes[m].kids)
  BY KidsSeq
<1> QED BY <1>1, <1>2, <1>3, <1>4, <1>5 DEF Kept, SameNode

\* What a builder is left with by a value in scope `top`.
ValueNoted(b, c, top) ==
    /\ c.scopes = b.scopes /\ c.pop = b.pop /\ c.continue = b.continue /\ c.octets = b.octets
    /\ c.chunks = b.chunks /\ c.error = b.error
    /\ c.key = IF top.kind = "struct" THEN NoKey ELSE b.key
KeyIn(top, key) == IF top.kind = "array" THEN NoKey ELSE key

\* A value, made or not.
LEMMA ValuedEffect ==
    ASSUME NEW h, Sound(h), NEW kind \in NodeKinds, NEW value \in Seq(Chunks), NEW unit \in Units,
           NEW src \in Spellings \cup {NoSpelling}, NEW fault
    PROVE  LET r == Valued(h, kind, value, unit, src, fault)
           IN /\ r.ok => Grew(h, r.h, Top(h).node, KeyIn(Top(h), h.b.key), kind, value) /\ ValueNoted(h.b, r.h.b, Top(h))
              /\ ~r.ok => Kept(h, r.h) /\ r.h.b.error = h.b.error
<1> DEFINE id   == Len(h.nodes) + 1
           made == [h EXCEPT !.nodes = Append(@, [NewNode(kind) EXCEPT !.value = value])]
           dressed == NodeUnit(made, id, unit, src, fault)
           r == Valued(h, kind, value, unit, src, fault)
           top == Top(h)
           key == KeyIn(top, h.b.key)
           g == dressed.h
<1>1. h \in HeapSet /\ Held(h) /\ Rooted(h, {Document}) /\ Scoped(h)
  BY DEF Sound
<1>2. /\ made \in HeapSet /\ Held(made) /\ Rooted(made, {Document, id})
      /\ Len(made.nodes) = id /\ Fresh(made.nodes[id], kind, value) /\ made.b = h.b
      /\ made.nodes[id].unit = Default
      /\ \A m \in 1..Len(h.nodes) : made.nodes[m] = h.nodes[m]
  <2>1. made \in HeapSet /\ Held(made) /\ Rooted(made, {Document, id})
    BY <1>1, MadeParts DEF NodeKinds
  <2> QED BY <1>1, <2>1, MadeFresh
<1>3. r = IF fault = "node" THEN Failed(h)
          ELSE IF ~dressed.ok THEN Failed(Discarded(made, id))
          ELSE Attached(g, id, fault)
  BY DEF Valued
<1>4. /\ top.node \in DOMAIN h.nodes /\ top.node \in 1..Len(h.nodes) /\ h.b.scopes # <<>>
      /\ id \in Nat /\ Len(h.nodes) \in Nat /\ key \in Keys \cup {NoKey} /\ h.b.key \in Keys \cup {NoKey}
  BY <1>1, TopThere, HeapParts, BuilderParts DEF Scoped, KeyIn
<1> HIDE DEF made, r, dressed, key
<1>5. Kept(h, h)
  <2>1. \A m \in 1..Len(h.nodes) : IsPrefix(h.nodes[m].kids, h.nodes[m].kids)
    BY <1>1, KidsSeq
  <2> QED BY <1>4, <2>1 DEF Kept
<1>6. CASE fault = "node"
  BY <1>3, <1>5, <1>6 DEF Failed, r
<1>7. id \in AliveIn(made) /\ id \in DOMAIN made.nodes /\ made.nodes[id].unit \in -1..Len(made.blocks)
  BY <1>2 DEF Rooted, AliveIn, Held
<1>8. CASE fault # "node" /\ ~dressed.ok
  <2>1. r.h = Discarded(made, id) /\ ~r.ok
    BY <1>3, <1>8 DEF Failed
  <2>2. Alike(made, r.h) /\ r.h.b = made.b
    BY <1>2, <1>7, <2>1, DiscardedAlike
  <2>3. Kept(h, r.h)
    BY <1>1, <1>2, <2>2, AlikeGrew DEF id
  <2> QED BY <1>2, <2>1, <2>2, <2>3 DEF r
<1>9. CASE fault # "node" /\ dressed.ok
  <2>1. Alike(made, g) /\ Noted(h.b, g.b)
    <3>1. Alike(made, g) /\ Noted(made.b, g.b)
      BY <1>2, <1>7, <1>9, NodeUnitAlike DEF dressed
    <3> QED BY <1>2, <3>1
  <2>2. g \in HeapSet /\ Held(g) /\ DOMAIN g.nodes = DOMAIN made.nodes
    <3>1. Dressed(made, g, id) /\ Held(g)
      BY <1>2, <1>7, <1>9, NodeUnitHeld DEF dressed
    <3> QED BY <3>1 DEF Dressed
  <2> HIDE DEF g
  <2>3. /\ Kept(h, g) /\ Len(g.nodes) = id
        /\ SameNode(made.nodes[id], g.nodes[id])
        /\ \A m \in 1..Len(h.nodes) : SameNode(h.nodes[m], g.nodes[m])
    BY <1>1, <1>2, <2>1, AlikeGrew DEF id
  <2>4. g.b.scopes = h.b.scopes /\ Top(g) = top /\ g.b.key = h.b.key /\ g.b.error = h.b.error
    BY <2>1 DEF Noted, Top
  <2> DEFINE a == Added(g, top.node, key, id, fault)
  <2>5. r = IF a.ok /\ top.kind = "struct" THEN Ok([a.h EXCEPT !.b.key = NoKey]) ELSE a
    <3>1. r = Attached(g, id, fault)
      BY <1>3, <1>9
    <3>2. CASE top.kind = "array"
      BY <1>4, <2>4, <3>1, <3>2 DEF Attached, key, KeyIn
    <3>3. CASE top.kind # "array"
      BY <1>4, <2>4, <3>1, <3>3 DEF Attached, key, KeyIn
    <3> QED BY <3>2, <3>3
  <2>6. CASE fault = "attach"
    <3>1. a.h = Discarded(g, id) /\ ~a.ok
      BY <2>6 DEF Added, Failed
    <3> HIDE DEF a
    <3>2. r = a
      BY <2>5, <3>1
    <3>3. Alike(g, a.h) /\ a.h.b = g.b
      <4>1. id \in DOMAIN g.nodes /\ g.nodes[id].unit \in -1..Len(g.blocks)
        BY <1>7, <2>2 DEF Held
      <4> QED BY <2>2, <3>1, <4>1, DiscardedAlike
    <3>4. Kept(h, a.h)
      <4>1. Len(a.h.nodes) = id /\ \A m \in 1..id : SameNode(g.nodes[m], a.h.nodes[m])
        BY <2>3, <3>3 DEF Alike
      <4>2. \A m \in 1..Len(h.nodes) : SameNode(h.nodes[m], a.h.nodes[m])
        BY <1>4, <2>3, <4>1 DEF SameNode
      <4>3. \A m \in 1..Len(h.nodes) : IsPrefix(h.nodes[m].kids, h.nodes[m].kids)
        BY <1>1, KidsSeq
      <4> QED BY <1>4, <4>1, <4>2, <4>3 DEF Kept, SameNode
    <3> QED BY <2>4, <3>1, <3>2, <3>3, <3>4 DEF r
  <2>7. CASE fault # "attach"
    <3> DEFINE x == Entry(key, id)
               f == [g EXCEPT !.nodes[top.node].kids = Append(@, x)]
    <3>1. a.h = f /\ a.ok
      BY <2>7 DEF Added, Ok
    <3>2. x \in EntrySet /\ top.node \in DOMAIN g.nodes
      <4>1. top.node \in 1..Len(g.nodes)
        BY <1>4, <2>3
      <4> QED BY <1>4, <2>2, <4>1, HeapParts DEF Entry, EntrySet
    <3> HIDE DEF x
    <3>3. /\ Len(f.nodes) = Len(g.nodes) /\ f.b = g.b
          /\ \A m \in 1..Len(g.nodes) :
                /\ f.nodes[m].kind = g.nodes[m].kind /\ f.nodes[m].dims = g.nodes[m].dims
                /\ f.nodes[m].rows = g.nodes[m].rows /\ f.nodes[m].value = g.nodes[m].value
                /\ f.nodes[m].kids = IF m = top.node THEN Append(g.nodes[m].kids, x) ELSE g.nodes[m].kids
      BY <2>2, <3>2, KidAdded
    <3> HIDE DEF f, a
    <3>4. /\ Len(f.nodes) = id /\ id \in 1..Len(g.nodes) /\ \A m \in 1..Len(h.nodes) : m \in 1..Len(g.nodes)
          /\ id # top.node
      BY <1>4, <2>3, <3>3
    <3>5. Grew(h, f, top.node, key, kind, value)
      <4>1. Fresh(f.nodes[id], kind, value)
        BY <1>2, <2>3, <3>3, <3>4 DEF Fresh, SameNode
      <4>2. \A m \in 1..Len(h.nodes) :
               /\ f.nodes[m].kind = h.nodes[m].kind /\ f.nodes[m].dims = h.nodes[m].dims
               /\ f.nodes[m].rows = h.nodes[m].rows /\ f.nodes[m].value = h.nodes[m].value
               /\ f.nodes[m].kids = IF m = top.node THEN Append(h.nodes[m].kids, x) ELSE h.nodes[m].kids
        BY <2>3, <3>3, <3>4 DEF SameNode
      <4> QED BY <3>4, <4>1, <4>2 DEF Grew, x
    <3>6. r.ok /\ r.h.nodes = f.nodes /\ ValueNoted(h.b, r.h.b, top)
      <4>0. f = [g EXCEPT !.nodes = f.nodes] /\ g.b \in Builder
        BY <2>2, HeapParts DEF f, HeapSet
      <4>1. CASE top.kind = "struct"
        <5>1. r.ok /\ r.h = [f EXCEPT !.b.key = NoKey]
          BY <2>5, <3>1, <4>1 DEF Ok
        <5>2. r.h.nodes = f.nodes /\ r.h.b = [g.b EXCEPT !.key = NoKey]
          BY <2>2, <3>3, <4>0, <5>1 DEF HeapSet
        <5>3. /\ r.h.b.key = NoKey /\ r.h.b.scopes = g.b.scopes /\ r.h.b.pop = g.b.pop
              /\ r.h.b.continue = g.b.continue /\ r.h.b.octets = g.b.octets /\ r.h.b.chunks = g.b.chunks
              /\ r.h.b.error = g.b.error
          BY <4>0, <5>2 DEF Builder
        <5> QED BY <2>1, <4>1, <5>1, <5>2, <5>3 DEF Noted, ValueNoted
      <4>2. CASE top.kind # "struct"
        <5>1. r = a
          BY <2>5, <4>2
        <5>2. r.ok /\ r.h.nodes = f.nodes /\ r.h.b = g.b
          BY <3>1, <3>3, <5>1
        <5> QED BY <2>1, <4>2, <5>2 DEF Noted, ValueNoted
      <4> QED BY <4>1, <4>2
    <3>7. Grew(h, r.h, top.node, key, kind, value)
      BY <3>5, <3>6 DEF Grew
    <3> QED BY <3>6, <3>7 DEF r, key
  <2> QED BY <2>6, <2>7
<1> QED BY <1>6, <1>8, <1>9

\* A container, made or not.
LEMMA OpenedEffect ==
    ASSUME NEW h, Sound(h), NEW kind \in {"struct", "array"}, NEW unit \in Units, NEW fault
    PROVE  LET r == Opened(h, kind, unit, fault)
               c == r.h.b
           IN /\ r.ok => /\ Grew(h, r.h, Top(h).node, KeyIn(Top(h), h.b.key), kind, <<>>)
                         /\ c.scopes = Append(h.b.scopes, Scope(kind, Len(h.nodes) + 1)) /\ c.key = NoKey
                         /\ c.pop = h.b.pop /\ c.continue = h.b.continue /\ c.octets = h.b.octets
                         /\ c.chunks = h.b.chunks /\ c.error = h.b.error
              /\ ~r.ok => Kept(h, r.h) /\ c.error = h.b.error
<1> DEFINE id == Len(h.nodes) + 1
           v == Valued(h, kind, <<>>, unit, NoSpelling, fault)
           r == Opened(h, kind, unit, fault)
           key == KeyIn(Top(h), h.b.key)
           ss == Append(h.b.scopes, Scope(kind, id))
<1>1. /\ <<>> \in Seq(Chunks) /\ NoSpelling \in Spellings \cup {NoSpelling}
      /\ kind \in NodeKinds
  BY DEF NodeKinds
<1>2. /\ v.ok => Grew(h, v.h, Top(h).node, key, kind, <<>>) /\ ValueNoted(h.b, v.h.b, Top(h))
      /\ ~v.ok => Kept(h, v.h) /\ v.h.b.error = h.b.error
  <2> DEFINE content == <<>>
             src == NoSpelling
             w == Valued(h, kind, content, unit, src, fault)
  <2>1. content \in Seq(Chunks) /\ unit \in Units /\ src \in Spellings \cup {NoSpelling}
    BY <1>1
  <2> HIDE DEF content, src, key
  <2>2. /\ w.ok => Grew(h, w.h, Top(h).node, KeyIn(Top(h), h.b.key), kind, content) /\ ValueNoted(h.b, w.h.b, Top(h))
        /\ ~w.ok => Kept(h, w.h) /\ w.h.b.error = h.b.error
    <3>1. Sound(h) /\ kind \in NodeKinds /\ content \in Seq(Chunks) /\ unit \in Units /\ src \in Spellings \cup {NoSpelling}
      BY <1>1, <2>1
    <3> QED BY ONLY <3>1, ValuedEffect
  <2> QED BY <2>2 DEF content, src, key
<1>3. Sound(v.h) /\ v.h \in HeapSet /\ v.h.b \in Builder
  <2>1. Sound(v.h)
    BY <1>1, ValuedSound DEF NodeKinds
  <2> HIDE DEF v
  <2> QED BY <2>1, HeapParts DEF Sound
<1>4. h \in HeapSet /\ Len(h.nodes) \in Nat
  BY HeapParts DEF Sound
<1>5. r = IF ~v.ok THEN v ELSE IF ~Pushed(v.h, kind, id, fault).ok THEN Pushed(v.h, kind, id, fault)
          ELSE Ok([Pushed(v.h, kind, id, fault).h EXCEPT !.b.key = NoKey])
  BY DEF Opened
<1> HIDE DEF v, r, key
<1>6. CASE ~v.ok
  BY <1>2, <1>5, <1>6 DEF r
<1>7. CASE v.ok /\ fault = "push"
  <2>1. Pushed(v.h, kind, id, fault) = Failed(v.h)
    BY <1>7 DEF Pushed
  <2>2. r = Failed(v.h)
    BY <1>5, <1>7, <2>1 DEF Failed
  <2>3. r.h = v.h /\ ~r.ok
    BY <2>2 DEF Failed
  <2>4. Kept(h, v.h)
    <3>1. ASSUME NEW m \in 1..Len(h.nodes) PROVE IsPrefix(h.nodes[m].kids, v.h.nodes[m].kids)
      <4>1. m \in 1..Len(v.h.nodes) /\ Len(v.h.nodes) = id
        BY <1>2, <1>4, <1>7 DEF Grew
      <4>2. h.nodes[m].kids \in Seq(EntrySet)
        BY <1>4, KidsSeq
      <4>3. Entry(key, id) \in EntrySet
        <5>1. h.b.key \in Keys \cup {NoKey} /\ id \in Nat
          BY <1>4, BuilderParts
        <5> QED BY <5>1 DEF Entry, EntrySet, key, KeyIn
      <4>4. v.h.nodes[m].kids = h.nodes[m].kids \/ v.h.nodes[m].kids = Append(h.nodes[m].kids, Entry(key, id))
        BY <1>2, <1>7 DEF Grew
      <4> QED BY <4>2, <4>3, <4>4, PrefixesOf
    <3> QED BY <1>2, <1>4, <1>7, <3>1 DEF Kept, Grew
  <2> QED BY <1>2, <1>7, <2>3, <2>4 DEF r, ValueNoted
<1>8. CASE v.ok /\ fault # "push"
  <2> DEFINE p == Pushed(v.h, kind, id, fault)
             x == [v.h EXCEPT !.b.scopes = ss]
  <2>1. v.h.b.scopes = h.b.scopes
    BY <1>2, <1>8 DEF ValueNoted
  <2>2. p = Ok(x)
    BY <1>8, <2>1 DEF Pushed
  <2> HIDE DEF p, ss
  <2>3. p.ok /\ p.h = x
    BY <2>2 DEF Ok
  <2>a. r = Ok([p.h EXCEPT !.b.key = NoKey])
    BY <1>5, <1>8, <2>3 DEF p
  <2>4. r.ok /\ r.h.nodes = v.h.nodes /\ r.h.b = [[v.h.b EXCEPT !.scopes = ss] EXCEPT !.key = NoKey]
    BY <1>3, <2>a, <2>3 DEF HeapSet, Ok
  <2>5. /\ r.h.b.scopes = ss /\ r.h.b.key = NoKey /\ r.h.b.pop = v.h.b.pop /\ r.h.b.continue = v.h.b.continue
        /\ r.h.b.octets = v.h.b.octets /\ r.h.b.chunks = v.h.b.chunks /\ r.h.b.error = v.h.b.error
    BY <1>3, <2>4 DEF Builder
  <2>6. Grew(h, r.h, Top(h).node, key, kind, <<>>)
    BY <1>2, <1>8, <2>4 DEF Grew
  <2> QED BY <1>2, <1>8, <2>4, <2>5, <2>6 DEF r, key, ss, ValueNoted
<1> QED BY <1>6, <1>7, <1>8

-----------------------------------------------------------------------------
(* A heap that mirrors an account.                                         *)

\* Every value is a node, every list of kids the entries of its container, and
\* what no array holds has a key.
Grown(h, a) ==
    /\ Len(h.nodes) = Len(a.values) + 1
    /\ \A v \in 1..Len(a.values) :
          /\ h.nodes[NodeOf(v)].kind = a.values[v].kind /\ h.nodes[NodeOf(v)].value = a.values[v].content
          /\ a.values[v].parent \in 1..v
          /\ h.nodes[a.values[v].parent].kind # "array" => a.values[v].key \in ReadableKeys
    /\ \A id \in 1..Len(h.nodes) : h.nodes[id].kids = Entries(a, id)

\* The scopes are the containers that are open.
Nested(h, a) ==
    /\ Len(a.open) = Len(h.b.scopes)
    /\ \A i \in 1..Len(a.open) :
          a.open[i].id = h.b.scopes[i].node /\ h.b.scopes[i].kind = h.nodes[h.b.scopes[i].node].kind

Mirrors(h, a) == a \in AccountSet /\ Grown(h, a) /\ Nested(h, a)

\* The innermost of both.
LEMMA InnermostOf ==
    ASSUME NEW h, Sound(h), NEW a, Mirrors(h, a)
    PROVE  /\ a.open # <<>> /\ Len(a.open) \in 1..Len(a.open) /\ Len(a.open) \in Nat
           /\ a.open[Len(a.open)] \in FrameSet /\ a.open[Len(a.open)].id = Top(h).node
           /\ Top(h).node \in 1..Len(h.nodes) /\ Top(h) = h.b.scopes[Len(a.open)] /\ Len(h.nodes) \in Nat
           /\ Top(h).kind = h.nodes[Top(h).node].kind
<1>1. h \in HeapSet /\ a \in AccountSet /\ Nested(h, a)
  BY DEF Sound, Mirrors
<1>2. /\ Top(h).node \in DOMAIN h.nodes /\ Top(h) = h.b.scopes[Len(h.b.scopes)]
      /\ Len(h.b.scopes) \in 1..Len(h.b.scopes)
  BY TopThere
<1>3. DOMAIN h.nodes = 1..Len(h.nodes) /\ Len(h.nodes) \in Nat
  BY <1>1, HeapParts
<1>4. Len(a.open) \in Nat /\ \A i \in 1..Len(a.open) : a.open[i] \in FrameSet
  BY <1>1, AccountParts
<1>5. a.open # <<>>
  BY <1>1, <1>2, <1>4 DEF Nested
<1> QED BY <1>1, <1>2, <1>3, <1>4, <1>5 DEF Nested

\* A value more in both.
LEMMA GrownPlaced ==
    ASSUME NEW h, Sound(h), NEW a, Mirrors(h, a), NEW kind \in NodeKinds, NEW content \in Seq(Chunks),
           Top(h).kind # "array" => a.key \in ReadableKeys,
           NEW g, Grew(h, g, Top(h).node, a.key, kind, content),
           NEW b \in AccountSet, b.values = Append(a.values, Value(a.open[Len(a.open)], a.key, kind, content))
    PROVE  Grown(g, b)
<1> DEFINE n == Len(a.values)
           top == a.open[Len(a.open)]
           v == Value(top, a.key, kind, content)
<1>1. /\ top \in FrameSet /\ top.id = Top(h).node /\ Top(h).node \in 1..Len(h.nodes)
      /\ a \in AccountSet /\ Len(h.nodes) = n + 1 /\ n \in Nat
      /\ Top(h).kind = h.nodes[Top(h).node].kind
  BY InnermostOf, AccountParts DEF Mirrors, Grown
<1>2. a.values \in Seq(ValueSet) /\ v \in ValueSet /\ v.parent = Top(h).node /\ v.key = a.key /\ v.kind = kind /\ v.content = content
  <2>1. a.key \in Keys \cup {NoKey}
    BY <1>1, AccountParts
  <2> QED BY <1>1, <2>1, AccountParts DEF Value, ValueSet, FrameSet
<1> HIDE DEF v, top
<1>3. Len(b.values) = n + 1 /\ b.values[n + 1] = v /\ \A k \in 1..n : b.values[k] = a.values[k]
  BY <1>2 DEF v, top
<1>4. Len(g.nodes) = n + 2 /\ Fresh(g.nodes[n + 2], kind, content)
  BY <1>1 DEF Grew
<1>5. ASSUME NEW k \in 1..Len(b.values)
      PROVE  /\ g.nodes[NodeOf(k)].kind = b.values[k].kind /\ g.nodes[NodeOf(k)].value = b.values[k].content
             /\ b.values[k].parent \in 1..k
             /\ g.nodes[b.values[k].parent].kind # "array" => b.values[k].key \in ReadableKeys
  <2>1. CASE k \in 1..n
    <3>1. /\ h.nodes[NodeOf(k)].kind = a.values[k].kind /\ h.nodes[NodeOf(k)].value = a.values[k].content
          /\ a.values[k].parent \in 1..k
          /\ h.nodes[a.values[k].parent].kind # "array" => a.values[k].key \in ReadableKeys
      BY <2>1 DEF Mirrors, Grown
    <3>2. NodeOf(k) \in 1..Len(h.nodes) /\ a.values[k].parent \in 1..Len(h.nodes)
      BY <1>1, <2>1, <3>1 DEF NodeOf
    <3>3. \A m \in 1..Len(h.nodes) : g.nodes[m].kind = h.nodes[m].kind /\ g.nodes[m].value = h.nodes[m].value
      BY DEF Grew
    <3>4. b.values[k] = a.values[k]
      BY <1>3, <2>1
    <3> QED BY ONLY <3>1, <3>2, <3>3, <3>4
  <2>2. CASE k = n + 1
    <3>1. NodeOf(k) = n + 2
      BY <1>1, <2>2 DEF NodeOf
    <3>2. Top(h).node \in 1..k /\ g.nodes[Top(h).node].kind = Top(h).kind
      BY <1>1, <2>2 DEF Grew
    <3> QED BY <1>2, <1>3, <1>4, <2>2, <3>1, <3>2 DEF Fresh
  <2> QED BY <1>1, <1>3, <2>1, <2>2
<1>6. ASSUME NEW id \in 1..Len(g.nodes) PROVE g.nodes[id].kids = Entries(b, id)
  <2>1. Entries(b, id) = IF v.parent = id THEN Append(Entries(a, id), Entry(v.key, n + 2)) ELSE Entries(a, id)
    BY <1>1, <1>2, EntriesAppended DEF v, top
  <2>2. CASE id \in 1..Len(h.nodes)
    <3>1. h.nodes[id].kids = Entries(a, id)
      BY <2>2 DEF Mirrors, Grown
    <3>2. g.nodes[id].kids = IF id = Top(h).node THEN Append(h.nodes[id].kids, Entry(a.key, n + 2)) ELSE h.nodes[id].kids
      BY <1>1, <2>2 DEF Grew
    <3> QED BY <1>2, <2>1, <3>1, <3>2
  <2>3. CASE id = n + 2
    <3>1. v.parent # id
      BY <1>1, <1>2, <2>3
    <3>2. Entries(a, id) = <<>>
      <4>1. \A k \in 1..n : a.values[k].parent \in 1..k
        BY DEF Mirrors, Grown
      <4>2. \A k \in 1..Len(a.values) : a.values[k].parent # id
        BY <1>1, <2>3, <4>1
      <4> QED BY <1>1, <4>2, EntriesNone
    <3> QED BY <1>4, <2>1, <2>3, <3>1, <3>2 DEF Fresh
  <2> QED BY <1>1, <1>4, <2>2, <2>3
<1>7. Len(g.nodes) = Len(b.values) + 1
  BY <1>1, <1>3, <1>4
<1> QED BY <1>5, <1>6, <1>7 DEF Grown

\* A scalar or an octet stream in both.
LEMMA MirrorsPlaced ==
    ASSUME NEW h, Sound(h), NEW a, Mirrors(h, a), NEW kind \in NodeKinds, NEW content \in Seq(Chunks),
           Top(h).kind # "array" => a.key \in ReadableKeys,
           NEW g, Grew(h, g, Top(h).node, a.key, kind, content), g.b.scopes = h.b.scopes
    PROVE  Mirrors(g, Placed(a, kind, content))
<1> DEFINE p == Placed(a, kind, content)
           n == Len(a.open)
<1>1. /\ a \in AccountSet /\ a.open # <<>> /\ n \in 1..n /\ n \in Nat /\ a.open[n] \in FrameSet
      /\ a.open[n].id = Top(h).node /\ Len(h.nodes) \in Nat
  BY InnermostOf DEF Mirrors
<1>2. /\ p \in AccountSet /\ p.values = Append(a.values, Value(a.open[n], a.key, kind, content)) /\ Len(p.open) = n
      /\ \A i \in 1..n : p.open[i] = IF i = n THEN [a.open[n] EXCEPT !.width = a.open[n].width + 1] ELSE a.open[i]
  BY <1>1, PlacedParts
<1> HIDE DEF p
<1>3. Grown(g, p)
  BY <1>2, GrownPlaced
<1>4. \A i \in 1..n : p.open[i].id = a.open[i].id
  BY <1>1, <1>2 DEF FrameSet
<1>5. /\ Len(h.b.scopes) = n
      /\ \A i \in 1..n : a.open[i].id = h.b.scopes[i].node /\ h.b.scopes[i].kind = h.nodes[h.b.scopes[i].node].kind
  BY DEF Mirrors, Nested
<1>6. \A i \in 1..n : h.b.scopes[i].node \in 1..Len(h.nodes)
  BY <1>5, HeapParts, BuilderParts DEF Sound, Scoped, AliveIn
<1>7. ASSUME NEW i \in 1..n
      PROVE  p.open[i].id = g.b.scopes[i].node /\ g.b.scopes[i].kind = g.nodes[g.b.scopes[i].node].kind
  <2>1. g.nodes[h.b.scopes[i].node].kind = h.nodes[h.b.scopes[i].node].kind
    BY <1>6 DEF Grew
  <2> QED BY <1>4, <1>5, <2>1
<1>8. Nested(g, p)
  BY <1>2, <1>5, <1>7 DEF Nested
<1> QED BY <1>2, <1>3, <1>8 DEF Mirrors, p

\* A container in both, and its scope.
LEMMA MirrorsEntered ==
    ASSUME NEW h, Sound(h), NEW a, Mirrors(h, a), NEW kind \in {"struct", "array"},
           Top(h).kind # "array" => a.key \in ReadableKeys,
           NEW g, Grew(h, g, Top(h).node, a.key, kind, <<>>),
           g.b.scopes = Append(h.b.scopes, Scope(kind, Len(h.nodes) + 1))
    PROVE  Mirrors(g, Entered(a, kind))
<1> DEFINE p == Entered(a, kind)
           n == Len(a.open)
           id == Len(h.nodes) + 1
<1>0. kind \in NodeKinds /\ <<>> \in Seq(Chunks)
  BY DEF NodeKinds
<1>1. /\ a \in AccountSet /\ a.open # <<>> /\ n \in 1..n /\ n \in Nat /\ a.open[n] \in FrameSet
      /\ a.open[n].id = Top(h).node /\ Len(h.nodes) \in Nat /\ Len(h.nodes) = Len(a.values) + 1 /\ Len(a.values) \in Nat
  BY InnermostOf, AccountParts DEF Mirrors, Grown
<1>2. /\ p \in AccountSet /\ p.values = Append(a.values, Value(a.open[n], a.key, kind, <<>>))
      /\ Len(p.open) = n + 1 /\ p.open[n + 1] = Frame(Len(a.values) + 2)
      /\ \A i \in 1..n : p.open[i] = IF i = n THEN [a.open[n] EXCEPT !.width = a.open[n].width + 1] ELSE a.open[i]
  BY <1>0, <1>1, EnteredParts
<1> HIDE DEF p
<1>3. Grown(g, p)
  <2> DEFINE content == <<>>
  <2>1. /\ content \in Seq(Chunks) /\ Grew(h, g, Top(h).node, a.key, kind, content)
        /\ p.values = Append(a.values, Value(a.open[Len(a.open)], a.key, kind, content))
    BY <1>0, <1>2
  <2> HIDE DEF content
  <2> QED BY <1>0, <1>2, <2>1, GrownPlaced
<1>4. /\ \A i \in 1..n : p.open[i].id = a.open[i].id
      /\ p.open[n + 1].id = id
  <2>1. p.open[n + 1].id = Len(a.values) + 2
    BY <1>2 DEF Frame
  <2>2. ASSUME NEW i \in 1..n PROVE p.open[i].id = a.open[i].id
    BY <1>1, <1>2 DEF FrameSet
  <2> QED BY <1>1, <2>1, <2>2
<1>5. /\ Len(h.b.scopes) = n /\ h.b.scopes \in Seq(ScopeSet)
      /\ \A i \in 1..n : a.open[i].id = h.b.scopes[i].node /\ h.b.scopes[i].kind = h.nodes[h.b.scopes[i].node].kind
  BY BuilderParts DEF Mirrors, Nested, Sound
<1>6. \A i \in 1..n : h.b.scopes[i].node \in 1..Len(h.nodes)
  BY <1>5, HeapParts, BuilderParts DEF Sound, Scoped, AliveIn
<1>7. Scope(kind, id) \in ScopeSet /\ Scope(kind, id).node = id /\ Scope(kind, id).kind = kind
  BY <1>1 DEF Scope, ScopeSet
<1>8. /\ Len(g.b.scopes) = n + 1 /\ g.b.scopes[n + 1] = Scope(kind, id) /\ \A i \in 1..n : g.b.scopes[i] = h.b.scopes[i]
  BY <1>5, <1>7
<1>9. g.nodes[id].kind = kind
  BY DEF Grew, Fresh
<1> HIDE DEF id, n
<1>10. ASSUME NEW i \in 1..(n + 1)
       PROVE  p.open[i].id = g.b.scopes[i].node /\ g.b.scopes[i].kind = g.nodes[g.b.scopes[i].node].kind
  <2>1. CASE i \in 1..n
    <3>1. g.nodes[h.b.scopes[i].node].kind = h.nodes[h.b.scopes[i].node].kind
      BY <1>6, <2>1 DEF Grew
    <3> QED BY <1>4, <1>5, <1>8, <2>1, <3>1
  <2>2. CASE i = n + 1
    BY <1>4, <1>7, <1>8, <1>9, <2>2
  <2>3. i \in 1..n \/ i = n + 1
    <3>1. n \in Nat
      BY <1>1
    <3> QED BY <3>1
  <2> QED BY <2>1, <2>2, <2>3
<1>11. Nested(g, p)
  BY <1>2, <1>8, <1>10 DEF Nested, n
<1> QED BY <1>2, <1>3, <1>11 DEF Mirrors, p

-----------------------------------------------------------------------------
(* What the reader may say, by what the builder has open.                  *)
Lined(ss, o) ==
    /\ ss \in Seq(ScopeSet) /\ o \in Seq({"struct", Plain}) /\ Len(ss) = Len(o) + 1
    /\ ss[1].kind = "document"
    /\ \A i \in 1..Len(o) : /\ ss[i + 1].kind \in {"struct", "array"}
                            /\ o[i] = IF ss[i + 1].kind = "struct" THEN "struct" ELSE Plain

\* What follows a value in a scope of this kind.
Following(kind) == IF kind = "array" THEN "item" ELSE "key"

\* The stream's innermost container is the builder's innermost scope.
LEMMA LinedTop ==
    ASSUME NEW ss, NEW o, Lined(ss, o), NEW x, NEW f
    PROVE  /\ Stream!InArray(Stream!View(o, x, f)) <=> Last(ss).kind = "array"
           /\ Stream!InStruct(Stream!View(o, x, f)) <=> Last(ss).kind = "struct"
           /\ Stream!Settled(Stream!View(o, x, f)) = Stream!View(o, Following(Last(ss).kind), Plain)
           /\ Last(ss).kind = "array" => Last(o) = Plain
           /\ Last(ss).kind # "document" => o # <<>>
           /\ o # <<>> => Last(ss).kind # "document"
<1> DEFINE n == Len(o)
           v == Stream!View(o, x, f)
<1>1. /\ n \in Nat /\ Len(ss) = n + 1 /\ Last(ss) = ss[n + 1] /\ Last(o) = o[n] /\ (o = <<>> <=> n = 0)
      /\ ss[1].kind = "document"
  BY DEF Lined, Last
<1>2. n # 0 => /\ ss[n + 1].kind \in {"struct", "array"}
               /\ o[n] = IF ss[n + 1].kind = "struct" THEN "struct" ELSE Plain
  BY <1>1 DEF Lined
<1>3. Plain # "struct"
  BY DocumentAssumption DEF Stream!Struct
<1>4. v.open = o
  BY DEF Stream!View
<1> HIDE DEF v, n
<1>5. Stream!InArray(v) <=> Last(ss).kind = "array"
  BY <1>1, <1>2, <1>3, <1>4 DEF Stream!InArray, Stream!Struct, Stream!Last, Last
<1>6. Stream!InStruct(v) <=> Last(ss).kind = "struct"
  BY <1>1, <1>2, <1>3, <1>4 DEF Stream!InStruct, Stream!Struct, Stream!Last, Last
<1>7. Last(ss).kind = "array" => Last(o) = Plain
  BY <1>1, <1>2
<1>8. Stream!Settled(v) = Stream!View(o, Following(Last(ss).kind), Plain)
  BY <1>4, <1>5, <1>7 DEF Stream!Settled, Following, Stream!Last, Last
<1> QED BY <1>1, <1>2, <1>5, <1>6, <1>7, <1>8 DEF v

\* One scope and one container fewer, or more.
LEMMA LinedFront ==
    ASSUME NEW ss, NEW o, Lined(ss, o), o # <<>>
    PROVE  Lined(Front(ss), Front(o))
<1> DEFINE n == Len(o)
           s == SubSeq(ss, 1, n)
           m == n - 1
           p == SubSeq(o, 1, m)
<1>1. n \in Nat /\ n >= 1 /\ Len(ss) = n + 1 /\ ss \in Seq(ScopeSet) /\ o \in Seq({"struct", Plain})
  BY DEF Lined
<1>2. Front(ss) = s /\ Front(o) = p
  <2>1. Len(ss) - 1 = n
    BY <1>1
  <2> QED BY <2>1 DEF Front
<1>3. m \in Nat /\ m = n - 1
  BY <1>1
<1> HIDE DEF n, m
<1>4. s \in Seq(ScopeSet) /\ Len(s) = n /\ \A i \in 1..n : s[i] = ss[i]
  BY <1>1
<1>5. p \in Seq({"struct", Plain}) /\ Len(p) = m /\ \A i \in 1..m : p[i] = o[i]
  BY <1>1, <1>3 DEF n
<1> HIDE DEF s, p
<1>6. Len(s) = Len(p) + 1 /\ s[1].kind = "document"
  BY <1>1, <1>3, <1>4, <1>5 DEF Lined
<1>7. ASSUME NEW i \in 1..Len(p)
      PROVE  s[i + 1].kind \in {"struct", "array"} /\ p[i] = IF s[i + 1].kind = "struct" THEN "struct" ELSE Plain
  <2>1. i \in 1..n /\ i + 1 \in 1..n /\ i \in 1..m
    BY <1>1, <1>3, <1>5
  <2> QED BY <1>4, <1>5, <2>1 DEF Lined, n
<1> QED BY <1>2, <1>4, <1>5, <1>6, <1>7 DEF Lined

\* One container more, to both.
LEMMA LinedAppend ==
    ASSUME NEW ss, NEW o, Lined(ss, o), NEW kind \in {"struct", "array"}, NEW id \in Nat
    PROVE  Lined(Append(ss, Scope(kind, id)), Append(o, IF kind = "struct" THEN "struct" ELSE Plain))
<1> DEFINE n == Len(o)
           c == IF kind = "struct" THEN "struct" ELSE Plain
           x == Scope(kind, id)
           s == Append(ss, x)
           p == Append(o, c)
<1>1. n \in Nat /\ Len(ss) = n + 1 /\ ss \in Seq(ScopeSet) /\ o \in Seq({"struct", Plain}) /\ ss[1].kind = "document"
  BY DEF Lined
<1>2. x \in ScopeSet /\ x.kind = kind /\ c \in {"struct", Plain}
  BY DEF Scope, ScopeSet
<1> HIDE DEF x, c
<1>3. s \in Seq(ScopeSet) /\ Len(s) = n + 2 /\ s[n + 2] = x /\ \A i \in 1..(n + 1) : s[i] = ss[i]
  BY <1>1, <1>2
<1>4. p \in Seq({"struct", Plain}) /\ Len(p) = n + 1 /\ p[n + 1] = c /\ \A i \in 1..n : p[i] = o[i]
  BY <1>1, <1>2
<1> HIDE DEF s, p
<1>5. ASSUME NEW i \in 1..Len(p)
      PROVE  s[i + 1].kind \in {"struct", "array"} /\ p[i] = IF s[i + 1].kind = "struct" THEN "struct" ELSE Plain
  <2>1. CASE i \in 1..n
    <3>1. i + 1 \in 1..(n + 1)
      BY <1>1, <2>1
    <3> QED BY <1>3, <1>4, <2>1, <3>1 DEF Lined, n
  <2>2. CASE i = n + 1
    <3>1. i + 1 = n + 2
      BY <1>1, <2>2
    <3> QED BY <1>2, <1>3, <1>4, <2>2, <3>1 DEF c
  <2> QED BY <1>1, <1>4, <2>1, <2>2
<1>6. Len(s) = Len(p) + 1 /\ s[1].kind = "document"
  BY <1>1, <1>3, <1>4
<1> QED BY <1>3, <1>4, <1>5, <1>6 DEF Lined, s, p, x, c

\* One event's views.
LEMMA AfterMark ==
    ASSUME NEW c
    PROVE  LET r == Stream!Resting(c)
           IN /\ Stream!After(c, Stream!Mark("stream_start")) =
                   IF c.expect = "start" THEN {Stream!View(<<>>, "key", Plain)} ELSE {}
              /\ Stream!After(c, Stream!Mark("assignment_start")) =
                   IF r.expect = "key" THEN {Stream!View(r.open, "value", Plain)} ELSE {}
              /\ Stream!After(c, Stream!Mark("data")) =
                   IF Stream!WantsValue(r) /\ Plain = r.force THEN {Stream!Settled(r)} ELSE {}
              /\ Stream!After(c, Stream!Mark("struct_start")) =
                   IF Stream!WantsValue(r) /\ r.force = Plain THEN {Stream!Opened(r, "struct", "key", Plain)} ELSE {}
              /\ Stream!After(c, Stream!Mark("struct_end")) =
                   IF r.expect = "key" /\ Stream!InStruct(r) THEN {Stream!Settled(Stream!Closed(r))} ELSE {}
              /\ Stream!After(c, Stream!Mark("row_start")) =
                   IF (Stream!WantsValue(r) \/ c.expect = "row") /\ Plain = r.force
                   THEN {Stream!Opened(r, r.force, "item", r.force)} ELSE {}
              /\ Stream!After(c, Stream!Mark("row_end")) =
                   IF r.expect = "item" THEN {Stream!View(Front(r.open), "row_done", Last(r.open))} ELSE {}
              /\ Stream!After(c, Stream!Mark("dim_start")) =
                   IF c.expect = "row_done" THEN {Stream!View(c.open, "row", c.force)} ELSE {}
              /\ Stream!After(c, Stream!Mark("octets_start")) =
                   IF Stream!WantsValue(r) THEN {Stream!View(r.open, "octets", r.force)} ELSE {}
              /\ Stream!After(c, Stream!Mark("octets")) = IF c.expect = "octets" THEN {c} ELSE {}
              /\ Stream!After(c, Stream!Mark("octets_end")) = IF c.expect = "octets" THEN {Stream!Settled(c)} ELSE {}
              /\ Stream!After(c, Stream!Mark("stream_end")) =
                   IF r.expect = "key" /\ r.open = <<>> THEN {Stream!View(<<>>, "end", Plain)} ELSE {}
<1>1. LET r == Stream!Resting(c) IN Stream!After(c, Stream!Mark("stream_start")) =
                   IF c.expect = "start" THEN {Stream!View(<<>>, "key", Plain)} ELSE {}
  BY DEF Stream!After, Stream!Struct, Stream!Mark, Stream!Event, Stream!Front, Stream!Last, Front, Last
<1>2. LET r == Stream!Resting(c) IN Stream!After(c, Stream!Mark("assignment_start")) =
                   IF r.expect = "key" THEN {Stream!View(r.open, "value", Plain)} ELSE {}
  BY DEF Stream!After, Stream!Struct, Stream!Mark, Stream!Event, Stream!Front, Stream!Last, Front, Last
<1>3. LET r == Stream!Resting(c) IN Stream!After(c, Stream!Mark("data")) =
                   IF Stream!WantsValue(r) /\ Plain = r.force THEN {Stream!Settled(r)} ELSE {}
  BY DEF Stream!After, Stream!Struct, Stream!Mark, Stream!Event, Stream!Front, Stream!Last, Front, Last
<1>4. LET r == Stream!Resting(c) IN Stream!After(c, Stream!Mark("struct_start")) =
                   IF Stream!WantsValue(r) /\ r.force = Plain THEN {Stream!Opened(r, "struct", "key", Plain)} ELSE {}
  BY DEF Stream!After, Stream!Struct, Stream!Mark, Stream!Event, Stream!Front, Stream!Last, Front, Last
<1>5. LET r == Stream!Resting(c) IN Stream!After(c, Stream!Mark("struct_end")) =
                   IF r.expect = "key" /\ Stream!InStruct(r) THEN {Stream!Settled(Stream!Closed(r))} ELSE {}
  BY DEF Stream!After, Stream!Struct, Stream!Mark, Stream!Event, Stream!Front, Stream!Last, Front, Last
<1>6. LET r == Stream!Resting(c) IN Stream!After(c, Stream!Mark("row_start")) =
                   IF (Stream!WantsValue(r) \/ c.expect = "row") /\ Plain = r.force
                   THEN {Stream!Opened(r, r.force, "item", r.force)} ELSE {}
  BY DEF Stream!After, Stream!Struct, Stream!Mark, Stream!Event, Stream!Front, Stream!Last, Front, Last
<1>7. LET r == Stream!Resting(c) IN Stream!After(c, Stream!Mark("row_end")) =
                   IF r.expect = "item" THEN {Stream!View(Front(r.open), "row_done", Last(r.open))} ELSE {}
  BY DEF Stream!After, Stream!Struct, Stream!Mark, Stream!Event, Stream!Front, Stream!Last, Front, Last
<1>8. LET r == Stream!Resting(c) IN Stream!After(c, Stream!Mark("dim_start")) =
                   IF c.expect = "row_done" THEN {Stream!View(c.open, "row", c.force)} ELSE {}
  BY DEF Stream!After, Stream!Struct, Stream!Mark, Stream!Event, Stream!Front, Stream!Last, Front, Last
<1>9. LET r == Stream!Resting(c) IN Stream!After(c, Stream!Mark("octets_start")) =
                   IF Stream!WantsValue(r) THEN {Stream!View(r.open, "octets", r.force)} ELSE {}
  BY DEF Stream!After, Stream!Struct, Stream!Mark, Stream!Event, Stream!Front, Stream!Last, Front, Last
<1>10. LET r == Stream!Resting(c) IN Stream!After(c, Stream!Mark("octets")) = IF c.expect = "octets" THEN {c} ELSE {}
  BY DEF Stream!After, Stream!Struct, Stream!Mark, Stream!Event, Stream!Front, Stream!Last, Front, Last
<1>11. LET r == Stream!Resting(c) IN Stream!After(c, Stream!Mark("octets_end")) = IF c.expect = "octets" THEN {Stream!Settled(c)} ELSE {}
  BY DEF Stream!After, Stream!Struct, Stream!Mark, Stream!Event, Stream!Front, Stream!Last, Front, Last
<1>12. LET r == Stream!Resting(c) IN Stream!After(c, Stream!Mark("stream_end")) =
                   IF r.expect = "key" /\ r.open = <<>> THEN {Stream!View(<<>>, "end", Plain)} ELSE {}
  BY DEF Stream!After, Stream!Struct, Stream!Mark, Stream!Event, Stream!Front, Stream!Last, Front, Last
<1> QED BY <1>1, <1>2, <1>3, <1>4, <1>5, <1>6, <1>7, <1>8, <1>9, <1>10, <1>11, <1>12

\* What the consumer may be told next, once a row that ended is known to be the last.
Rested(ss) == IF expect = "row_done" THEN Following(Last(ss).kind) ELSE expect
Valuable(ss) == Rested(ss) \in {"value", "item"}

\* What may be said, and what comes after.
LEMMA SayCases ==
    ASSUME NEW ss, Lined(ss, open), force = Plain, NEW ev, Stream!Say(Stream!Mark(ev))
    PROVE  /\ ev = "stream_start" => expect = "start" /\ open' = <<>> /\ expect' = "key" /\ force' = Plain
           /\ ev = "assignment_start" => Rested(ss) = "key" /\ open' = open /\ expect' = "value" /\ force' = Plain
           /\ ev = "data" => /\ Valuable(ss) /\ open' = open /\ force' = Plain
                             /\ expect' = Following(Last(ss).kind)
           /\ ev = "struct_start" => /\ Valuable(ss) /\ open' = Append(open, "struct") /\ force' = Plain
                                     /\ expect' = "key"
           /\ ev = "struct_end" => /\ Rested(ss) = "key" /\ Last(ss).kind = "struct" /\ open' = Front(open)
                                   /\ force' = Plain /\ expect' = Following(Last(Front(ss)).kind)
           /\ ev = "row_start" => /\ Valuable(ss) \/ expect = "row"
                                  /\ open' = Append(open, Plain) /\ force' = Plain /\ expect' = "item"
           /\ ev = "row_end" => /\ Rested(ss) = "item" /\ open' = Front(open)
                                /\ Last(ss).kind = "array" =>
                                     force' = Plain /\ expect' \in {"row_done", Following(Last(Front(ss)).kind)}
           /\ ev = "dim_start" => expect = "row_done" /\ open' = open /\ expect' = "row" /\ force' = Plain
           /\ ev = "octets_start" => Valuable(ss) /\ open' = open /\ force' = Plain /\ expect' = "octets"
           /\ ev = "octets" => expect = "octets" /\ open' = open /\ force' = Plain /\ expect' = "octets"
           /\ ev = "octets_end" => /\ expect = "octets" /\ open' = open /\ force' = Plain
                                   /\ expect' = Following(Last(ss).kind)
           /\ ev = "stream_end" => Rested(ss) = "key" /\ open = <<>>
<1> DEFINE c == Stream!Current
           r == Stream!Resting(c)
           F == Following(Last(ss).kind)
           After == Stream!After(c, Stream!Mark(ev))
<1>1. c = Stream!View(open, expect, Plain) /\ c.open = open /\ c.expect = expect /\ c.force = Plain
  BY DEF Stream!Current, Stream!View
<1>2. Stream!Settled(c) = Stream!View(open, F, Plain)
  BY <1>1, LinedTop
<1>3. r = Stream!View(open, Rested(ss), Plain)
  BY <1>1, <1>2 DEF Stream!Resting, Rested
<1>4. r.open = open /\ r.expect = Rested(ss) /\ r.force = Plain
  BY <1>3 DEF Stream!View
<1>5. /\ Stream!Settled(r) = Stream!View(open, F, Plain)
      /\ Stream!InStruct(r) <=> Last(ss).kind = "struct"
      /\ Stream!WantsValue(r) <=> Valuable(ss)
  BY <1>3, <1>4, LinedTop DEF Stream!WantsValue, Valuable
<1>6. \E x \in After : \E d \in {x, Stream!Resting(x)} : open' = d.open /\ expect' = d.expect /\ force' = d.force
  BY DEF Stream!Say
<1> HIDE DEF c, r, After, F
<1>7. \A o, x, f : /\ Stream!View(o, x, f).open = o /\ Stream!View(o, x, f).expect = x /\ Stream!View(o, x, f).force = f
                   /\ x # "row_done" => Stream!Resting(Stream!View(o, x, f)) = Stream!View(o, x, f)
  BY DEF Stream!View, Stream!Resting
<1>8. F # "row_done"
  BY DEF F, Following
<1>9. ev = "stream_start" => expect = "start" /\ open' = <<>> /\ expect' = "key" /\ force' = Plain
  <2> SUFFICES ASSUME ev = "stream_start" PROVE expect = "start" /\ open' = <<>> /\ expect' = "key" /\ force' = Plain
    OBVIOUS
  <2>1. After = IF c.expect = "start" THEN {Stream!View(<<>>, "key", Plain)} ELSE {}
    BY AfterMark DEF After
  <2>2. c.expect = "start"
    BY <1>6, <2>1
  <2> QED BY <1>1, <1>6, <1>7, <2>1, <2>2
<1>10. ev = "assignment_start" => Rested(ss) = "key" /\ open' = open /\ expect' = "value" /\ force' = Plain
  <2> SUFFICES ASSUME ev = "assignment_start"
               PROVE  Rested(ss) = "key" /\ open' = open /\ expect' = "value" /\ force' = Plain
    OBVIOUS
  <2>1. After = IF r.expect = "key" THEN {Stream!View(r.open, "value", Plain)} ELSE {}
    BY AfterMark DEF After, r
  <2>2. r.expect = "key"
    BY <1>6, <2>1
  <2> QED BY <1>4, <1>6, <1>7, <2>1, <2>2
<1>11. ev = "data" => Valuable(ss) /\ open' = open /\ force' = Plain /\ expect' = F
  <2> SUFFICES ASSUME ev = "data" PROVE Valuable(ss) /\ open' = open /\ force' = Plain /\ expect' = F
    OBVIOUS
  <2>1. After = IF Stream!WantsValue(r) /\ Plain = r.force THEN {Stream!Settled(r)} ELSE {}
    BY AfterMark DEF After, r
  <2>2. Stream!WantsValue(r) /\ After = {Stream!View(open, F, Plain)}
    BY <1>5, <1>6, <2>1
  <2> QED BY <1>5, <1>6, <1>7, <1>8, <2>2
<1>12. ev = "struct_start" => Valuable(ss) /\ open' = Append(open, "struct") /\ force' = Plain /\ expect' = "key"
  <2> SUFFICES ASSUME ev = "struct_start"
               PROVE  Valuable(ss) /\ open' = Append(open, "struct") /\ force' = Plain /\ expect' = "key"
    OBVIOUS
  <2>1. After = IF Stream!WantsValue(r) /\ r.force = Plain THEN {Stream!Opened(r, "struct", "key", Plain)} ELSE {}
    BY AfterMark DEF After, r
  <2> DEFINE o == Append(open, "struct")
  <2>2. Stream!WantsValue(r) /\ After = {Stream!View(o, "key", Plain)}
    BY <1>4, <1>5, <1>6, <2>1 DEF Stream!Opened
  <2> HIDE DEF o
  <2>3. open' = o /\ force' = Plain /\ expect' = "key"
    BY <1>6, <1>7, <2>2
  <2> QED BY <1>5, <2>2, <2>3 DEF o
<1>13. ev = "struct_end" => /\ Rested(ss) = "key" /\ Last(ss).kind = "struct" /\ open' = Front(open)
                            /\ force' = Plain /\ expect' = Following(Last(Front(ss)).kind)
  <2> SUFFICES ASSUME ev = "struct_end"
               PROVE  /\ Rested(ss) = "key" /\ Last(ss).kind = "struct" /\ open' = Front(open)
                      /\ force' = Plain /\ expect' = Following(Last(Front(ss)).kind)
    OBVIOUS
  <2> DEFINE G == Following(Last(Front(ss)).kind)
  <2>1. After = IF r.expect = "key" /\ Stream!InStruct(r) THEN {Stream!Settled(Stream!Closed(r))} ELSE {}
    BY AfterMark DEF After, r
  <2>2. r.expect = "key" /\ Stream!InStruct(r) /\ After = {Stream!Settled(Stream!Closed(r))}
    BY <1>6, <2>1
  <2>3. open # <<>>
    BY <1>5, <2>2, LinedTop
  <2>4. Stream!Closed(r) = Stream!View(Front(open), "key", Plain)
    BY <1>4, <2>2 DEF Stream!Closed, Stream!Front, Front
  <2>5. Lined(Front(ss), Front(open))
    BY <2>3, LinedFront
  <2>6. Stream!Settled(Stream!Closed(r)) = Stream!View(Front(open), G, Plain)
    BY <2>4, <2>5, LinedTop
  <2>7. G # "row_done"
    BY DEF Following
  <2> HIDE DEF G
  <2>8. open' = Front(open) /\ force' = Plain /\ expect' = G
    BY <1>6, <1>7, <2>2, <2>6, <2>7
  <2> QED BY <1>4, <1>5, <2>2, <2>8 DEF G
<1>14. ev = "row_start" => /\ Valuable(ss) \/ expect = "row"
                           /\ open' = Append(open, Plain) /\ force' = Plain /\ expect' = "item"
  <2> SUFFICES ASSUME ev = "row_start"
               PROVE  /\ Valuable(ss) \/ expect = "row"
                      /\ open' = Append(open, Plain) /\ force' = Plain /\ expect' = "item"
    OBVIOUS
  <2>1. After = IF (Stream!WantsValue(r) \/ c.expect = "row") /\ Plain = r.force
                THEN {Stream!Opened(r, r.force, "item", r.force)} ELSE {}
    BY AfterMark DEF After, r
  <2> DEFINE o == Append(open, Plain)
  <2>2. /\ Stream!WantsValue(r) \/ c.expect = "row"
        /\ After = {Stream!View(o, "item", Plain)}
    BY <1>4, <1>6, <2>1 DEF Stream!Opened
  <2> HIDE DEF o
  <2>3. open' = o /\ force' = Plain /\ expect' = "item"
    BY <1>6, <1>7, <2>2
  <2> QED BY <1>1, <1>5, <2>2, <2>3 DEF o
<1>15. ev = "row_end" => /\ Rested(ss) = "item" /\ open' = Front(open)
                         /\ Last(ss).kind = "array" =>
                              force' = Plain /\ expect' \in {"row_done", Following(Last(Front(ss)).kind)}
  <2> SUFFICES ASSUME ev = "row_end"
               PROVE  /\ Rested(ss) = "item" /\ open' = Front(open)
                      /\ Last(ss).kind = "array" =>
                           force' = Plain /\ expect' \in {"row_done", Following(Last(Front(ss)).kind)}
    OBVIOUS
  <2> DEFINE G == Following(Last(Front(ss)).kind)
             x == Stream!View(Front(open), "row_done", Last(open))
  <2>1. After = IF r.expect = "item" THEN {Stream!View(Front(r.open), "row_done", Last(r.open))} ELSE {}
    BY AfterMark DEF After, r
  <2>2. r.expect = "item" /\ After = {x}
    BY <1>4, <1>6, <2>1
  <2>3. Stream!Resting(x) = Stream!Settled(x) /\ x.open = Front(open) /\ x.expect = "row_done" /\ x.force = Last(open)
    BY DEF Stream!Resting, Stream!View
  <2>4. Stream!Settled(x).open = Front(open)
    BY <2>3 DEF Stream!Settled, Stream!View
  <2>5. open' = Front(open)
    BY <1>6, <2>2, <2>3, <2>4
  <2>6. ASSUME Last(ss).kind = "array" PROVE force' = Plain /\ expect' \in {"row_done", G}
    <3>1. open # <<>> /\ Last(open) = Plain
      BY <2>6, LinedTop
    <3>2. Lined(Front(ss), Front(open))
      BY <3>1, LinedFront
    <3>3. Stream!Settled(x) = Stream!View(Front(open), G, Plain)
      BY <3>2, LinedTop
    <3> HIDE DEF G, x
    <3> QED BY <1>6, <1>7, <2>2, <2>3, <3>1, <3>3
  <2> QED BY <1>4, <2>2, <2>5, <2>6
<1>16. ev = "dim_start" => expect = "row_done" /\ open' = open /\ expect' = "row" /\ force' = Plain
  <2> SUFFICES ASSUME ev = "dim_start" PROVE expect = "row_done" /\ open' = open /\ expect' = "row" /\ force' = Plain
    OBVIOUS
  <2>1. After = IF c.expect = "row_done" THEN {Stream!View(c.open, "row", c.force)} ELSE {}
    BY AfterMark DEF After
  <2>2. c.expect = "row_done"
    BY <1>6, <2>1
  <2> QED BY <1>1, <1>6, <1>7, <2>1, <2>2
<1>17. ev = "octets_start" => Valuable(ss) /\ open' = open /\ force' = Plain /\ expect' = "octets"
  <2> SUFFICES ASSUME ev = "octets_start" PROVE Valuable(ss) /\ open' = open /\ force' = Plain /\ expect' = "octets"
    OBVIOUS
  <2>1. After = IF Stream!WantsValue(r) THEN {Stream!View(r.open, "octets", r.force)} ELSE {}
    BY AfterMark DEF After, r
  <2>2. Stream!WantsValue(r) /\ After = {Stream!View(open, "octets", Plain)}
    BY <1>4, <1>6, <2>1
  <2> QED BY <1>5, <1>6, <1>7, <2>2
<1>18. ev = "octets" => expect = "octets" /\ open' = open /\ force' = Plain /\ expect' = "octets"
  <2> SUFFICES ASSUME ev = "octets" PROVE expect = "octets" /\ open' = open /\ force' = Plain /\ expect' = "octets"
    OBVIOUS
  <2>1. After = IF c.expect = "octets" THEN {c} ELSE {}
    BY AfterMark DEF After
  <2>2. c.expect = "octets" /\ After = {c}
    BY <1>6, <2>1
  <2>3. Stream!Resting(c) = c
    BY <1>1, <1>7, <2>2
  <2> QED BY <1>1, <1>6, <2>2, <2>3
<1>19. ev = "octets_end" => expect = "octets" /\ open' = open /\ force' = Plain /\ expect' = F
  <2> SUFFICES ASSUME ev = "octets_end" PROVE expect = "octets" /\ open' = open /\ force' = Plain /\ expect' = F
    OBVIOUS
  <2>1. After = IF c.expect = "octets" THEN {Stream!Settled(c)} ELSE {}
    BY AfterMark DEF After
  <2>2. c.expect = "octets" /\ After = {Stream!View(open, F, Plain)}
    BY <1>2, <1>6, <2>1
  <2> QED BY <1>1, <1>6, <1>7, <1>8, <2>2
<1>20. ev = "stream_end" => Rested(ss) = "key" /\ open = <<>>
  <2> SUFFICES ASSUME ev = "stream_end" PROVE Rested(ss) = "key" /\ open = <<>>
    OBVIOUS
  <2>1. After = IF r.expect = "key" /\ r.open = <<>> THEN {Stream!View(<<>>, "end", Plain)} ELSE {}
    BY AfterMark DEF After, r
  <2> QED BY <1>4, <1>6, <2>1
<1> QED BY <1>9, <1>10, <1>11, <1>12, <1>13, <1>14, <1>15, <1>16, <1>17, <1>18, <1>19, <1>20 DEF F


-----------------------------------------------------------------------------
(* Arrays, row by row: where a value stands among the entries of its array *)
(* is told by its row and its place in it, whatever the rows' one width W. *)
Placing(x, W) == (x.row - 1) * W + x.column + 1
RowLength(x, W, row, width) == IF x.row = row THEN width ELSE W

\* So many rows, the last of them so long.
Filled(a, id, W, row, width) ==
    /\ Len(Entries(a, id)) = (row - 1) * W + width
    /\ \A v \in InContainer(a, id) :
          LET x == a.values[v]
              p == Placing(x, W)
          IN /\ x.row \in 1..row /\ x.column < RowLength(x, W, row, width)
             /\ p \in 1..Len(Entries(a, id)) /\ Entries(a, id)[p].node = NodeOf(v)
    /\ row > 2 \/ (row = 2 /\ width > 0) => W = 0 \/ \E v \in InContainer(a, id) : a.values[v].row > 1

\* What the node knows of its rows: the widths of the first `known` of those it records.
Ruled(n, W, rows, known) ==
    /\ n.rows = rows
    /\ IF rows = 1 THEN n.dims = OneRow
       ELSE Len(n.dims) = RecordedRows /\ \A r \in 1..RecordedRows : n.dims[r] = IF r <= known THEN W ELSE 0

\* An array that ended.
Squared(n, a, id) == \E W \in Nat : n.rows >= 1 /\ Filled(a, id, W, n.rows, W) /\ Ruled(n, W, n.rows, n.rows)

(* An open container, while a row of it grows, when that row has ended,    *)
(* and when "/" has been read after it.                                    *)
Modes == {"row", "ended", "slashed"}
InGrid(h, a, i, mode) ==
    LET f == a.open[i]
        n == h.nodes[f.id]
    IN n.kind = "array" =>
         /\ f.row >= 1 /\ ((f.first = -1 /\ f.row = 1) \/ (f.first \in Nat /\ f.width <= f.first))
         /\ Filled(a, f.id, f.first, f.row, f.width)
         /\ h.b.scopes[i].start = (f.row - 1) * f.first
         /\ Ruled(n, f.first, IF mode = "slashed" THEN f.row + 1 ELSE f.row,
                  IF mode = "row" THEN f.row - 1 ELSE f.row)
         /\ mode = "ended" => f.first \in {-1, f.width}
         /\ mode = "slashed" => f.first = f.width

Parents == {"document", "struct", "array"}
Measured(h, a, mode) ==
    /\ \A i \in 1..Len(a.open) : InGrid(h, a, i, IF i = Len(a.open) THEN mode ELSE "row")
    /\ \A i \in 1..Len(a.open), j \in 1..Len(a.open) : a.open[i].id = a.open[j].id => i = j
    /\ \A id \in 1..Len(h.nodes) :
         h.nodes[id].kind = "array" /\ (\A i \in 1..Len(a.open) : a.open[i].id # id) => Squared(h.nodes[id], a, id)
    /\ \A v \in 1..Len(a.values) : h.nodes[a.values[v].parent].kind \in Parents
    /\ \A id \in 1..Len(h.nodes) : h.nodes[id].kind = "document" => id = Document

\* What an account allows the validator to pass on.
HasRoom(a) == LET top == Last(a.open) IN top.first = -1 \/ top.width < top.first
IsFull(a)  == LET top == Last(a.open) IN top.first = -1 \/ top.width = top.first

\* Rows are filled by values alone.
LEMMA FilledSame ==
    ASSUME NEW a, NEW b, b.values = a.values, NEW id, NEW W, NEW row, NEW width, Filled(a, id, W, row, width)
    PROVE  Filled(b, id, W, row, width)
<1>1. Entries(b, id) = Entries(a, id) /\ InContainer(b, id) = InContainer(a, id)
  BY EntriesSame DEF InContainer
<1> QED BY <1>1 DEF Filled

\* So are those of an array that ended.
LEMMA SquaredSame ==
    ASSUME NEW n, NEW m, m.rows = n.rows, m.dims = n.dims, NEW a, NEW b, b.values = a.values, NEW id, Squared(n, a, id)
    PROVE  Squared(m, b, id)
<1>1. PICK W \in Nat : n.rows >= 1 /\ Filled(a, id, W, n.rows, W) /\ Ruled(n, W, n.rows, n.rows)
  BY DEF Squared
<1>2. Filled(b, id, W, n.rows, W)
  BY <1>1, FilledSame
<1> QED BY <1>1, <1>2 DEF Squared, Ruled

\* A value elsewhere.
LEMMA FilledElsewhere ==
    ASSUME NEW a \in AccountSet, NEW b \in AccountSet, NEW x \in ValueSet, b.values = Append(a.values, x),
           NEW id, x.parent # id, NEW W, NEW row, NEW width, Filled(a, id, W, row, width)
    PROVE  Filled(b, id, W, row, width)
<1> DEFINE n == Len(a.values)
<1>1. Entries(b, id) = Entries(a, id)
  BY EntriesAppended
<1>2. /\ n \in Nat /\ DOMAIN a.values = 1..n /\ DOMAIN b.values = 1..(n + 1) /\ b.values[n + 1] = x
      /\ \A v \in 1..n : b.values[v] = a.values[v]
  BY AccountParts
<1>3. InContainer(b, id) = InContainer(a, id) /\ \A v \in InContainer(a, id) : b.values[v] = a.values[v]
  BY <1>2 DEF InContainer
<1> QED BY <1>1, <1>3 DEF Filled

\* A value at the end of the last row.
LEMMA FilledPlaced ==
    ASSUME NEW a \in AccountSet, NEW b \in AccountSet, NEW x \in ValueSet, b.values = Append(a.values, x),
           NEW id, x.parent = id, NEW W \in Int, NEW row \in Nat, row >= 1, NEW width \in Nat,
           x.row = row, x.column = width, Filled(a, id, W, row, width)
    PROVE  Filled(b, id, W, row, width + 1)
<1> DEFINE n == Len(a.values)
           E == Entries(a, id)
           F == Entries(b, id)
           e == Entry(x.key, n + 2)
           start == (row - 1) * W
<1>1. F = Append(E, e)
  BY EntriesAppended
<1>2. /\ n \in Nat /\ DOMAIN a.values = 1..n /\ DOMAIN b.values = 1..(n + 1) /\ b.values[n + 1] = x
      /\ \A v \in 1..n : b.values[v] = a.values[v]
  BY AccountParts
<1>3. InContainer(b, id) = InContainer(a, id) \cup {n + 1} /\ InContainer(a, id) \subseteq 1..n
  BY <1>2 DEF InContainer
<1>4. start \in Int
  OBVIOUS
<1>5. /\ Len(E) = start + width
      /\ \A v \in InContainer(a, id) :
            LET y == a.values[v]
                p == Placing(y, W)
            IN /\ y.row \in 1..row /\ y.column < RowLength(y, W, row, width)
               /\ p \in 1..Len(E) /\ E[p].node = NodeOf(v)
      /\ row > 2 \/ (row = 2 /\ width > 0) => W = 0 \/ \E v \in InContainer(a, id) : a.values[v].row > 1
  BY DEF Filled
<1>6. E \in Seq(EntrySet) /\ e \in EntrySet
  <2>1. x.key \in Keys \cup {NoKey} /\ n + 2 \in Nat
    BY AccountParts DEF ValueSet
  <2> QED BY <2>1, EntriesTyped DEF Entry, EntrySet
<1>7. Placing(x, W) = start + width + 1
  BY DEF Placing
<1> HIDE DEF start, E, F, e, n
<1>8. Len(E) \in Nat /\ Len(F) = Len(E) + 1 /\ F[Len(E) + 1] = e /\ \A p \in 1..Len(E) : F[p] = E[p]
  BY <1>1, <1>6
<1>9. e.node = NodeOf(n + 1)
  BY <1>2 DEF e, Entry, NodeOf
<1>10. ASSUME NEW v \in InContainer(b, id)
       PROVE  LET y == b.values[v]
                  p == Placing(y, W)
              IN /\ y.row \in 1..row /\ y.column < RowLength(y, W, row, width + 1)
                 /\ p \in 1..Len(F) /\ F[p].node = NodeOf(v)
  <2>1. CASE v = n + 1
    <3>1. b.values[v] = x /\ RowLength(x, W, row, width + 1) = width + 1 /\ Placing(x, W) = Len(E) + 1
      BY <1>2, <1>5, <1>7, <2>1 DEF RowLength
    <3> QED BY <1>8, <1>9, <2>1, <3>1
  <2>2. CASE v # n + 1
    <3>1. v \in InContainer(a, id) /\ v \in 1..n /\ b.values[v] = a.values[v] /\ a.values[v] \in ValueSet
      BY <1>2, <1>3, <2>2, AccountParts
    <3> DEFINE y == a.values[v]
    <3>2. /\ y.row \in 1..row /\ y.column < RowLength(y, W, row, width) /\ y.column \in Nat
          /\ Placing(y, W) \in 1..Len(E) /\ E[Placing(y, W)].node = NodeOf(v)
      BY <1>5, <3>1 DEF ValueSet
    <3> HIDE DEF y
    <3>3. y.column < RowLength(y, W, row, width + 1)
      BY <3>2 DEF RowLength
    <3> QED BY <1>8, <3>1, <3>2, <3>3 DEF y
  <2> QED BY <2>1, <2>2
<1>11. ASSUME row >= 2 PROVE \E v \in InContainer(b, id) : b.values[v].row > 1
  <2>1. n + 1 \in InContainer(b, id) /\ b.values[n + 1].row > 1
    BY <1>2, <1>3, <1>11
  <2> QED BY <2>1
<1>12. Len(F) = start + (width + 1)
  BY <1>4, <1>5, <1>8
<1>13. Len(F) = (row - 1) * W + (width + 1)
  BY <1>12 DEF start
<1>14. row > 2 \/ (row = 2 /\ width + 1 > 0) => W = 0 \/ \E v \in InContainer(b, id) : b.values[v].row > 1
  <2>1. (row > 2 \/ (row = 2 /\ width + 1 > 0)) => row >= 2
    OBVIOUS
  <2> QED BY ONLY <1>11, <2>1
<1> HIDE DEF F
<1>15. \A v \in InContainer(b, id) :
          LET y == b.values[v]
              p == Placing(y, W)
          IN /\ y.row \in 1..row /\ y.column < RowLength(y, W, row, width + 1)
             /\ p \in 1..Len(F) /\ F[p].node = NodeOf(v)
  BY ONLY <1>10
<1> QED BY ONLY <1>13, <1>14, <1>15 DEF Filled, F

\* A container with nothing in it.
LEMMA FilledEmpty ==
    ASSUME NEW a \in AccountSet, NEW id, \A v \in 1..Len(a.values) : a.values[v].parent # id, NEW W \in Int
    PROVE  Filled(a, id, W, 1, 0)
<1>1. Entries(a, id) = <<>> /\ InContainer(a, id) = {}
  BY EntriesNone, AccountParts DEF InContainer
<1>2. (1 - 1) * W + 0 = 0
  OBVIOUS
<1>3. Len(Entries(a, id)) = 0
  BY <1>1
<1> QED BY <1>1, <1>2, <1>3 DEF Filled

\* One more row, where the last is full.
LEMMA FilledTurned ==
    ASSUME NEW a, NEW id, NEW W \in Nat, NEW row \in Nat, row >= 1, Filled(a, id, W, row, W)
    PROVE  Filled(a, id, W, row + 1, 0)
<1> DEFINE E == Entries(a, id)
<1>1. ((row + 1) - 1) * W + 0 = (row - 1) * W + W
  OBVIOUS
<1>2. /\ Len(E) = (row - 1) * W + W
      /\ \A v \in InContainer(a, id) :
            LET y == a.values[v]
                p == Placing(y, W)
            IN /\ y.row \in 1..row /\ y.column < W
               /\ p \in 1..Len(E) /\ E[p].node = NodeOf(v)
      /\ row > 2 \/ (row = 2 /\ W > 0) => W = 0 \/ \E v \in InContainer(a, id) : a.values[v].row > 1
  BY DEF Filled, RowLength
<1> HIDE DEF E
<1>3. ASSUME NEW v \in InContainer(a, id)
      PROVE  a.values[v].row \in 1..(row + 1) /\ a.values[v].column < RowLength(a.values[v], W, row + 1, 0)
  BY <1>2 DEF RowLength
<1>4. row + 1 > 2 => W = 0 \/ \E v \in InContainer(a, id) : a.values[v].row > 1
  BY <1>2
<1> QED BY <1>1, <1>2, <1>3, <1>4 DEF Filled, E

\* In the first row no other width matters.
LEMMA FilledFirst ==
    ASSUME NEW a \in AccountSet, NEW id, NEW V \in Int, NEW W \in Int, NEW width \in Nat, Filled(a, id, V, 1, width)
    PROVE  Filled(a, id, W, 1, width)
<1> DEFINE E == Entries(a, id)
<1>1. \A U \in Int : (1 - 1) * U + width = width
  OBVIOUS
<1>2. \A v \in InContainer(a, id) : a.values[v] \in ValueSet
  BY AccountParts DEF InContainer
<1>3. /\ Len(E) = (1 - 1) * V + width
      /\ \A v \in InContainer(a, id) :
            LET y == a.values[v]
                p == Placing(y, V)
            IN /\ y.row \in 1..1 /\ y.column < RowLength(y, V, 1, width)
               /\ p \in 1..Len(E) /\ E[p].node = NodeOf(v)
  BY DEF Filled
<1> HIDE DEF E
<1>4. ASSUME NEW v \in InContainer(a, id)
      PROVE  Placing(a.values[v], W) = Placing(a.values[v], V) /\ a.values[v].column < RowLength(a.values[v], W, 1, width)
  <2> DEFINE y == a.values[v]
  <2>1. y.row = 1 /\ y.column \in Nat /\ y.column < RowLength(y, V, 1, width)
    BY <1>2, <1>3 DEF ValueSet
  <2> HIDE DEF y
  <2>2. \A U \in Int : Placing(y, U) = y.column + 1
    BY <2>1 DEF Placing
  <2> QED BY <2>1, <2>2 DEF RowLength, y
<1> QED BY <1>1, <1>3, <1>4 DEF Filled, E

-----------------------------------------------------------------------------
(* Heaps whose arrays are measured, event by event.                        *)

\* A frame with one value more in its row.
Longer(f) == [f EXCEPT !.width = f.width + 1]

\* Frames, and the arrays whose ends they are.
LEMMA FrameParts ==
    ASSUME NEW a \in AccountSet, NEW i \in 1..Len(a.open)
    PROVE  LET f == a.open[i]
           IN f \in FrameSet /\ f.id \in Nat /\ f.row \in Nat /\ f.width \in Nat /\ f.first \in Int
BY AccountParts DEF FrameSet

\* The same tree with the same values in the same containers.
LEMMA MeasuredSame ==
    ASSUME NEW h, NEW a, NEW mode, Measured(h, a, mode), NEW g, g.nodes = h.nodes, g.b.scopes = h.b.scopes,
           NEW b, b.values = a.values, b.open = a.open
    PROVE  Measured(g, b, mode)
<1>1. \A id, W, row, width : Filled(a, id, W, row, width) => Filled(b, id, W, row, width)
  BY FilledSame
<1>2. \A n, id : Squared(n, a, id) => Squared(n, b, id)
  BY SquaredSame
<1>3. \A i \in 1..Len(a.open) : \A m : InGrid(h, a, i, m) => InGrid(g, b, i, m)
  BY <1>1 DEF InGrid
<1>4. \A i \in 1..Len(b.open) : InGrid(g, b, i, IF i = Len(b.open) THEN mode ELSE "row")
  BY <1>3 DEF Measured
<1> QED BY <1>2, <1>4 DEF Measured

\* The innermost container is left: an array at the end of a row, or a struct.
LEMMA MeasuredShut ==
    ASSUME NEW h, Sound(h), NEW a, Mirrors(h, a), NEW mode \in {"row", "ended"}, Measured(h, a, mode),
           mode = "ended" \/ Top(h).kind # "array",
           NEW g, g.nodes = h.nodes, g.b.scopes = Front(h.b.scopes)
    PROVE  Measured(g, Shut(a), "row")
<1> DEFINE n == Len(a.open)
           b == Shut(a)
           f == a.open[n]
           ss == h.b.scopes
           fs == Front(ss)
<1>1. /\ a \in AccountSet /\ a.open # <<>> /\ n \in Nat /\ n \in 1..n /\ f.id = Top(h).node
      /\ Top(h).kind = h.nodes[f.id].kind
  BY InnermostOf DEF Mirrors
<1>2. /\ b \in AccountSet /\ b.values = a.values /\ Len(b.open) = n - 1
      /\ \A i \in 1..(n - 1) : b.open[i] = a.open[i]
  BY <1>1, ShutParts
<1>3. ss \in Seq(ScopeSet) /\ Len(ss) = n
  BY <1>1, BuilderParts DEF Nested, Sound, Mirrors
<1> HIDE DEF ss, b
<1>4. \A i \in 1..(n - 1) : fs[i] = ss[i]
  <2>1. fs = SubSeq(ss, 1, n - 1)
    BY <1>3 DEF Front
  <2> QED BY <1>1, <1>3, <2>1
<1> HIDE DEF n, fs
<1>5. \A i \in 1..(n - 1) : i \in 1..n /\ i # n
  BY <1>1
<1>6. ASSUME NEW i \in 1..(n - 1) PROVE InGrid(g, b, i, "row")
  <2>1. InGrid(h, a, i, "row")
    BY <1>5 DEF Measured, n
  <2>2. b.open[i] = a.open[i] /\ g.b.scopes[i] = h.b.scopes[i] /\ g.nodes = h.nodes
    BY <1>2, <1>4 DEF fs, ss
  <2>3. \A id, W, row, width : Filled(a, id, W, row, width) => Filled(b, id, W, row, width)
    BY <1>2, FilledSame
  <2> QED BY <2>1, <2>2, <2>3 DEF InGrid
<1>7. ASSUME NEW id \in 1..Len(g.nodes), g.nodes[id].kind = "array", \A i \in 1..Len(b.open) : b.open[i].id # id
      PROVE  Squared(g.nodes[id], b, id)
  <2>1. CASE id # f.id
    <3>1. \A i \in 1..n : a.open[i].id # id
      <4>1. \A i \in 1..n : i = n \/ i \in 1..(n - 1)
        BY <1>1
      <4> QED BY <1>2, <1>7, <2>1, <4>1
    <3>2. Squared(h.nodes[id], a, id)
      BY <1>7, <3>1 DEF Measured, n
    <3> QED BY <1>2, <3>2, SquaredSame
  <2>2. CASE id = f.id
    <3> DEFINE node == h.nodes[id]
               w == f.width
               row == f.row
               V == f.first
    <3>1. node.kind = "array" /\ mode = "ended"
      BY <1>1, <1>7, <2>2
    <3>2. InGrid(h, a, n, "ended")
      BY <1>1, <3>1 DEF Measured, n
    <3>3. /\ row >= 1 /\ ((V = -1 /\ row = 1) \/ (V \in Nat /\ w <= V)) /\ Filled(a, id, V, row, w)
          /\ Ruled(node, V, row, row) /\ V \in {-1, w}
      BY <2>2, <3>1, <3>2 DEF InGrid
    <3>4. row \in Nat /\ w \in Nat /\ V \in Int
      BY <1>1, FrameParts DEF n
    <3> HIDE DEF row, w, V, node
    <3>5. Filled(a, id, w, row, w) /\ Ruled(node, w, row, row)
      <4>1. CASE V = w
        BY <3>3, <4>1
      <4>2. CASE V # w
        <5>1. row = 1
          BY <3>3, <3>4, <4>2
        <5> QED BY <1>1, <3>3, <3>4, <5>1, FilledFirst DEF Ruled
      <4> QED BY <4>1, <4>2
    <3>6. node.rows = row
      BY <3>5 DEF Ruled
    <3>7. Squared(node, a, id)
      BY <3>3, <3>4, <3>5, <3>6 DEF Squared
    <3> QED BY <1>2, <3>7, SquaredSame DEF node
  <2> QED BY <2>1, <2>2
<1>8. \A i \in 1..Len(b.open), j \in 1..Len(b.open) : b.open[i].id = b.open[j].id => i = j
  BY <1>2, <1>5 DEF Measured, n
<1>9. \A i \in 1..Len(b.open) : InGrid(g, b, i, IF i = Len(b.open) THEN "row" ELSE "row")
  BY <1>2, <1>6
<1> QED BY <1>2, <1>7, <1>8, <1>9 DEF Measured, b

\* A value more, and the arrays it is not in.
LEMMA SquaredElsewhere ==
    ASSUME NEW a \in AccountSet, NEW b \in AccountSet, NEW x \in ValueSet, b.values = Append(a.values, x),
           NEW id, x.parent # id, NEW n, NEW m, m.rows = n.rows, m.dims = n.dims, Squared(n, a, id)
    PROVE  Squared(m, b, id)
<1>1. PICK W \in Nat : n.rows >= 1 /\ Filled(a, id, W, n.rows, W) /\ Ruled(n, W, n.rows, n.rows)
  BY DEF Squared
<1>2. Filled(b, id, W, n.rows, W)
  <2> DEFINE row == n.rows
  <2>1. Filled(a, id, W, row, W)
    BY <1>1
  <2> HIDE DEF row
  <2>2. Filled(b, id, W, row, W)
    BY <2>1, FilledElsewhere
  <2> QED BY <2>2 DEF row
<1> QED BY <1>1, <1>2 DEF Squared, Ruled

\* The scopes an account's containers have stay where they are; its containers
\* stay open, the innermost with one value more; and what this leaves measured.
ScopesKept(h, g, a) == \A i \in 1..Len(a.open) : g.b.scopes[i] = h.b.scopes[i]
Lengthened(a, b) ==
    \A i \in 1..Len(a.open) :
       b.open[i] = IF i = Len(a.open) THEN Longer(a.open[Len(a.open)]) ELSE a.open[i]
Below(h, a, g, b) ==
    /\ \A i \in 1..Len(a.open) : InGrid(g, b, i, "row") /\ b.open[i].id = a.open[i].id
    /\ \A id \in 1..Len(h.nodes) :
         g.nodes[id].kind = "array" /\ (\A i \in 1..Len(a.open) : a.open[i].id # id) => Squared(g.nodes[id], b, id)
    /\ \A v \in 1..Len(b.values) : g.nodes[b.values[v].parent].kind \in Parents
    /\ \A id \in 1..Len(g.nodes) : g.nodes[id].kind = "document" => id = Document

\* A value more, in every container that was open.
LEMMA MeasuredBelow ==
    ASSUME NEW h, Sound(h), NEW a, Mirrors(h, a), Measured(h, a, "row"), HasRoom(a),
           NEW o, Lined(h.b.scopes, o),
           NEW kind \in NodeKinds, kind # "document", NEW content \in Seq(Chunks),
           NEW g, Grew(h, g, Top(h).node, a.key, kind, content), ScopesKept(h, g, a),
           NEW b \in AccountSet, b.values = Append(a.values, Value(a.open[Len(a.open)], a.key, kind, content)),
           Lengthened(a, b)
    PROVE  Below(h, a, g, b)
<1> DEFINE n == Len(a.open)
           f == a.open[n]
           x == Value(f, a.key, kind, content)
<1>1. /\ a \in AccountSet /\ a.open # <<>> /\ n \in Nat /\ n \in 1..n /\ f.id = Top(h).node /\ f \in FrameSet
      /\ Top(h).kind = h.nodes[f.id].kind /\ f.id \in 1..Len(h.nodes) /\ Len(h.nodes) \in Nat
  BY InnermostOf DEF Mirrors
<1>2. x \in ValueSet /\ x.parent = f.id /\ x.row = f.row /\ x.column = f.width
  <2>1. x \in ValueSet
    BY <1>1, PlacedParts
  <2> QED BY <2>1 DEF Value
<1>3. /\ Len(g.nodes) = Len(h.nodes) + 1 /\ g.nodes[Len(h.nodes) + 1].kind = kind
      /\ \A m \in 1..Len(h.nodes) :
            /\ g.nodes[m].kind = h.nodes[m].kind /\ g.nodes[m].dims = h.nodes[m].dims
            /\ g.nodes[m].rows = h.nodes[m].rows
  BY DEF Grew, Fresh
<1>4. \A i \in 1..n : InGrid(h, a, i, "row")
  BY DEF Measured
<1>5. f.row \in Nat /\ f.width \in Nat /\ f.first \in Int /\ (f.first = -1 \/ f.width < f.first)
  BY <1>1, FrameParts DEF HasRoom, Last
<1>6. \A i \in 1..n : a.open[i].id \in 1..Len(h.nodes)
  <2>1. \A i \in 1..n : a.open[i].id = h.b.scopes[i].node /\ n = Len(h.b.scopes)
    BY DEF Mirrors, Nested
  <2>2. /\ \A i \in DOMAIN h.b.scopes : h.b.scopes[i].node \in AliveIn(h)
        /\ DOMAIN h.b.scopes = 1..Len(h.b.scopes) /\ DOMAIN h.nodes = 1..Len(h.nodes)
    BY BuilderParts, HeapParts DEF Sound, Scoped
  <2> QED BY <2>1, <2>2 DEF AliveIn
<1>7. b.values = Append(a.values, x)
  OBVIOUS
<1>12. /\ \A i \in 1..n : g.b.scopes[i] = h.b.scopes[i]
       /\ \A i \in 1..n : b.open[i] = IF i = n THEN Longer(f) ELSE a.open[i]
  BY DEF ScopesKept, Lengthened
<1> HIDE DEF n, x
<1>8. ASSUME NEW i \in 1..n PROVE InGrid(g, b, i, "row") /\ b.open[i].id = a.open[i].id
  <2> DEFINE e == a.open[i]
             node == h.nodes[e.id]
             new == g.nodes[e.id]
  <2>1. /\ e \in FrameSet /\ e.id \in 1..Len(h.nodes) /\ e.row \in Nat /\ e.width \in Nat /\ e.first \in Int
        /\ new.kind = node.kind /\ new.dims = node.dims /\ new.rows = node.rows
        /\ g.b.scopes[i] = h.b.scopes[i]
    BY <1>1, <1>3, <1>6, <1>12, AccountParts, FrameParts DEF n
  <2>2. node.kind = "array" =>
          /\ e.row >= 1 /\ ((e.first = -1 /\ e.row = 1) \/ (e.first \in Nat /\ e.width <= e.first))
          /\ Filled(a, e.id, e.first, e.row, e.width)
          /\ h.b.scopes[i].start = (e.row - 1) * e.first
          /\ Ruled(node, e.first, e.row, e.row - 1)
    BY <1>4 DEF InGrid
  <2>3. CASE i # n
    <3>1. b.open[i] = e
      BY <1>12, <2>3
    <3>2. x.parent # e.id
      BY <1>1, <1>2, <2>3 DEF Measured, n
    <3>3. node.kind = "array" => Filled(b, e.id, e.first, e.row, e.width)
      <4>1. ASSUME node.kind = "array" PROVE Filled(b, e.id, e.first, e.row, e.width)
        <5>1. Filled(a, e.id, e.first, e.row, e.width)
          BY <2>2, <4>1
        <5> HIDE DEF e
        <5> QED BY <1>1, <1>2, <1>7, <3>2, <5>1, FilledElsewhere
      <4> QED BY <4>1
    <3>4. node.kind = "array" => Ruled(new, e.first, e.row, e.row - 1)
      BY <2>1, <2>2 DEF Ruled
    <3> HIDE DEF e, node, new
    <3> QED BY <2>1, <2>2, <3>1, <3>3, <3>4 DEF InGrid, new, node, e
  <2>4. CASE i = n
    <3> DEFINE w == e.width + 1
               d == [e EXCEPT !.width = w]
    <3>1. b.open[i] = d
      BY <1>12, <2>4 DEF Longer
    <3>2. d.id = e.id /\ d.row = e.row /\ d.first = e.first /\ d.width = w
      <4> HIDE DEF e, w
      <4> QED BY <2>1 DEF FrameSet
    <3>3. e = f
      BY <2>4 DEF n
    <3> HIDE DEF e, node, new, d
    <3>4. ASSUME node.kind = "array" PROVE Filled(b, e.id, e.first, e.row, w)
      <4>1. Filled(a, e.id, e.first, e.row, e.width) /\ e.row >= 1
        BY <2>2, <3>4
      <4> QED BY <1>1, <1>2, <1>7, <2>1, <3>3, <4>1, FilledPlaced
    <3>5. node.kind = "array" => Ruled(new, e.first, e.row, e.row - 1)
      BY <2>1, <2>2 DEF Ruled
    <3>6. e.first = -1 \/ w <= e.first
      BY <1>5, <2>1, <3>3
    <3>7. new.kind = "array" =>
            /\ d.row >= 1 /\ ((d.first = -1 /\ d.row = 1) \/ (d.first \in Nat /\ d.width <= d.first))
            /\ Filled(b, d.id, d.first, d.row, d.width)
            /\ g.b.scopes[i].start = (d.row - 1) * d.first
            /\ Ruled(new, d.first, d.row, d.row - 1)
      BY <2>1, <2>2, <3>2, <3>4, <3>5, <3>6
    <3>8. new = g.nodes[d.id] /\ d.id = e.id
      BY <3>2 DEF new
    <3> HIDE DEF new
    <3>9. InGrid(g, b, i, "row")
      BY ONLY <3>1, <3>7, <3>8 DEF InGrid
    <3> QED BY <3>1, <3>8, <3>9 DEF e
  <2> QED BY <2>3, <2>4
<1>9. ASSUME NEW id \in 1..Len(h.nodes), g.nodes[id].kind = "array", \A i \in 1..n : a.open[i].id # id
      PROVE  Squared(g.nodes[id], b, id)
  <2>1. Squared(h.nodes[id], a, id) /\ x.parent # id
    BY <1>1, <1>2, <1>3, <1>9 DEF Measured, n
  <2> DEFINE p == h.nodes[id]
             q == g.nodes[id]
  <2>2. /\ a \in AccountSet /\ b \in AccountSet /\ x \in ValueSet /\ b.values = Append(a.values, x)
        /\ x.parent # id /\ q.rows = p.rows /\ q.dims = p.dims /\ Squared(p, a, id)
    BY <1>1, <1>2, <1>3, <1>7, <2>1
  <2> HIDE DEF p, q
  <2>3. Squared(q, b, id)
    BY ONLY <2>2, SquaredElsewhere
  <2> QED BY <2>3 DEF q
<1>10. ASSUME NEW v \in 1..Len(b.values) PROVE g.nodes[b.values[v].parent].kind \in Parents
  <2> DEFINE m == Len(a.values)
             vs == a.values
  <2>1. /\ vs \in Seq(ValueSet) /\ m \in Nat /\ Len(b.values) = m + 1 /\ b.values[m + 1] = x
        /\ \A k \in 1..m : b.values[k] = vs[k]
    BY <1>1, <1>2, <1>7, AccountParts
  <2>2. CASE v = m + 1
    <3>1. Top(h).kind \in Parents
      <4>1. Last(h.b.scopes).kind = "document" \/ o # <<>>
        BY LinedTop
      <4> DEFINE ss == h.b.scopes
      <4>2. ss \in Seq(ScopeSet) /\ ss # <<>>
        BY BuilderParts DEF Sound, Scoped
      <4> HIDE DEF ss
      <4>3. Last(ss) \in ScopeSet
        BY <4>2 DEF Last
      <4> QED BY <4>3 DEF Top, ss, ScopeSet, Parents
    <3> QED BY <1>1, <1>2, <1>3, <2>1, <2>2, <3>1
  <2>3. CASE v # m + 1
    <3>1. v \in 1..m
      BY <2>1, <2>3
    <3>2. h.nodes[vs[v].parent].kind \in Parents /\ vs[v].parent \in 1..v /\ Len(h.nodes) = m + 1
      BY <3>1 DEF Measured, Mirrors, Grown
    <3>3. vs[v].parent \in 1..Len(h.nodes)
      BY <2>1, <3>1, <3>2
    <3> QED BY <1>3, <2>1, <3>1, <3>2, <3>3
  <2> QED BY <2>2, <2>3
<1>11. ASSUME NEW id \in 1..Len(g.nodes), g.nodes[id].kind = "document" PROVE id = Document
  <2>1. id # Len(h.nodes) + 1
    BY <1>3, <1>11
  <2>2. id \in 1..Len(h.nodes)
    BY <1>1, <1>3, <2>1
  <2> QED BY <1>3, <1>11, <2>2 DEF Measured
<1> QED BY <1>8, <1>9, <1>10, <1>11 DEF n, Below

\* A value that is no container.
LEMMA MeasuredPlaced ==
    ASSUME NEW h, Sound(h), NEW a, Mirrors(h, a), Measured(h, a, "row"), HasRoom(a),
           NEW o, Lined(h.b.scopes, o),
           NEW kind \in NodeKinds, kind \notin Parents, NEW content \in Seq(Chunks),
           NEW g, Grew(h, g, Top(h).node, a.key, kind, content), g.b.scopes = h.b.scopes
    PROVE  Measured(g, Placed(a, kind, content), "row")
<1> DEFINE n == Len(a.open)
           b == Placed(a, kind, content)
<1>1. a \in AccountSet /\ a.open # <<>> /\ n \in Nat /\ Len(h.nodes) \in Nat
  BY InnermostOf DEF Mirrors
<1>2. /\ b \in AccountSet /\ b.values = Append(a.values, Value(a.open[n], a.key, kind, content))
      /\ Len(b.open) = n
      /\ \A i \in 1..n : b.open[i] = IF i = n THEN Longer(a.open[n]) ELSE a.open[i]
  BY <1>1, PlacedParts DEF Longer
<1> HIDE DEF b
<1>3. kind # "document" /\ kind # "array"
  BY DEF Parents
<1>7. /\ ScopesKept(h, g, a) /\ Lengthened(a, b)
      /\ b.values = Append(a.values, Value(a.open[Len(a.open)], a.key, kind, content))
  BY <1>2 DEF ScopesKept, Lengthened
<1>8. Below(h, a, g, b)
  BY <1>2, <1>3, <1>7, MeasuredBelow
<1>4. /\ \A i \in 1..n : InGrid(g, b, i, "row") /\ b.open[i].id = a.open[i].id
      /\ \A id \in 1..Len(h.nodes) :
           g.nodes[id].kind = "array" /\ (\A i \in 1..n : a.open[i].id # id) => Squared(g.nodes[id], b, id)
      /\ \A v \in 1..Len(b.values) : g.nodes[b.values[v].parent].kind \in Parents
      /\ \A id \in 1..Len(g.nodes) : g.nodes[id].kind = "document" => id = Document
  BY <1>8 DEF Below
<1>5. ASSUME NEW id \in 1..Len(g.nodes), g.nodes[id].kind = "array", \A i \in 1..Len(b.open) : b.open[i].id # id
      PROVE  Squared(g.nodes[id], b, id)
  <2>1. Len(g.nodes) = Len(h.nodes) + 1 /\ g.nodes[Len(h.nodes) + 1].kind = kind
    BY DEF Grew, Fresh
  <2>2. id \in 1..Len(h.nodes)
    BY <1>1, <1>3, <1>5, <2>1
  <2> QED BY <1>2, <1>4, <1>5, <2>2
<1>6. \A i \in 1..n, j \in 1..n : b.open[i].id = b.open[j].id => i = j
  BY <1>4 DEF Measured
<1> QED BY <1>2, <1>4, <1>5, <1>6 DEF Measured, b

\* A container, with a frame of its own.
LEMMA MeasuredEntered ==
    ASSUME NEW h, Sound(h), NEW a, Mirrors(h, a), Measured(h, a, "row"), HasRoom(a),
           NEW o, Lined(h.b.scopes, o),
           NEW kind \in {"struct", "array"},
           NEW g, Grew(h, g, Top(h).node, a.key, kind, <<>>),
           g.b.scopes = Append(h.b.scopes, Scope(kind, Len(h.nodes) + 1))
    PROVE  Measured(g, Entered(a, kind), "row")
<1> DEFINE n == Len(a.open)
           none == <<>>
           b == Entered(a, kind)
           id == Len(h.nodes) + 1
           s == Scope(kind, id)
           f == Frame(id)
           ss == h.b.scopes
           x == Value(a.open[n], a.key, kind, none)
           m == Len(a.values)
<1>1. /\ a \in AccountSet /\ a.open # <<>> /\ n \in Nat /\ Len(h.nodes) \in Nat /\ kind \in NodeKinds
      /\ n \in 1..n /\ a.open[n].id \in 1..Len(h.nodes)
      /\ m \in Nat /\ id = m + 2
  <2>1. a \in AccountSet /\ Len(h.nodes) = m + 1
    BY DEF Mirrors, Grown
  <2>2. m \in Nat
    BY <2>1, AccountParts
  <2>3. id = m + 2
    <3> HIDE DEF m
    <3> QED BY <2>1, <2>2
  <2>4. kind \in NodeKinds
    BY DEF NodeKinds
  <2>5. a.open # <<>> /\ n \in Nat /\ n \in 1..n /\ a.open[n].id \in 1..Len(h.nodes) /\ Len(h.nodes) \in Nat
    BY InnermostOf
  <2> QED BY <2>1, <2>2, <2>3, <2>4, <2>5
<1>2. /\ b \in AccountSet /\ b.values = Append(a.values, x) /\ x \in ValueSet
      /\ Len(b.open) = n + 1 /\ b.open[n + 1] = f
      /\ \A i \in 1..n : b.open[i] = IF i = n THEN Longer(a.open[n]) ELSE a.open[i]
  BY <1>1, EnteredParts DEF Longer
<1>3. ss \in Seq(ScopeSet) /\ Len(ss) = n
  BY <1>1, BuilderParts DEF Nested, Sound, Mirrors
<1>4. s.start = 0 /\ s.node = id /\ s \in ScopeSet
  BY <1>1 DEF Scope, ScopeSet
<1>5. f.id = id /\ f.row = 1 /\ f.width = 0 /\ f.first = -1
  BY DEF Frame
<1>6. x.parent \in 1..Len(h.nodes)
  BY <1>1 DEF Value
<1> HIDE DEF b, s, f, x
<1>7. /\ \A i \in 1..n : g.b.scopes[i] = ss[i]
      /\ g.b.scopes[n + 1] = s
  <2> HIDE DEF ss
  <2> DEFINE zs == Append(ss, s)
  <2>1. g.b.scopes = zs
    BY DEF ss, s, id
  <2> HIDE DEF s, n
  <2>2. zs[n + 1] = s /\ \A i \in 1..n : zs[i] = ss[i]
    BY ONLY <1>1, <1>3, <1>4
  <2> HIDE DEF zs
  <2> QED BY <2>1, <2>2
<1> HIDE DEF id
<1>8. /\ \A i \in 1..n : InGrid(g, b, i, "row") /\ b.open[i].id = a.open[i].id
      /\ \A k \in 1..Len(h.nodes) :
           g.nodes[k].kind = "array" /\ (\A i \in 1..n : a.open[i].id # k) => Squared(g.nodes[k], b, k)
      /\ \A v \in 1..Len(b.values) : g.nodes[b.values[v].parent].kind \in Parents
      /\ \A k \in 1..Len(g.nodes) : g.nodes[k].kind = "document" => k = Document
  <2>1. none \in Seq(Chunks) /\ Grew(h, g, Top(h).node, a.key, kind, none) /\ kind # "document"
    OBVIOUS
  <2>2. b.values = Append(a.values, Value(a.open[n], a.key, kind, none))
    BY <1>2 DEF x
  <2> HIDE DEF none
  <2>3. ScopesKept(h, g, a) /\ Lengthened(a, b)
    BY <1>2, <1>7 DEF ScopesKept, Lengthened
  <2>4. Below(h, a, g, b)
    BY <1>1, <1>2, <2>1, <2>2, <2>3, MeasuredBelow
  <2> QED BY <2>4 DEF Below
<1>9. /\ Len(g.nodes) = id /\ g.nodes[id].kind = kind /\ g.nodes[id].dims = OneRow /\ g.nodes[id].rows = 1
  BY DEF Grew, Fresh, id
<1>10. InGrid(g, b, n + 1, "row")
  <2> DEFINE V == -1
  <2>0. V \in Int /\ (1 - 1) * V = 0 /\ f.first = V /\ V = -1
    BY <1>5
  <2> HIDE DEF V
  <2>1. Filled(b, id, V, 1, 0)
    <3>1. \A v \in 1..m : a.values[v] \in ValueSet /\ a.values[v].parent \in 1..v
      BY <1>1, AccountParts DEF Mirrors, Grown
    <3>2. a.values \in Seq(ValueSet)
      BY <1>1, AccountParts
    <3> DEFINE vs == a.values
    <3>3. Len(b.values) = m + 1 /\ b.values[m + 1] = x /\ \A v \in 1..m : b.values[v] = vs[v]
      BY <1>1, <1>2, <3>2
    <3>4. \A v \in 1..Len(b.values) : b.values[v].parent # id
      <4>1. ASSUME NEW v \in 1..Len(b.values) PROVE b.values[v].parent # id
        <5>1. CASE v = m + 1
          BY <1>1, <1>6, <3>3, <5>1 DEF id
        <5>2. CASE v # m + 1
          <6>1. v \in 1..m
            BY <1>1, <3>3, <5>2
          <6>2. b.values[v].parent \in 1..m
            <7>1. vs[v].parent \in 1..v /\ b.values[v] = vs[v] /\ m \in Nat
              BY <1>1, <3>1, <3>3, <6>1
            <7> HIDE DEF vs, b, m
            <7> QED BY ONLY <6>1, <7>1
          <6> QED BY <1>1, <6>2
        <5> QED BY <5>1, <5>2
      <4> QED BY <4>1
    <3> QED BY <1>2, <2>0, <3>4, FilledEmpty
  <2>2. Ruled(g.nodes[id], V, 1, 1 - 1)
    BY <1>9 DEF Ruled
  <2>3. g.b.scopes[n + 1].start = (1 - 1) * V
    BY <1>4, <1>7, <2>0
  <2> DEFINE e == b.open[n + 1]
  <2>4. e.id = id /\ e.row = 1 /\ e.width = 0 /\ e.first = V /\ V = -1
    BY <1>2, <1>5, <2>0
  <2>5. e.row >= 1 /\ (e.first = -1 /\ e.row = 1)
    BY <2>4
  <2> HIDE DEF e
  <2>6. Filled(b, e.id, e.first, e.row, e.width)
    BY ONLY <2>1, <2>4
  <2>7. g.b.scopes[n + 1].start = (e.row - 1) * e.first
    BY ONLY <2>3, <2>4
  <2>8. Ruled(g.nodes[e.id], e.first, e.row, e.row - 1)
    BY ONLY <2>2, <2>4
  <2> QED BY ONLY <2>5, <2>6, <2>7, <2>8 DEF InGrid, e
<1>11. \A i \in 1..(n + 1) : i = n + 1 \/ i \in 1..n
  BY <1>1
<1>12. \A i \in 1..n : b.open[i].id \in 1..Len(h.nodes)
  <2>1. \A i \in 1..n : a.open[i].id = h.b.scopes[i].node /\ n = Len(h.b.scopes)
    BY DEF Mirrors, Nested
  <2>2. /\ \A i \in DOMAIN h.b.scopes : h.b.scopes[i].node \in AliveIn(h)
        /\ DOMAIN h.b.scopes = 1..Len(h.b.scopes) /\ DOMAIN h.nodes = 1..Len(h.nodes)
    BY BuilderParts, HeapParts DEF Sound, Scoped
  <2> QED BY <1>8, <2>1, <2>2 DEF AliveIn
<1>13. ASSUME NEW k \in 1..Len(g.nodes), g.nodes[k].kind = "array", \A i \in 1..Len(b.open) : b.open[i].id # k
       PROVE  Squared(g.nodes[k], b, k)
  <2>1. n + 1 \in 1..Len(b.open) /\ \A i \in 1..n : i \in 1..Len(b.open)
    BY <1>1, <1>2
  <2>2. k # id
    BY <1>2, <1>5, <1>13, <2>1
  <2>3. k \in 1..Len(h.nodes)
    BY <1>1, <1>9, <2>2 DEF id
  <2> QED BY <1>8, <1>13, <2>1, <2>3
<1>14. ASSUME NEW i \in 1..(n + 1), NEW j \in 1..(n + 1), b.open[i].id = b.open[j].id PROVE i = j
  <2>1. b.open[n + 1].id = Len(h.nodes) + 1
    BY <1>2, <1>5 DEF id
  <2>2. \A k \in 1..n : b.open[k].id # Len(h.nodes) + 1
    BY <1>1, <1>12
  <2>3. \A k, l \in 1..n : b.open[k].id = b.open[l].id => k = l
    BY <1>8 DEF Measured
  <2> QED BY <1>11, <1>14, <2>1, <2>2, <2>3
<1>15. \A i \in 1..Len(b.open) : InGrid(g, b, i, IF i = Len(b.open) THEN "row" ELSE "row")
  BY <1>2, <1>8, <1>10, <1>11
<1> QED BY <1>2, <1>8, <1>13, <1>14, <1>15 DEF Measured, b

(* An event that changes the innermost container alone.                    *)
TopAlone(h, a, g, b) ==
    /\ Len(g.nodes) = Len(h.nodes)
    /\ \A m \in 1..Len(h.nodes) :
          /\ g.nodes[m].kind = h.nodes[m].kind
          /\ m # Top(h).node => g.nodes[m].dims = h.nodes[m].dims /\ g.nodes[m].rows = h.nodes[m].rows
    /\ \A i \in 1..(Len(a.open) - 1) : g.b.scopes[i] = h.b.scopes[i] /\ b.open[i] = a.open[i]
    /\ b.values = a.values /\ Len(b.open) = Len(a.open) /\ b.open[Len(a.open)].id = a.open[Len(a.open)].id

\* What is open is in the heap, and so is what a value stands in.
LEMMA OpenInHeap ==
    ASSUME NEW h, Sound(h), NEW a, Mirrors(h, a)
    PROVE  /\ \A i \in 1..Len(a.open) : a.open[i].id \in 1..Len(h.nodes)
           /\ \A v \in 1..Len(a.values) : a.values[v].parent \in 1..Len(h.nodes)
<1>1. \A i \in 1..Len(a.open) : a.open[i].id = h.b.scopes[i].node /\ Len(a.open) = Len(h.b.scopes)
  BY DEF Mirrors, Nested
<1>2. /\ \A i \in DOMAIN h.b.scopes : h.b.scopes[i].node \in AliveIn(h)
      /\ DOMAIN h.b.scopes = 1..Len(h.b.scopes) /\ DOMAIN h.nodes = 1..Len(h.nodes)
  BY BuilderParts, HeapParts DEF Sound, Scoped
<1>3. ASSUME NEW v \in 1..Len(a.values) PROVE a.values[v].parent \in 1..Len(h.nodes)
  <2> DEFINE m == Len(a.values)
             p == a.values[v].parent
  <2>1. p \in 1..v /\ Len(h.nodes) = m + 1 /\ m \in Nat
    BY AccountParts DEF Mirrors, Grown
  <2> HIDE DEF m, p
  <2>2. v \in 1..m
    BY DEF m
  <2>3. p \in 1..Len(h.nodes)
    BY <2>1, <2>2
  <2> QED BY <2>3 DEF p
<1> QED BY <1>1, <1>2, <1>3 DEF AliveIn

\* Then the rest is measured as it was.
LEMMA MeasuredTop ==
    ASSUME NEW h, Sound(h), NEW a, Mirrors(h, a), NEW mode, Measured(h, a, mode),
           NEW g, NEW b, TopAlone(h, a, g, b), NEW next, InGrid(g, b, Len(a.open), next)
    PROVE  Measured(g, b, next)
<1> DEFINE n == Len(a.open)
<1>1. /\ a \in AccountSet /\ a.open # <<>> /\ n \in Nat /\ n \in 1..n /\ a.open[n].id = Top(h).node
  BY InnermostOf DEF Mirrors
<1>2. /\ Len(g.nodes) = Len(h.nodes)
      /\ \A m \in 1..Len(h.nodes) :
            /\ g.nodes[m].kind = h.nodes[m].kind
            /\ m # Top(h).node => g.nodes[m].dims = h.nodes[m].dims /\ g.nodes[m].rows = h.nodes[m].rows
      /\ \A i \in 1..(n - 1) : g.b.scopes[i] = h.b.scopes[i] /\ b.open[i] = a.open[i]
      /\ b.values = a.values /\ Len(b.open) = n /\ b.open[n].id = a.open[n].id
  BY DEF TopAlone
<1>3. /\ \A i \in 1..n : a.open[i].id \in 1..Len(h.nodes)
      /\ \A v \in 1..Len(a.values) : a.values[v].parent \in 1..Len(h.nodes)
  BY OpenInHeap
<1>4. /\ \A i \in 1..n : InGrid(h, a, i, IF i = n THEN mode ELSE "row")
      /\ \A i \in 1..n, j \in 1..n : a.open[i].id = a.open[j].id => i = j
      /\ \A id \in 1..Len(h.nodes) :
           h.nodes[id].kind = "array" /\ (\A i \in 1..n : a.open[i].id # id) => Squared(h.nodes[id], a, id)
      /\ \A v \in 1..Len(a.values) : h.nodes[a.values[v].parent].kind \in Parents
      /\ \A id \in 1..Len(h.nodes) : h.nodes[id].kind = "document" => id = Document
  BY DEF Measured
<1>5. InGrid(g, b, n, next)
  OBVIOUS
<1> HIDE DEF n
<1>6. \A i \in 1..n : i = n \/ (i \in 1..(n - 1) /\ i # n)
  BY <1>1
<1>7. \A i \in 1..n : b.open[i].id = a.open[i].id
  BY <1>2, <1>6
<1>8. ASSUME NEW i \in 1..(n - 1) PROVE InGrid(g, b, i, "row")
  <2>1. i \in 1..n /\ i # n
    BY <1>1
  <2>2. InGrid(h, a, i, "row")
    BY <1>4, <2>1
  <2> DEFINE id == a.open[i].id
  <2>3. id \in 1..Len(h.nodes) /\ id # Top(h).node
    BY <1>1, <1>3, <1>4, <2>1
  <2>4. /\ g.nodes[id].kind = h.nodes[id].kind /\ g.nodes[id].dims = h.nodes[id].dims
        /\ g.nodes[id].rows = h.nodes[id].rows /\ g.b.scopes[i] = h.b.scopes[i] /\ b.open[i] = a.open[i]
    BY <1>2, <2>3
  <2>5. \A W, row, width : Filled(a, id, W, row, width) => Filled(b, id, W, row, width)
    BY <1>2, FilledSame
  <2> DEFINE p == h.nodes[id]
             q == g.nodes[id]
  <2>6. q.kind = p.kind /\ \A W, rows, known : Ruled(p, W, rows, known) => Ruled(q, W, rows, known)
    BY <2>4 DEF Ruled
  <2>7. b.open[i] = a.open[i] /\ g.b.scopes[i] = h.b.scopes[i]
    BY <2>4
  <2> HIDE DEF p, q
  <2>8. InGrid(g, b, i, "row") <=> LET f == a.open[i]
                                   IN q.kind = "array" =>
         /\ f.row >= 1 /\ ((f.first = -1 /\ f.row = 1) \/ (f.first \in Nat /\ f.width <= f.first))
         /\ Filled(b, f.id, f.first, f.row, f.width)
         /\ h.b.scopes[i].start = (f.row - 1) * f.first
         /\ Ruled(q, f.first, f.row, f.row - 1)
    BY <2>7 DEF InGrid, q
  <2>9. LET f == a.open[i]
        IN p.kind = "array" =>
         /\ f.row >= 1 /\ ((f.first = -1 /\ f.row = 1) \/ (f.first \in Nat /\ f.width <= f.first))
         /\ Filled(a, f.id, f.first, f.row, f.width)
         /\ h.b.scopes[i].start = (f.row - 1) * f.first
         /\ Ruled(p, f.first, f.row, f.row - 1)
    BY <2>2 DEF InGrid, p
  <2> QED BY ONLY <2>5, <2>6, <2>8, <2>9
<1>9. ASSUME NEW id \in 1..Len(g.nodes), g.nodes[id].kind = "array", \A i \in 1..n : b.open[i].id # id
      PROVE  Squared(g.nodes[id], b, id)
  <2>1. id \in 1..Len(h.nodes) /\ id # Top(h).node /\ h.nodes[id].kind = "array"
    BY <1>1, <1>2, <1>9
  <2>2. Squared(h.nodes[id], a, id)
    BY <1>4, <1>7, <1>9, <2>1
  <2> DEFINE p == h.nodes[id]
             q == g.nodes[id]
  <2>3. q.rows = p.rows /\ q.dims = p.dims /\ b.values = a.values /\ Squared(p, a, id)
    BY <1>2, <2>1, <2>2
  <2> HIDE DEF p, q
  <2>4. Squared(q, b, id)
    BY ONLY <2>3, SquaredSame
  <2> QED BY <2>4 DEF q
<1>10. \A i \in 1..n : InGrid(g, b, i, IF i = n THEN next ELSE "row")
  BY <1>5, <1>6, <1>8
<1>11. \A i \in 1..n, j \in 1..n : b.open[i].id = b.open[j].id => i = j
  BY <1>4, <1>7
<1>12. ASSUME NEW v \in 1..Len(b.values) PROVE g.nodes[b.values[v].parent].kind \in Parents
  <2> DEFINE p == a.values[v].parent
  <2>1. p \in 1..Len(h.nodes) /\ h.nodes[p].kind \in Parents /\ b.values[v].parent = p
    BY <1>2, <1>3, <1>4, <1>12
  <2>2. g.nodes[p].kind = h.nodes[p].kind
    BY <1>2, <2>1
  <2> QED BY <2>1, <2>2
<1>13. \A id \in 1..Len(g.nodes) : g.nodes[id].kind = "document" => id = Document
  BY <1>2, <1>4
<1>14. Len(b.open) = n
  BY <1>2
<1> QED BY ONLY <1>9, <1>10, <1>11, <1>12, <1>13, <1>14 DEF Measured

\* The widths a node records once its array goes on after a row.
MatrixDims(at) == IF at.dims = OneRow THEN [r \in 1..RecordedRows |-> IF r = 1 THEN Len(at.kids) ELSE 0] ELSE at.dims

\* "/" after a row: its width is the one the others will have.
LEMMA GridWidened ==
    ASSUME NEW h, NEW a \in AccountSet, NEW n \in 1..Len(a.open), InGrid(h, a, n, "ended"),
           NEW at, at = h.nodes[a.open[n].id], at.kind = "array", Len(at.kids) = Len(Entries(a, a.open[n].id)),
           NEW g, NEW b, b.values = a.values, g.b.scopes[n] = h.b.scopes[n],
           b.open[n].id = a.open[n].id, b.open[n].row = a.open[n].row, b.open[n].width = a.open[n].width,
           b.open[n].first = a.open[n].width,
           g.nodes[a.open[n].id].rows = at.rows + 1, g.nodes[a.open[n].id].dims = MatrixDims(at)
    PROVE  InGrid(g, b, n, "slashed")
<1> DEFINE id == a.open[n].id
           row == a.open[n].row
           w == a.open[n].width
           V == a.open[n].first
           new == g.nodes[id]
           K == Len(at.kids)
<1>1. id \in Nat /\ row \in Nat /\ w \in Nat /\ V \in Int
  BY FrameParts
<1>2. /\ row >= 1 /\ ((V = -1 /\ row = 1) \/ (V \in Nat /\ w <= V)) /\ Filled(a, id, V, row, w)
      /\ h.b.scopes[n].start = (row - 1) * V /\ Ruled(at, V, row, row) /\ V \in {-1, w}
  BY DEF InGrid
<1>3. /\ b.open[n].id = id /\ b.open[n].row = row /\ b.open[n].width = w /\ b.open[n].first = w
      /\ g.b.scopes[n] = h.b.scopes[n] /\ b.values = a.values /\ K = Len(Entries(a, id))
      /\ new.rows = at.rows + 1
      /\ new.dims = IF at.dims = OneRow THEN [r \in 1..RecordedRows |-> IF r = 1 THEN K ELSE 0] ELSE at.dims
  BY DEF MatrixDims
<1>4. new = g.nodes[b.open[n].id]
  OBVIOUS
<1> HIDE DEF id, row, w, V, new, K
<1>5. RecordedRows \in Nat /\ RecordedRows >= 1
  BY BuilderAssumption
<1>6. V = w \/ row = 1
  BY <1>2
<1>7. Filled(b, id, w, row, w)
  <2>1. Filled(a, id, w, row, w)
    <3>1. CASE V = w
      BY <1>2, <3>1
    <3>2. CASE row = 1
      BY <1>1, <1>2, <3>2, FilledFirst
    <3> QED BY <1>6, <3>1, <3>2
  <2> QED BY <1>3, <2>1, FilledSame
<1>8. g.b.scopes[n].start = (row - 1) * w
  <2>1. CASE V = w
    BY <1>2, <1>3, <2>1
  <2>2. CASE row = 1
    <3>1. (1 - 1) * V = 0 /\ (1 - 1) * w = 0
      BY <1>1
    <3> QED BY <1>2, <1>3, <2>2, <3>1
  <2> QED BY <1>6, <2>1, <2>2
<1>9. Ruled(new, w, row + 1, row)
  <2>1. at.rows = row /\ new.rows = row + 1 /\ row + 1 # 1
    BY <1>1, <1>2, <1>3 DEF Ruled
  <2>2. CASE row = 1
    <3>1. at.dims = OneRow
      BY <1>2, <2>2 DEF Ruled
    <3>2. K = w
      <4>1. K = (1 - 1) * V + w
        BY <1>2, <1>3, <2>2 DEF Filled
      <4>2. (1 - 1) * V = 0
        BY <1>1
      <4> QED BY <1>1, <4>1, <4>2
    <3> DEFINE ds == [r \in 1..RecordedRows |-> IF r = 1 THEN K ELSE 0]
    <3>3. new.dims = ds
      BY <1>3, <3>1
    <3>4. Len(ds) = RecordedRows
      BY <1>5
    <3>5. \A r \in 1..RecordedRows : ds[r] = IF r <= row THEN w ELSE 0
      BY <1>5, <2>2, <3>2
    <3> HIDE DEF ds
    <3> QED BY <2>1, <3>3, <3>4, <3>5 DEF Ruled
  <2>3. CASE row # 1
    <3>1. Len(at.dims) = RecordedRows /\ \A r \in 1..RecordedRows : at.dims[r] = IF r <= row THEN V ELSE 0
      BY <1>2, <2>1, <2>3 DEF Ruled
    <3>2. at.dims # OneRow
      <4>1. Len(OneRow) = 0
        BY DEF OneRow
      <4> QED BY ONLY <1>5, <3>1, <4>1
    <3>3. V = w /\ new.dims = at.dims
      BY <1>3, <1>6, <2>3, <3>2
    <3> QED BY <2>1, <3>1, <3>3 DEF Ruled
  <2> QED BY <2>2, <2>3
<1> DEFINE e == b.open[n]
<1>10. e.id = id /\ e.row = row /\ e.width = w /\ e.first = w /\ new = g.nodes[e.id]
  BY <1>3, <1>4
<1> HIDE DEF e
<1>11. /\ e.row >= 1 /\ (e.first \in Nat /\ e.width <= e.first) /\ Filled(b, e.id, e.first, e.row, e.width)
       /\ g.b.scopes[n].start = (e.row - 1) * e.first /\ Ruled(new, e.first, e.row + 1, e.row) /\ e.first = e.width
  BY <1>1, <1>2, <1>7, <1>8, <1>9, <1>10
<1> QED BY <1>10, <1>11 DEF InGrid, e

\* A further row begins where the entries end.
LEMMA GridTurned ==
    ASSUME NEW h, NEW a \in AccountSet, NEW n \in 1..Len(a.open), InGrid(h, a, n, "slashed"),
           NEW at, at = h.nodes[a.open[n].id], at.kind = "array", Len(at.kids) = Len(Entries(a, a.open[n].id)),
           NEW g, g.nodes[a.open[n].id] = at, g.b.scopes[n].start = Len(at.kids),
           NEW b, b.values = a.values,
           b.open[n].id = a.open[n].id, b.open[n].row = a.open[n].row + 1, b.open[n].width = 0,
           b.open[n].first = a.open[n].first
    PROVE  InGrid(g, b, n, "row")
<1> DEFINE id == a.open[n].id
           row == a.open[n].row
           w == a.open[n].width
           V == a.open[n].first
           e == b.open[n]
<1>1. id \in Nat /\ row \in Nat /\ w \in Nat /\ V \in Int
  BY FrameParts
<1>2. /\ row >= 1 /\ Filled(a, id, V, row, w) /\ Ruled(at, V, row + 1, row) /\ V = w
  BY DEF InGrid
<1>3. /\ e.id = id /\ e.row = row + 1 /\ e.width = 0 /\ e.first = V /\ b.values = a.values
      /\ g.nodes[e.id] = at /\ g.b.scopes[n].start = Len(Entries(a, id))
  OBVIOUS
<1> HIDE DEF id, row, w, V, e
<1>4. Filled(b, id, V, row + 1, 0)
  <2>1. V \in Nat /\ Filled(a, id, V, row, V)
    BY <1>1, <1>2
  <2>2. Filled(a, id, V, row + 1, 0)
    BY <1>1, <1>2, <2>1, FilledTurned
  <2> QED BY <1>3, <2>2, FilledSame
<1>5. g.b.scopes[n].start = ((row + 1) - 1) * V
  <2>1. Len(Entries(a, id)) = ((row + 1) - 1) * V + 0
    BY <1>3, <1>4, EntriesSame DEF Filled
  <2>2. ((row + 1) - 1) * V \in Int
    BY <1>1
  <2> QED BY <1>3, <2>1, <2>2
<1>6. Ruled(at, V, row + 1, (row + 1) - 1)
  <2>1. (row + 1) - 1 = row
    BY <1>1
  <2> QED BY <1>2, <2>1
<1>7. /\ e.row >= 1 /\ (e.first \in Nat /\ e.width <= e.first) /\ Filled(b, e.id, e.first, e.row, e.width)
      /\ g.b.scopes[n].start = (e.row - 1) * e.first /\ Ruled(at, e.first, e.row, e.row - 1)
  BY <1>1, <1>2, <1>3, <1>4, <1>5, <1>6
<1> QED BY <1>3, <1>7 DEF InGrid, e

\* The widths a node records once a row that began at `start` has ended.
RecordedDims(at, start) ==
    IF at.dims = OneRow \/ at.rows > RecordedRows THEN at.dims
    ELSE [at.dims EXCEPT ![at.rows] = Len(at.kids) - start]

\* A row that is full ends, its width recorded if there is room.
LEMMA GridEnded ==
    ASSUME NEW h, NEW a \in AccountSet, NEW n \in 1..Len(a.open), InGrid(h, a, n, "row"),
           a.open[n].first \in {-1, a.open[n].width},
           NEW at \in Node, at = h.nodes[a.open[n].id], Len(at.kids) = Len(Entries(a, a.open[n].id)),
           NEW g, g.b.scopes[n] = h.b.scopes[n], NEW new, new = g.nodes[a.open[n].id],
           new.kind = at.kind, new.rows = at.rows,
           new.dims = RecordedDims(at, h.b.scopes[n].start)
    PROVE  InGrid(g, a, n, "ended")
<1> SUFFICES ASSUME new.kind = "array" PROVE InGrid(g, a, n, "ended")
  BY DEF InGrid
<1> DEFINE id == a.open[n].id
           row == a.open[n].row
           w == a.open[n].width
           V == a.open[n].first
           start == h.b.scopes[n].start
           K == Len(at.kids)
           ds == at.dims
<1>1. id \in Nat /\ row \in Nat /\ w \in Nat /\ V \in Int
  BY FrameParts
<1>2. /\ row >= 1 /\ ((V = -1 /\ row = 1) \/ (V \in Nat /\ w <= V)) /\ Filled(a, id, V, row, w)
      /\ start = (row - 1) * V /\ Ruled(at, V, row, row - 1) /\ V \in {-1, w}
  BY DEF InGrid
<1>3. /\ K = Len(Entries(a, id)) /\ new.rows = at.rows
      /\ new.dims = IF ds = OneRow \/ at.rows > RecordedRows THEN ds ELSE [ds EXCEPT ![at.rows] = K - start]
      /\ g.b.scopes[n].start = start
  BY DEF RecordedDims
<1>6. ds \in Seq(Int)
  BY DEF Node
<1> HIDE DEF id, row, w, V, start, K, ds
<1>4. RecordedRows \in Nat /\ RecordedRows >= 1 /\ at.rows = row
  BY <1>2, BuilderAssumption DEF Ruled
<1>5. Ruled(new, V, row, row)
  <2>1. CASE row = 1
    <3>1. ds = OneRow
      BY <1>2, <1>4, <2>1 DEF Ruled, ds
    <3> QED BY <1>3, <1>4, <2>1, <3>1 DEF Ruled
  <2>2. CASE row # 1
    <3>1. V \in Nat /\ V = w
      <4>1. V \in Nat /\ V \in {-1, w}
        BY <1>2, <2>2
      <4> QED BY ONLY <4>1
    <3>2. Len(ds) = RecordedRows /\ \A r \in 1..RecordedRows : ds[r] = IF r <= row - 1 THEN V ELSE 0
      BY <1>2, <1>4, <2>2 DEF Ruled, ds
    <3>3. ds # OneRow
      BY <1>4, <3>2 DEF OneRow
    <3>4. K - start = V
      <4>1. K = (row - 1) * V + w
        BY <1>2, <1>3 DEF Filled
      <4>2. (row - 1) * V \in Int
        BY ONLY <1>1
      <4>3. start = (row - 1) * V
        BY <1>2
      <4> QED BY ONLY <1>1, <3>1, <4>1, <4>2, <4>3
    <3>5. CASE row > RecordedRows
      <4>1. new.dims = ds
        BY <1>3, <1>4, <3>5
      <4>2. \A r \in 1..RecordedRows : r <= row - 1 /\ r <= row
        BY <1>1, <1>4, <3>5
      <4>3. \A r \in 1..RecordedRows : new.dims[r] = IF r <= row THEN V ELSE 0
        BY <3>2, <4>1, <4>2
      <4> QED BY <1>3, <1>4, <2>2, <3>2, <4>1, <4>3 DEF Ruled
    <3>6. CASE ~(row > RecordedRows)
      <4> DEFINE es == [ds EXCEPT ![row] = V]
      <4>1. new.dims = es
        BY <1>3, <1>4, <3>3, <3>4, <3>6
      <4>2. ds \in Seq(Int)
        BY <1>6
      <4>3. Len(es) = RecordedRows /\ \A r \in 1..RecordedRows : es[r] = IF r <= row THEN V ELSE 0
        BY <1>1, <1>4, <3>2, <3>6, <4>2
      <4> HIDE DEF es
      <4> QED BY <1>3, <1>4, <2>2, <4>1, <4>3 DEF Ruled
    <3> QED BY <3>5, <3>6
  <2> QED BY <2>1, <2>2
<1> QED BY <1>2, <1>3, <1>5 DEF InGrid, id, row, w, V, start

\* The array whose row grows, ends or has ended.
LEMMA GridTop ==
    ASSUME NEW h, Sound(h), NEW a, Mirrors(h, a), NEW mode, Measured(h, a, mode), Top(h).kind = "array"
    PROVE  LET n == Len(a.open)
               at == h.nodes[a.open[n].id]
           IN /\ a \in AccountSet /\ n \in 1..n /\ n \in Nat /\ a.open[n].id = Top(h).node /\ Top(h).node \in 1..Len(h.nodes)
              /\ InGrid(h, a, n, mode) /\ at.kind = "array" /\ at \in Node
              /\ Len(at.kids) = Len(Entries(a, a.open[n].id))
              /\ n = Len(h.b.scopes) /\ Top(h) = h.b.scopes[n] /\ a.open # <<>> /\ a.open[n] \in FrameSet
<1> DEFINE n == Len(a.open)
           id == a.open[n].id
<1>1. /\ a \in AccountSet /\ n \in 1..n /\ n \in Nat /\ id = Top(h).node /\ Top(h) = h.b.scopes[n]
      /\ Top(h).node \in 1..Len(h.nodes) /\ Top(h).kind = h.nodes[Top(h).node].kind
      /\ a.open # <<>> /\ a.open[n] \in FrameSet
  BY InnermostOf DEF Mirrors
<1>2. InGrid(h, a, n, mode)
  BY <1>1 DEF Measured
<1>3. h.nodes[id] \in Node /\ h.nodes[id].kids = Entries(a, id)
  <2>1. h.nodes[id] \in Node
    BY <1>1, HeapParts DEF Sound
  <2>2. h.nodes[id].kids = Entries(a, id)
    BY <1>1 DEF Mirrors, Grown
  <2> QED BY <2>1, <2>2
<1>4. n = Len(h.b.scopes)
  BY DEF Mirrors, Nested
<1> QED BY <1>1, <1>2, <1>3, <1>4

\* A further row begins.
LEMMA MeasuredTurned ==
    ASSUME NEW h, Sound(h), NEW a, Mirrors(h, a), Measured(h, a, "slashed"), Top(h).kind = "array",
           NEW g, g.nodes = h.nodes, \A i \in 1..(Len(a.open) - 1) : g.b.scopes[i] = h.b.scopes[i],
           g.b.scopes[Len(a.open)].start = Len(h.nodes[Top(h).node].kids),
           NEW f, f.id = a.open[Len(a.open)].id, f.row = a.open[Len(a.open)].row + 1, f.width = 0,
           f.first = a.open[Len(a.open)].first,
           NEW b, b.values = a.values, Len(b.open) = Len(a.open),
           \A i \in 1..Len(a.open) : b.open[i] = IF i = Len(a.open) THEN f ELSE a.open[i]
    PROVE  Measured(g, b, "row")
<1> DEFINE n == Len(a.open)
           id == a.open[n].id
           at == h.nodes[id]
<1>1. /\ a \in AccountSet /\ n \in 1..n /\ n \in Nat /\ id = Top(h).node
      /\ InGrid(h, a, n, "slashed") /\ at.kind = "array" /\ Len(at.kids) = Len(Entries(a, id))
  BY GridTop
<1>2. b.open[n] = f /\ \A i \in 1..(n - 1) : i \in 1..n /\ b.open[i] = a.open[i]
  BY <1>1
<1>3. /\ g.nodes[id] = at /\ g.b.scopes[n].start = Len(at.kids) /\ b.open[n].id = id
      /\ b.open[n].row = a.open[n].row + 1 /\ b.open[n].width = 0 /\ b.open[n].first = a.open[n].first
  BY <1>1, <1>2
<1>4. InGrid(g, b, n, "row")
  <2>1. /\ a \in AccountSet /\ n \in 1..Len(a.open) /\ InGrid(h, a, n, "slashed")
        /\ at = h.nodes[a.open[n].id] /\ at.kind = "array" /\ Len(at.kids) = Len(Entries(a, a.open[n].id))
        /\ g.nodes[a.open[n].id] = at /\ g.b.scopes[n].start = Len(at.kids) /\ b.values = a.values
        /\ b.open[n].id = a.open[n].id /\ b.open[n].row = a.open[n].row + 1 /\ b.open[n].width = 0
        /\ b.open[n].first = a.open[n].first
    BY <1>1, <1>3
  <2> HIDE DEF at, n
  <2> QED BY ONLY <2>1, GridTurned
<1>5. TopAlone(h, a, g, b)
  BY <1>2, <1>3 DEF TopAlone
<1> QED BY <1>4, <1>5, MeasuredTop

\* The account once "/" has been read.
LEMMA WidenedParts ==
    ASSUME NEW p \in AccountSet, p.open # <<>>
    PROVE  LET n == Len(p.open)
               b == Widened(p)
               f == b.open[n]
           IN /\ b \in AccountSet /\ b.values = p.values /\ b.key = p.key /\ b.octets = p.octets /\ Len(b.open) = n
              /\ \A i \in 1..(n - 1) : b.open[i] = p.open[i]
              /\ f.id = p.open[n].id /\ f.row = p.open[n].row /\ f.width = p.open[n].width /\ f.first = p.open[n].width
<1> DEFINE n == Len(p.open)
           one == p.open[n]
           x == one.width
           f == [one EXCEPT !.first = x]
           b == Widened(p)
<1>1. one \in FrameSet /\ x \in Int /\ n \in Nat /\ n \in 1..n
  <2>1. one \in FrameSet /\ n \in Nat /\ n \in 1..n
    BY AccountParts
  <2> HIDE DEF one
  <2> QED BY <2>1 DEF FrameSet
<1>2. b = [p EXCEPT !.open[n] = f]
  BY DEF Widened
<1> HIDE DEF x, b
<1>3. f \in FrameSet /\ f.id = one.id /\ f.row = one.row /\ f.width = one.width /\ f.first = x
  <2> HIDE DEF one
  <2> QED BY <1>1 DEF FrameSet
<1> HIDE DEF f
<1>4. LET q == [p EXCEPT !.open[n] = f]
      IN /\ q \in AccountSet /\ q.values = p.values /\ q.key = p.key /\ q.octets = p.octets /\ Len(q.open) = n
         /\ \A i \in 1..n : q.open[i] = IF i = n THEN f ELSE p.open[i]
  BY <1>3, FrameReplaced
<1>5. \A i \in 1..(n - 1) : i \in 1..n /\ i # n
  BY <1>1
<1> QED BY <1>1, <1>2, <1>3, <1>4, <1>5 DEF x, b

\* "/" is read.
LEMMA MeasuredWidened ==
    ASSUME NEW h, Sound(h), NEW a, Mirrors(h, a), Measured(h, a, "ended"), Top(h).kind = "array",
           NEW at, at = h.nodes[Top(h).node], NEW new,
           new.kind = at.kind, new.rows = at.rows + 1,
           new.dims = MatrixDims(at),
           NEW g, Len(g.nodes) = Len(h.nodes), g.b.scopes = h.b.scopes,
           \A m \in 1..Len(h.nodes) : g.nodes[m] = IF m = Top(h).node THEN new ELSE h.nodes[m]
    PROVE  Measured(g, Widened(a), "slashed")
<1> DEFINE n == Len(a.open)
           id == a.open[n].id
           b == Widened(a)
<1>1. /\ a \in AccountSet /\ n \in 1..n /\ n \in Nat /\ id = Top(h).node /\ a.open # <<>> /\ id \in 1..Len(h.nodes)
      /\ InGrid(h, a, n, "ended") /\ at.kind = "array" /\ Len(at.kids) = Len(Entries(a, id)) /\ at = h.nodes[id]
  BY GridTop
<1>2. /\ b.values = a.values /\ Len(b.open) = n /\ \A i \in 1..(n - 1) : b.open[i] = a.open[i]
      /\ b.open[n].id = id /\ b.open[n].row = a.open[n].row /\ b.open[n].width = a.open[n].width
      /\ b.open[n].first = a.open[n].width
  BY <1>1, WidenedParts
<1>3. g.nodes[id] = new
  BY <1>1
<1> HIDE DEF b
<1>4. InGrid(g, b, n, "slashed")
  <2>1. /\ a \in AccountSet /\ n \in 1..Len(a.open) /\ InGrid(h, a, n, "ended")
        /\ at = h.nodes[a.open[n].id] /\ at.kind = "array" /\ Len(at.kids) = Len(Entries(a, a.open[n].id))
        /\ b.values = a.values /\ g.b.scopes[n] = h.b.scopes[n]
        /\ b.open[n].id = a.open[n].id /\ b.open[n].row = a.open[n].row /\ b.open[n].width = a.open[n].width
        /\ b.open[n].first = a.open[n].width /\ g.nodes[a.open[n].id].rows = at.rows + 1
        /\ g.nodes[a.open[n].id].dims = MatrixDims(at)
    BY <1>1, <1>2, <1>3
  <2> HIDE DEF n
  <2> QED BY ONLY <2>1, GridWidened
<1>5. TopAlone(h, a, g, b)
  BY <1>1, <1>2, <1>3 DEF TopAlone
<1> QED BY <1>4, <1>5, MeasuredTop DEF b
-----------------------------------------------------------------------------
(* While the document is read: the heap, the events and the reader's place *)
(* in the document fit one another.                                        *)

\* The scopes that are open once an ended row is taken for the last of its array.
OpenScopes(h) == IF h.b.pop \/ h.b.continue THEN Front(h.b.scopes) ELSE h.b.scopes

\* What may come next, in the innermost of those scopes.
Awaits(ss, t, o, x) ==
    /\ x \in {"start", "key", "value", "item", "row_done", "row", "octets"}
    /\ x = "row" <=> Slashed(t)
    /\ x = "row_done" => Ended(t)
    /\ x \in {"value", "octets", "start"} => ~Ended(t)
    /\ x = "item" => Last(ss).kind = "array"
    /\ x \in {"key", "value"} => Last(ss).kind # "array"
    /\ x = "start" => o = <<>>

\* The key and the chunks that wait for their value.
Awaiting(h, ss, a, x) ==
    /\ a.key = IF x = "value" \/ (x = "octets" /\ Last(ss).kind # "array") THEN h.b.key ELSE NoKey
    /\ x = "value" \/ (x = "octets" /\ Last(ss).kind # "array") => h.b.key \in ReadableKeys
    /\ x = "octets" => a.octets = h.b.chunks

\* How far its rows are measured.
Mode(t) == IF Ended(t) THEN "ended" ELSE IF Slashed(t) THEN "slashed" ELSE "row"

Fits(h, t, o, x) ==
    /\ t \in Seq(EventSet)
    /\ (h.b.pop <=> Ended(t)) /\ (h.b.continue <=> Slashed(t))
    /\ Ended(t) \/ Slashed(t) => Top(h).kind = "array"
    /\ Mirrors(h, Pending(t))
    /\ Lined(OpenScopes(h), o)
    /\ Awaits(OpenScopes(h), t, o, x)
    /\ Awaiting(h, OpenScopes(h), Pending(t), x)
    /\ Measured(h, Pending(t), Mode(t))
    /\ x = "octets" => HasRoom(Pending(t))
    /\ h.b.error = "none"

\* The innermost scope is left, its nodes are not.
LEMMA MirrorsShut ==
    ASSUME NEW h, Sound(h), NEW a, Mirrors(h, a), NEW g, g.nodes = h.nodes, g.b.scopes = Front(h.b.scopes)
    PROVE  Mirrors(g, Shut(a))
<1> DEFINE n == Len(a.open)
           b == Shut(a)
<1>1. a \in AccountSet /\ Grown(h, a) /\ Nested(h, a) /\ a.open # <<>> /\ n \in Nat /\ n >= 1
  BY InnermostOf DEF Mirrors
<1>2. /\ b \in AccountSet /\ b.values = a.values /\ Len(b.open) = n - 1
      /\ \A i \in 1..(n - 1) : b.open[i] = a.open[i]
  BY <1>1, ShutParts
<1>3. h.b.scopes \in Seq(ScopeSet) /\ Len(h.b.scopes) = n
  BY <1>1, BuilderParts DEF Nested, Sound
<1> DEFINE ss == h.b.scopes
           fs == Front(ss)
<1>4. Len(fs) = n - 1 /\ \A i \in 1..(n - 1) : fs[i] = ss[i]
  <2> HIDE DEF ss, n
  <2>1. ss \in Seq(ScopeSet) /\ Len(ss) = n
    BY <1>3 DEF ss
  <2>2. fs = SubSeq(ss, 1, n - 1)
    BY <2>1 DEF Front
  <2> QED BY <1>1, <2>1, <2>2
<1> HIDE DEF b, n
<1>5. Grown(g, b)
  <2>1. \A id : Entries(b, id) = Entries(a, id)
    BY <1>2, EntriesSame
  <2> QED BY <1>1, <1>2, <2>1 DEF Grown
<1>6. Nested(g, b)
  <2>1. g.b.scopes = fs
    OBVIOUS
  <2> HIDE DEF fs
  <2>2. \A i \in 1..(n - 1) : i \in 1..n
    BY <1>1
  <2> QED BY <1>1, <1>2, <1>4, <2>1, <2>2 DEF Nested, n
<1> QED BY <1>2, <1>5, <1>6 DEF Mirrors, b

\* What a pending pop does to a heap.
LEMMA DeferredParts ==
    ASSUME NEW h, h \in HeapSet
    PROVE  LET g == DeferredPop(h)
           IN /\ g.nodes = h.nodes /\ g.b.continue = h.b.continue /\ g.b.key = h.b.key /\ g.b.octets = h.b.octets
              /\ g.b.chunks = h.b.chunks /\ g.b.error = h.b.error /\ ~g.b.pop
              /\ g.b.scopes = IF h.b.pop /\ h.b.scopes # <<>> /\ Top(h).kind = "array" THEN Front(h.b.scopes)
                              ELSE h.b.scopes
<1> DEFINE b == h.b
           c == [b EXCEPT !.pop = FALSE]
           k == [h EXCEPT !.b = c]
           g == DeferredPop(h)
<1>1. b \in Builder
  BY HeapParts
<1>2. /\ c.scopes = b.scopes /\ c.key = b.key /\ c.continue = b.continue /\ c.octets = b.octets
      /\ c.chunks = b.chunks /\ c.error = b.error /\ c.pop = FALSE /\ c \in Builder
  <2> HIDE DEF b
  <2> QED BY <1>1 DEF Builder
<1>3. k.nodes = h.nodes /\ k.b = c
  <2> HIDE DEF c
  <2> QED BY DEF HeapSet
<1>4. CASE ~b.pop
  <2>1. g = h
    BY <1>4 DEF DeferredPop
  <2> QED BY <1>4, <2>1
<1>5. CASE b.pop
  <2>1. g = IF k.b.scopes # <<>> /\ Top(k).kind = "array" THEN Popped(k) ELSE k
    BY <1>5 DEF DeferredPop
  <2>2. Top(k) = Top(h) /\ k.b.scopes = b.scopes
    BY <1>2, <1>3 DEF Top
  <2> HIDE DEF k, g
  <2>3. CASE b.scopes # <<>> /\ Top(h).kind = "array"
    <3> DEFINE fs == Front(b.scopes)
               d == [c EXCEPT !.scopes = fs]
    <3>1. g = [k EXCEPT !.b = d]
      <4>1. g = [k EXCEPT !.b.scopes = Front(k.b.scopes)]
        BY <2>1, <2>2, <2>3 DEF Popped
      <4> QED BY <1>3, <2>2, <4>1
    <3>2. g.nodes = k.nodes /\ g.b = d
      <4>1. k \in [nodes : Seq(Node), blocks : Seq(Block), b : Builder]
        BY <1>2, <1>3 DEF k, HeapSet
      <4> HIDE DEF d
      <4> QED BY <3>1, <4>1
    <3>3. /\ d.key = c.key /\ d.continue = c.continue /\ d.octets = c.octets /\ d.chunks = c.chunks
          /\ d.error = c.error /\ d.pop = c.pop /\ d.scopes = fs
      <4> HIDE DEF c, fs
      <4> QED BY <1>2 DEF Builder
    <3> HIDE DEF d, c
    <3> QED BY <1>2, <1>3, <1>5, <2>3, <3>2, <3>3 DEF g
  <2>4. CASE ~(b.scopes # <<>> /\ Top(h).kind = "array")
    <3>1. g = k
      BY <2>1, <2>2, <2>4
    <3> HIDE DEF c
    <3> QED BY <1>2, <1>3, <2>4, <3>1 DEF g
  <2> QED BY <2>3, <2>4
<1> QED BY <1>4, <1>5

\* Before any event but a further row's two: the array whose row ended is closed in heap and account.
LEMMA ClosedFits ==
    ASSUME NEW h, Sound(h), NEW t, NEW o, NEW x, Fits(h, t, o, x), ~Slashed(t), NEW ev, ev # "dim_start"
    PROVE  LET g == DeferredPop(h)
               a == Continued(t, ev)
           IN /\ Sound(g) /\ g.nodes = h.nodes /\ Mirrors(g, a) /\ g.b.scopes = OpenScopes(h) /\ Lined(g.b.scopes, o)
              /\ ~g.b.pop /\ ~g.b.continue /\ g.b.error = "none" /\ g.b.key = h.b.key /\ g.b.chunks = h.b.chunks
              /\ a.key = Pending(t).key /\ a.octets = Pending(t).octets /\ Measured(g, a, "row")
<1> DEFINE g == DeferredPop(h)
           a == Continued(t, ev)
           p == Pending(t)
<1>1. h \in HeapSet /\ Sound(g) /\ h.b.scopes # <<>>
  BY DeferredPopSound DEF Sound, Scoped
<1>2. /\ g.nodes = h.nodes /\ g.b.continue = h.b.continue /\ g.b.key = h.b.key
      /\ g.b.chunks = h.b.chunks /\ g.b.error = h.b.error /\ ~g.b.pop
      /\ g.b.scopes = IF h.b.pop /\ h.b.scopes # <<>> /\ Top(h).kind = "array" THEN Front(h.b.scopes) ELSE h.b.scopes
  BY <1>1, DeferredParts
<1>3. /\ (h.b.pop <=> Ended(t)) /\ ~h.b.continue /\ (Ended(t) => Top(h).kind = "array")
      /\ Mirrors(h, p) /\ Lined(OpenScopes(h), o) /\ h.b.error = "none"
      /\ Measured(h, p, IF Ended(t) THEN "ended" ELSE "row")
  BY DEF Fits, Mode
<1>4. g.b.scopes = OpenScopes(h)
  BY <1>1, <1>2, <1>3 DEF OpenScopes
<1> HIDE DEF g
<1>5. CASE ~Ended(t)
  <2>1. a = p
    BY <1>5 DEF Continued
  <2>2. Mirrors(g, p)
    BY <1>2, <1>3, <1>5 DEF Mirrors, Grown, Nested
  <2>3. Measured(g, p, "row")
    <3>1. g.b.scopes = h.b.scopes /\ Measured(h, p, "row")
      BY <1>2, <1>3, <1>5
    <3> QED BY <1>2, <3>1, MeasuredSame
  <2> QED BY <1>1, <1>2, <1>3, <1>4, <2>1, <2>2, <2>3 DEF g
<1>6. CASE Ended(t)
  <2>1. a = Shut(p)
    BY <1>6 DEF Continued
  <2>2. g.b.scopes = Front(h.b.scopes)
    BY <1>1, <1>2, <1>3, <1>6
  <2>3. Mirrors(g, Shut(p))
    BY <1>2, <1>3, <2>2, MirrorsShut
  <2>4. Shut(p).key = p.key /\ Shut(p).octets = p.octets
    <3>1. p \in AccountSet /\ p.open # <<>>
      BY <1>3, InnermostOf DEF Mirrors
    <3> QED BY <3>1, ShutParts
  <2>5. Measured(g, Shut(p), "row")
    <3>1. Measured(h, p, "ended")
      BY <1>3, <1>6
    <3> QED BY <1>2, <1>3, <2>2, <3>1, MeasuredShut
  <2> QED BY <1>1, <1>2, <1>3, <1>4, <2>1, <2>3, <2>4, <2>5 DEF g
<1> QED BY <1>5, <1>6

\* The same nodes under the same scopes mirror the same values.
LEMMA MirrorsSame ==
    ASSUME NEW h, Sound(h), NEW a, Mirrors(h, a), NEW g, NEW b \in AccountSet,
           b.values = a.values, Len(b.open) = Len(a.open), \A i \in 1..Len(a.open) : b.open[i].id = a.open[i].id,
           Len(g.nodes) = Len(h.nodes),
           \A m \in 1..Len(h.nodes) : /\ g.nodes[m].kind = h.nodes[m].kind /\ g.nodes[m].value = h.nodes[m].value
                                      /\ g.nodes[m].kids = h.nodes[m].kids,
           Len(g.b.scopes) = Len(h.b.scopes),
           \A i \in 1..Len(h.b.scopes) : /\ g.b.scopes[i].node = h.b.scopes[i].node
                                         /\ g.b.scopes[i].kind = h.b.scopes[i].kind
    PROVE  Mirrors(g, b)
<1>1. /\ a \in AccountSet /\ Grown(h, a) /\ Nested(h, a) /\ Len(a.open) \in Nat /\ Len(h.nodes) \in Nat
      /\ Len(a.values) \in Nat
  BY InnermostOf, AccountParts DEF Mirrors
<1>2. Grown(g, b)
  <2>1. \A id : Entries(b, id) = Entries(a, id)
    BY EntriesSame
  <2>2. \A v \in 1..Len(a.values) : NodeOf(v) \in 1..Len(h.nodes) /\ a.values[v].parent \in 1..Len(h.nodes)
    BY <1>1 DEF Grown, NodeOf
  <2>3. ASSUME NEW v \in 1..Len(b.values)
        PROVE  /\ g.nodes[NodeOf(v)].kind = b.values[v].kind /\ g.nodes[NodeOf(v)].value = b.values[v].content
               /\ b.values[v].parent \in 1..v
               /\ g.nodes[b.values[v].parent].kind # "array" => b.values[v].key \in ReadableKeys
    <3> DEFINE x == a.values[v]
    <3>1. /\ h.nodes[NodeOf(v)].kind = x.kind /\ h.nodes[NodeOf(v)].value = x.content /\ x.parent \in 1..v
          /\ h.nodes[x.parent].kind # "array" => x.key \in ReadableKeys
      BY <1>1, <2>3 DEF Grown
    <3>2. NodeOf(v) \in 1..Len(h.nodes) /\ x.parent \in 1..Len(h.nodes)
      BY <2>2, <2>3
    <3>3. b.values[v] = x
      OBVIOUS
    <3> HIDE DEF x
    <3>4. /\ g.nodes[NodeOf(v)].kind = x.kind /\ g.nodes[NodeOf(v)].value = x.content
          /\ g.nodes[x.parent].kind = h.nodes[x.parent].kind
      BY <3>1, <3>2
    <3> QED BY ONLY <3>1, <3>3, <3>4
  <2>4. ASSUME NEW id \in 1..Len(g.nodes) PROVE g.nodes[id].kids = Entries(b, id)
    BY <1>1, <2>1, <2>4 DEF Grown
  <2>5. Len(g.nodes) = Len(b.values) + 1
    BY <1>1 DEF Grown
  <2> QED BY <2>3, <2>4, <2>5 DEF Grown
<1>3. Nested(g, b)
  <2>1. \A i \in 1..Len(h.b.scopes) : h.b.scopes[i].node \in 1..Len(h.nodes)
    <3>1. /\ \A i \in DOMAIN h.b.scopes : h.b.scopes[i].node \in AliveIn(h)
          /\ DOMAIN h.b.scopes = 1..Len(h.b.scopes) /\ DOMAIN h.nodes = 1..Len(h.nodes)
      BY BuilderParts, HeapParts DEF Sound, Scoped
    <3> QED BY <3>1 DEF AliveIn
  <2>2. ASSUME NEW i \in 1..Len(a.open)
        PROVE  b.open[i].id = g.b.scopes[i].node /\ g.b.scopes[i].kind = g.nodes[g.b.scopes[i].node].kind
    <3>1. /\ a.open[i].id = h.b.scopes[i].node /\ h.b.scopes[i].kind = h.nodes[h.b.scopes[i].node].kind
          /\ i \in 1..Len(h.b.scopes)
      BY <1>1 DEF Nested
    <3>2. g.b.scopes[i].node = h.b.scopes[i].node /\ g.b.scopes[i].kind = h.b.scopes[i].kind
      BY <3>1
    <3>3. g.nodes[h.b.scopes[i].node].kind = h.nodes[h.b.scopes[i].node].kind
      BY <2>1, <3>1
    <3> QED BY <3>1, <3>2, <3>3
  <2>3. Len(b.open) = Len(g.b.scopes)
    BY <1>1 DEF Nested
  <2>4. \A i \in 1..Len(b.open) : b.open[i].id = g.b.scopes[i].node /\ g.b.scopes[i].kind = g.nodes[g.b.scopes[i].node].kind
    BY <2>2
  <2> QED BY <2>3, <2>4 DEF Nested
<1> QED BY <1>2, <1>3 DEF Mirrors

\* A heap with another builder.
LEMMA Rebuilt ==
    ASSUME NEW h \in HeapSet, NEW c
    PROVE  [h EXCEPT !.b = c].nodes = h.nodes /\ [h EXCEPT !.b = c].b = c
BY DEF HeapSet

\* An event that leaves no row in doubt.
LEMMA FitsAfter ==
    ASSUME NEW t \in Seq(EventSet), NEW e \in EventSet, e.ev \notin {"row_end", "dim_start"},
           NEW g, ~g.b.pop, ~g.b.continue, g.b.error = "none",
           NEW b, b = Told(Continued(t, e.ev), Name(t, Len(t)), e, "none"), Mirrors(g, b),
           NEW p, Lined(g.b.scopes, p), NEW y \in {"key", "value", "item", "octets"},
           y = "item" => Last(g.b.scopes).kind = "array", y \in {"key", "value"} => Last(g.b.scopes).kind # "array",
           Awaiting(g, g.b.scopes, b, y), Measured(g, b, "row"), y = "octets" => HasRoom(b)
    PROVE  Fits(g, Append(t, e), p, y)
<1> DEFINE u == Append(t, e)
<1>1. Pending(u) = b /\ ~Ended(u) /\ ~Slashed(u)
  BY PendingStep
<1>2. u \in Seq(EventSet)
  OBVIOUS
<1>3. OpenScopes(g) = g.b.scopes
  BY DEF OpenScopes
<1> HIDE DEF u
<1>4. Awaits(g.b.scopes, u, p, y)
  BY <1>1 DEF Awaits
<1>5. Mode(u) = "row"
  BY <1>1 DEF Mode
<1> QED BY <1>1, <1>2, <1>3, <1>4, <1>5 DEF Fits, u

(* What an answer to event e makes of a heap that fits: one that fits with *)
(* e, or one that kept everything.                                         *)
Telling == Sound(Heap) /\ Fits(Heap, told, open, expect) /\ force = Plain
Answers(r, e) ==
    /\ r.ok => Fits(r.h, Append(told, e), open', expect') /\ force' = Plain
    /\ ~r.ok => Kept(Heap, r.h) /\ r.h.b.error \in {"none", "value_out_of_range"}

\* A heap is kept by itself, and by what is kept by one with its nodes.
LEMMA KeptSame ==
    ASSUME NEW h, Sound(h), NEW g, g.nodes = h.nodes
    PROVE  Kept(h, g) /\ \A f : Kept(g, f) => Kept(h, f)
<1>1. h \in HeapSet /\ Len(h.nodes) \in Nat
  BY HeapParts DEF Sound
<1>2. \A m \in 1..Len(h.nodes) : IsPrefix(h.nodes[m].kids, h.nodes[m].kids)
  BY <1>1, KidsSeq
<1>3. Kept(h, g)
  <2> DEFINE ns == h.nodes
  <2>1. g.nodes = ns /\ Len(ns) \in Nat /\ \A m \in 1..Len(ns) : IsPrefix(ns[m].kids, ns[m].kids)
    BY <1>1, <1>2
  <2> HIDE DEF ns
  <2>2. Len(ns) <= Len(ns)
    BY <2>1
  <2> QED BY <2>1, <2>2 DEF Kept, ns
<1>4. \A f : Kept(g, f) => Kept(h, f)
  BY DEF Kept
<1> QED BY <1>3, <1>4

\* What is told when no further row is awaited: closed arrays are closed on both sides.
LEMMA Closed ==
    ASSUME Telling, ~Slashed(told), NEW ev, ev # "dim_start"
    PROVE  LET h == DeferredPop(Heap)
               a == Continued(told, ev)
               ss == h.b.scopes
           IN /\ Sound(h) /\ h.nodes = Heap.nodes /\ Mirrors(h, a) /\ Lined(ss, open) /\ Top(h) = Last(ss)
              /\ ~h.b.pop /\ ~h.b.continue /\ h.b.error = "none" /\ h.b.key = builder.key /\ h.b.chunks = builder.chunks
              /\ a \in AccountSet /\ a.open # <<>> /\ told \in Seq(EventSet) /\ ss = OpenScopes(Heap)
              /\ Measured(h, a, "row")
              /\ Valuable(ss) => a.key = KeyIn(Top(h), h.b.key) /\ ~Slashed(told)
              /\ ~Valuable(ss) /\ expect # "octets" => a.key = NoKey
              /\ Rested(ss) = "key" => Last(ss).kind # "array"
              /\ Rested(ss) = "item" => Last(ss).kind = "array" /\ a.key = NoKey
              /\ Rested(ss) = "key" => a.key = NoKey
              /\ Rested(ss) = "value" => Last(ss).kind # "array"
              /\ Valuable(ss) /\ Top(h).kind # "array" => a.key \in ReadableKeys
<1> DEFINE h == DeferredPop(Heap)
           a == Continued(told, ev)
           ss == h.b.scopes
<1>1. /\ Sound(Heap) /\ Fits(Heap, told, open, expect)
      /\ Heap.b = builder
  BY DEF Telling, Heap
<1>2. /\ Sound(h) /\ h.nodes = Heap.nodes /\ Mirrors(h, a) /\ ss = OpenScopes(Heap) /\ Lined(ss, open)
      /\ ~h.b.pop /\ ~h.b.continue /\ h.b.error = "none" /\ h.b.key = builder.key /\ h.b.chunks = builder.chunks
      /\ a.key = Pending(told).key /\ a.octets = Pending(told).octets /\ Measured(h, a, "row")
  BY <1>1, ClosedFits
<1>3. /\ Awaits(ss, told, open, expect) /\ Awaiting(Heap, ss, Pending(told), expect) /\ told \in Seq(EventSet)
  BY <1>1, <1>2 DEF Fits
<1>4. Top(h) = Last(ss)
  BY DEF Top
<1> HIDE DEF h, a
<1>5. a \in AccountSet /\ a.open # <<>>
  BY <1>2, InnermostOf DEF Mirrors
<1>6. expect # "row" /\ expect \in {"start", "key", "value", "item", "row_done", "octets"}
  BY <1>3 DEF Awaits
<1>7. /\ expect = "item" => Last(ss).kind = "array"
      /\ expect \in {"key", "value"} => Last(ss).kind # "array"
      /\ expect \notin {"value", "octets"} => a.key = NoKey
      /\ expect = "value" => a.key = builder.key /\ builder.key \in ReadableKeys
  BY <1>1, <1>2, <1>3 DEF Awaits, Awaiting
<1> HIDE DEF ss
<1>8. Valuable(ss) => a.key = KeyIn(Last(ss), builder.key)
  BY <1>6, <1>7 DEF Valuable, Rested, Following, KeyIn
<1>9. ~Valuable(ss) /\ expect # "octets" => a.key = NoKey
  BY <1>6, <1>7 DEF Valuable, Rested, Following
<1>10. /\ Rested(ss) \in {"key", "value"} => Last(ss).kind # "array"
       /\ Rested(ss) = "item" => Last(ss).kind = "array"
       /\ Rested(ss) \in {"key", "item"} => a.key = NoKey
  BY <1>6, <1>7 DEF Rested, Following
<1>11. Valuable(ss) /\ Last(ss).kind # "array" => a.key \in ReadableKeys
  BY <1>6, <1>7 DEF Valuable, Rested, Following
<1> QED BY <1>2, <1>3, <1>4, <1>5, <1>8, <1>9, <1>10, <1>11 DEF h, a, ss

\* A step that failed before it changed a node.
LEMMA Unchanged ==
    ASSUME Telling, NEW g, g.nodes = Heap.nodes, g.b.error = "none"
    PROVE  Kept(Heap, g) /\ g.b.error \in {"none", "value_out_of_range"}
BY KeptSame DEF Telling

\* The events the builder is told are in EventSet.
LEMMA EventParts ==
    /\ \A x \in Marks : Event(x) \in EventSet /\ Event(x).ev = x
    /\ \A k \in Keys : LET e == [ev |-> "assignment_start", key |-> k]
                       IN e \in EventSet /\ e.ev = "assignment_start" /\ e.key = k
    /\ \A c \in Chunks : LET e == [ev |-> "octets", chunk |-> c] IN e \in EventSet /\ e.ev = "octets" /\ e.chunk = c
    /\ \A k \in Kinds : LET e == [ev |-> "data", kind |-> k] IN e \in EventSet /\ e.ev = "data" /\ e.kind = k
BY DEF EventSet, Event

\* The account of all that was told is the one the next event finds.
LEMMA AccountContinued ==
    ASSUME told \in Seq(EventSet), NEW ev, ev # "dim_start"
    PROVE  Account = Continued(told, ev)
<1>1. \E e : e \in EventSet
  BY EventParts DEF Marks
<1>2. Account = IF Ended(told) THEN Shut(Pending(told)) ELSE Pending(told)
  BY <1>1, PendingStep DEF Account
<1> QED BY <1>2 DEF Continued

\* What the validator looks at is the account the next event finds.
LEMMA RoomFound ==
    ASSUME told \in Seq(EventSet), NEW ev, ev # "dim_start"
    PROVE  /\ RowHasRoom => HasRoom(Continued(told, ev))
           /\ RowIsFull => IsFull(Continued(told, ev))
<1>1. Account = Continued(told, ev)
  BY AccountContinued
<1> QED BY <1>1 DEF RowHasRoom, RowIsFull, HasRoom, IsFull

-----------------------------------------------------------------------------
(* The answers, event by event.                                            *)

\* A document begins.
LEMMA StartAnswered ==
    ASSUME Telling, Stream!Say(Stream!Mark("stream_start"))
    PROVE  Fits(Heap, Append(told, Event("stream_start")), open', expect') /\ force' = Plain
<1> DEFINE e == Event("stream_start")
           b == Pending(told)
           ss == OpenScopes(Heap)
<1>1. /\ Fits(Heap, told, open, expect) /\ force = Plain /\ Lined(ss, open) /\ Heap.b = builder
      /\ told \in Seq(EventSet) /\ Mirrors(Heap, b) /\ Measured(Heap, b, Mode(told))
  BY DEF Telling, Fits, Heap
<1>2. expect = "start" /\ open' = <<>> /\ expect' = "key" /\ force' = Plain
  BY <1>1, SayCases
<1>3. ~Ended(told) /\ ~Slashed(told) /\ open = <<>> /\ b.key = NoKey
  BY <1>1, <1>2 DEF Fits, Awaits, Awaiting
<1>4. e \in EventSet /\ e.ev = "stream_start"
  BY EventParts DEF Marks
<1> HIDE DEF e, ss
<1>5. Continued(told, e.ev) = b /\ Told(b, Name(told, Len(told)), e, "none") = b
  <2>1. Continued(told, e.ev) = b
    BY <1>3 DEF Continued
  <2>2. Told(b, Name(told, Len(told)), e, "none") = b
    BY <1>4 DEF Told
  <2> QED BY <2>1, <2>2
<1>6. ss = Heap.b.scopes /\ ~Heap.b.pop /\ ~Heap.b.continue /\ Heap.b.error = "none"
  BY <1>1, <1>3 DEF Fits, OpenScopes, ss
<1>7. Last(ss).kind # "array"
  <2>1. Last(ss).kind = "document" \/ open # <<>>
    BY <1>1, LinedTop
  <2> QED BY <1>3, <2>1
<1>8. Awaiting(Heap, ss, b, "key")
  BY <1>3 DEF Awaiting
<1>9. Lined(ss, open')
  BY <1>1, <1>2, <1>3
<1>11. Measured(Heap, b, "row")
  BY <1>1, <1>3 DEF Mode
<1> HIDE DEF b
<1>10. Fits(Heap, Append(told, e), open', "key")
  BY <1>1, <1>4, <1>5, <1>6, <1>7, <1>8, <1>9, <1>11, FitsAfter
<1> QED BY <1>2, <1>10 DEF e

\* A key.
LEMMA AssignmentAnswered ==
    ASSUME Telling, Stream!Say(Stream!Mark("assignment_start")), NEW k \in ReadableKeys, NEW fault
    PROVE  Answers(OnAssignmentStart(k, fault), [ev |-> "assignment_start", key |-> k])
<1> DEFINE e == [ev |-> "assignment_start", key |-> k]
           h == DeferredPop(Heap)
           a == Continued(told, e.ev)
           ss == h.b.scopes
           r == OnAssignmentStart(k, fault)
           c == [h.b EXCEPT !.key = k]
           g == [h EXCEPT !.b = c]
           b == Told(a, Name(told, Len(told)), e, "none")
<1>1. e \in EventSet /\ e.ev = "assignment_start" /\ e.key = k /\ k \in Keys
  BY EventParts DEF ReadableKeys
<1>2. ~Slashed(told) /\ Rested(OpenScopes(Heap)) = "key" /\ open' = open /\ expect' = "value" /\ force' = Plain
  <2>1. Lined(OpenScopes(Heap), open) /\ force = Plain /\ Awaits(OpenScopes(Heap), told, open, expect)
    BY DEF Telling, Fits
  <2>2. Rested(OpenScopes(Heap)) = "key" /\ open' = open /\ expect' = "value" /\ force' = Plain
    BY <2>1, SayCases
  <2> QED BY <2>1, <2>2 DEF Awaits, Rested
<1> HIDE DEF e
<1>3. /\ Sound(h) /\ h.nodes = Heap.nodes /\ Mirrors(h, a) /\ Lined(ss, open) /\ Top(h) = Last(ss)
      /\ ~h.b.pop /\ ~h.b.continue /\ h.b.error = "none"
      /\ a \in AccountSet /\ a.open # <<>> /\ told \in Seq(EventSet) /\ ss = OpenScopes(Heap)
      /\ Rested(ss) = "key" => Last(ss).kind # "array"
      /\ Measured(h, a, "row")
  BY <1>1, <1>2, Closed
<1> HIDE DEF h, a
<1>4. h \in HeapSet /\ h.b \in Builder
  BY <1>3, HeapParts DEF Sound
<1>5. /\ c.scopes = ss /\ c.pop = h.b.pop /\ c.continue = h.b.continue /\ c.error = h.b.error /\ c.key = k
      /\ g.nodes = h.nodes /\ g.b = c
  <2>1. c.scopes = ss /\ c.pop = h.b.pop /\ c.continue = h.b.continue /\ c.error = h.b.error /\ c.key = k
    BY <1>4 DEF Builder
  <2> HIDE DEF c
  <2> QED BY <1>4, <2>1, Rebuilt
<1>6. r = IF fault = "key" THEN Failed(h) ELSE Ok(g)
  BY DEF OnAssignmentStart, h
<1>7. b = [a EXCEPT !.key = k]
  BY <1>1 DEF Told
<1>8. b \in AccountSet /\ b.values = a.values /\ b.open = a.open /\ b.key = k
  BY <1>1, <1>3, <1>7 DEF AccountSet
<1> HIDE DEF c, g, r, b, ss
<1>9. Mirrors(g, b)
  <2>1. Len(a.open) = Len(b.open) /\ Len(g.b.scopes) = Len(h.b.scopes) /\ g.b.scopes = h.b.scopes
    BY <1>5, <1>8 DEF ss
  <2> QED BY <1>3, <1>5, <1>8, <2>1, MirrorsSame
<1>12. Measured(g, b, "row")
  <2>1. g.b.scopes = h.b.scopes
    BY <1>5 DEF ss
  <2> QED BY <1>3, <1>5, <1>8, <2>1, MeasuredSame
<1>10. ASSUME r.ok PROVE Fits(r.h, Append(told, e), open', expect') /\ force' = Plain
  <2>1. r.h = g
    BY <1>6, <1>10 DEF Ok, Failed
  <2>2. Awaiting(g, g.b.scopes, b, "value")
    BY <1>5, <1>8 DEF Awaiting
  <2>3. ~g.b.pop /\ ~g.b.continue /\ g.b.error = "none" /\ Lined(g.b.scopes, open) /\ Last(g.b.scopes).kind # "array"
    BY <1>2, <1>3, <1>5 DEF ss
  <2>4. Fits(g, Append(told, e), open, "value")
    BY <1>1, <1>3, <1>9, <1>12, <2>2, <2>3, FitsAfter DEF b, a
  <2> QED BY <1>2, <2>1, <2>4
<1>11. ASSUME ~r.ok PROVE Kept(Heap, r.h) /\ r.h.b.error \in {"none", "value_out_of_range"}
  <2>1. r.h = h
    BY <1>6, <1>11 DEF Ok, Failed
  <2> QED BY <1>3, <2>1, Unchanged
<1> QED BY <1>10, <1>11 DEF Answers, r, e

\* What the stream's place says of the events so far.
LEMMA PlaceOf ==
    ASSUME Telling
    PROVE  LET ss == OpenScopes(Heap)
           IN /\ Lined(ss, open) /\ force = Plain /\ told \in Seq(EventSet)
              /\ Rested(ss) \in {"key", "value", "item", "octets"} => ~Slashed(told)
              /\ expect = "row" <=> Slashed(told)
              /\ expect = "row_done" => Ended(told) /\ ~Slashed(told)
              /\ expect = "octets" => ~Ended(told) /\ ~Slashed(told)
BY DEF Telling, Fits, Awaits, Rested

\* A value's event: the builder makes a node, the account a value.
LEMMA DataAnswered ==
    ASSUME Telling, Stream!Say(Stream!Mark("data")), NEW kind \in Kinds, NEW unit \in Units,
           NEW src \in Spellings \cup {NoSpelling}, NEW fault, RowHasRoom
    PROVE  Answers(OnData(kind, unit, src, fault), [ev |-> "data", kind |-> kind])
<1> DEFINE e == [ev |-> "data", kind |-> kind]
           h == DeferredPop(Heap)
           a == Continued(told, e.ev)
           ss == h.b.scopes
           none == <<>>
           v == Valued(h, kind, none, unit, src, fault)
           r == OnData(kind, unit, src, fault)
           b == Told(a, Name(told, Len(told)), e, "none")
           y == Following(Last(ss).kind)
<1>1. e \in EventSet /\ e.ev = "data" /\ e.kind = kind /\ kind \in NodeKinds /\ none \in Seq(Chunks)
  BY EventParts DEF NodeKinds
<1>2. /\ ~Slashed(told) /\ Valuable(OpenScopes(Heap)) /\ open' = open /\ force' = Plain
      /\ expect' = Following(Last(OpenScopes(Heap)).kind)
  <2>1. /\ Valuable(OpenScopes(Heap)) /\ open' = open /\ force' = Plain
        /\ expect' = Following(Last(OpenScopes(Heap)).kind)
    BY PlaceOf, SayCases
  <2> QED BY <2>1, PlaceOf DEF Valuable
<1> HIDE DEF e
<1>3. /\ Sound(h) /\ h.nodes = Heap.nodes /\ Mirrors(h, a) /\ Lined(ss, open) /\ Top(h) = Last(ss)
      /\ Measured(h, a, "row")
      /\ ~h.b.pop /\ ~h.b.continue /\ h.b.error = "none"
      /\ a \in AccountSet /\ a.open # none /\ told \in Seq(EventSet) /\ ss = OpenScopes(Heap)
      /\ Valuable(ss) => a.key = KeyIn(Top(h), h.b.key)
      /\ Top(h).kind # "array" => a.key \in ReadableKeys
  BY <1>1, <1>2, Closed
<1>10. HasRoom(a)
  BY <1>1, <1>3, RoomFound
<1>4. b = Placed(a, kind, none)
  BY <1>1 DEF Told
<1>5. \/ r.ok /\ v.ok /\ r.h = v.h
      \/ ~r.ok /\ ~v.ok /\ r.h = v.h
      \/ ~r.ok /\ ~v.ok /\ r.h = [v.h EXCEPT !.b.error = "value_out_of_range"]
  <2>1. r = IF fault = "node" /\ kind = "number" THEN Failed([v.h EXCEPT !.b.error = "value_out_of_range"]) ELSE v
    BY DEF OnData
  <2>2. fault = "node" => ~v.ok
    BY DEF Valued, Failed
  <2>3. v.ok \in BOOLEAN
    BY DEF Valued, Attached, Added, Failed, Ok
  <2> HIDE DEF v, r
  <2> QED BY <2>1, <2>2 DEF Failed
<1> HIDE DEF h, a, none, r, b, ss, y
<1>6. /\ v.ok => Grew(h, v.h, Top(h).node, KeyIn(Top(h), h.b.key), kind, none) /\ ValueNoted(h.b, v.h.b, Top(h))
      /\ ~v.ok => Kept(h, v.h) /\ v.h.b.error = h.b.error
  <2>1. Sound(h) /\ kind \in NodeKinds /\ none \in Seq(Chunks)
    BY <1>1, <1>3
  <2> QED BY ONLY <2>1, unit \in Units, src \in Spellings \cup {NoSpelling}, ValuedEffect
<1>7. Sound(v.h)
  BY <1>1, <1>3, ValuedSound DEF NodeKinds
<1> HIDE DEF v
<1>8. ASSUME r.ok PROVE Fits(r.h, Append(told, e), open', expect') /\ force' = Plain
  <2> DEFINE g == r.h
  <2>1. /\ Grew(h, g, Top(h).node, a.key, kind, none) /\ g.b.scopes = ss /\ ~g.b.pop /\ ~g.b.continue
        /\ g.b.error = "none"
    BY <1>2, <1>3, <1>5, <1>6, <1>8 DEF ValueNoted, ss
  <2> HIDE DEF g
  <2>2. Mirrors(g, b)
    <3>1. g.b.scopes = h.b.scopes
      BY <2>1 DEF ss
    <3> QED BY <1>1, <1>3, <1>4, <2>1, <3>1, MirrorsPlaced
  <2>8. Measured(g, b, "row")
    <3>1. g.b.scopes = h.b.scopes
      BY <2>1 DEF ss
    <3>2. Lined(h.b.scopes, open)
      BY <1>3 DEF ss
    <3>3. kind \notin Parents
      BY DocumentAssumption DEF Parents
    <3>4. Measured(g, Placed(a, kind, none), "row")
      BY ONLY <1>1, <1>3, <1>10, <2>1, <3>1, <3>2, <3>3, MeasuredPlaced
    <3> QED BY <1>4, <3>4
  <2>3. b.key = NoKey
    BY <1>1, <1>3, <1>4, PlacedParts DEF none
  <2>4. y \in {"key", "item"} /\ (y = "item" => Last(ss).kind = "array") /\ (y = "key" => Last(ss).kind # "array")
    BY DEF Following, y
  <2>5. Awaiting(g, g.b.scopes, b, y)
    BY <2>3, <2>4 DEF Awaiting
  <2>6. Fits(g, Append(told, e), open, y)
    BY <1>1, <1>3, <2>1, <2>2, <2>4, <2>5, <2>8, FitsAfter DEF b, a
  <2>7. y = expect' /\ open' = open
    BY <1>2, <1>3 DEF y, ss
  <2> QED BY <1>2, <2>6, <2>7 DEF g
<1>9. ASSUME ~r.ok PROVE Kept(Heap, r.h) /\ r.h.b.error \in {"none", "value_out_of_range"}
  <2>1. ~v.ok /\ Kept(h, v.h) /\ v.h.b.error = "none"
    BY <1>3, <1>5, <1>6, <1>9
  <2>2. v.h.b \in Builder /\ v.h \in HeapSet
    BY <1>7, HeapParts DEF Sound
  <2>3. r.h.nodes = v.h.nodes /\ r.h.b.error \in {"none", "value_out_of_range"}
    <3> DEFINE c == [v.h.b EXCEPT !.error = "value_out_of_range"]
    <3>1. c.error = "value_out_of_range"
      BY <2>2 DEF Builder
    <3>2. [v.h EXCEPT !.b.error = "value_out_of_range"] = [v.h EXCEPT !.b = c]
      OBVIOUS
    <3> HIDE DEF c
    <3> QED BY <1>5, <2>1, <2>2, <3>1, <3>2, Rebuilt
  <2>4. Kept(h, r.h)
    BY <2>1, <2>3 DEF Kept
  <2>5. Sound(Heap)
    BY DEF Telling
  <2> QED BY <1>3, <2>3, <2>4, <2>5, KeptSame
<1> QED BY <1>8, <1>9 DEF Answers, r, e

\* A container that begins, struct or array.
LEMMA OpenAnswered ==
    ASSUME Telling, NEW ev, NEW kind, NEW unit \in Units, NEW fault,
           \/ ev = "struct_start" /\ kind = "struct"
           \/ ev = "row_start" /\ kind = "array",
           ~Slashed(told), Valuable(OpenScopes(Heap)),
           open' = Append(open, IF kind = "struct" THEN "struct" ELSE Plain), force' = Plain,
           expect' = IF kind = "struct" THEN "key" ELSE "item", RowHasRoom
    PROVE  Answers(Opened(DeferredPop(Heap), kind, unit, fault), Event(ev))
<1> DEFINE e == Event(ev)
           h == DeferredPop(Heap)
           a == Continued(told, e.ev)
           ss == h.b.scopes
           r == Opened(h, kind, unit, fault)
           b == Told(a, Name(told, Len(told)), e, "none")
           y == IF kind = "struct" THEN "key" ELSE "item"
           none == <<>>
           new == Scope(kind, Len(h.nodes) + 1)
           o == Append(open, IF kind = "struct" THEN "struct" ELSE Plain)
<1>1. e \in EventSet /\ e.ev = ev /\ kind \in {"struct", "array"} /\ kind \in NodeKinds
  BY EventParts DEF NodeKinds, Marks
<1>2. y \in {"key", "item"} /\ (y = "item" <=> kind = "array") /\ (y = "key" <=> kind = "struct") /\ expect' = y
  BY <1>1
<1> HIDE DEF e, y
<1>3. /\ Sound(h) /\ h.nodes = Heap.nodes /\ Mirrors(h, a) /\ Lined(ss, open) /\ Top(h) = Last(ss)
      /\ ~h.b.pop /\ ~h.b.continue /\ h.b.error = "none"
      /\ a \in AccountSet /\ a.open # none /\ told \in Seq(EventSet) /\ ss = OpenScopes(Heap)
      /\ a.key = KeyIn(Top(h), h.b.key) /\ Measured(h, a, "row")
      /\ Top(h).kind # "array" => a.key \in ReadableKeys
  BY <1>1, Closed
<1>8. HasRoom(a)
  <2>1. e.ev # "dim_start"
    BY <1>1
  <2> QED BY <1>3, <2>1, RoomFound
<1>4. b = Entered(a, kind)
  <2>1. Name(told, Len(told)) # "dim_start"
    BY <1>3, PendingStep, <1>1
  <2> HIDE DEF a
  <2> QED BY <1>1, <2>1 DEF Told
<1> HIDE DEF h, a, none, r, b
<1>5. /\ r.ok => /\ Grew(h, r.h, Top(h).node, KeyIn(Top(h), h.b.key), kind, <<>>)
                 /\ r.h.b.scopes = Append(h.b.scopes, new) /\ r.h.b.key = NoKey
                 /\ r.h.b.pop = h.b.pop /\ r.h.b.continue = h.b.continue /\ r.h.b.error = h.b.error
      /\ ~r.ok => Kept(h, r.h) /\ r.h.b.error = h.b.error
  <2>1. Sound(h) /\ kind \in {"struct", "array"} /\ unit \in Units
    BY <1>1, <1>3
  <2> QED BY ONLY <2>1, OpenedEffect DEF r
<1>6. ASSUME r.ok PROVE Fits(r.h, Append(told, e), open', expect') /\ force' = Plain
  <2> DEFINE g == r.h
  <2>1. /\ Grew(h, g, Top(h).node, a.key, kind, <<>>) /\ g.b.scopes = Append(h.b.scopes, Scope(kind, Len(h.nodes) + 1))
        /\ ~g.b.pop /\ ~g.b.continue /\ g.b.error = "none"
    BY <1>3, <1>5, <1>6
  <2> HIDE DEF g
  <2>2. Mirrors(g, b)
    <3>1. Mirrors(g, Entered(a, kind))
      BY ONLY <1>1, <1>3, <2>1, MirrorsEntered
    <3> QED BY <1>4, <3>1
  <2>7. Measured(g, b, "row")
    <3>1. Measured(g, Entered(a, kind), "row")
      BY ONLY <1>1, <1>3, <1>8, <2>1, MeasuredEntered DEF ss
    <3> QED BY <1>4, <3>1
  <2>3. b.key = NoKey
    <3>1. a \in AccountSet /\ a.open # <<>> /\ kind \in NodeKinds
      BY <1>1, <1>3 DEF none
    <3> QED BY <1>4, <3>1, EnteredParts
  <2>4. Lined(g.b.scopes, o) /\ Last(g.b.scopes).kind = kind
    <3>1. Len(h.nodes) + 1 \in Nat /\ ss \in Seq(ScopeSet)
      BY <1>3, HeapParts, BuilderParts DEF Sound
    <3>2. Lined(Append(ss, Scope(kind, Len(h.nodes) + 1)), o)
      BY <1>1, <1>3, <3>1, LinedAppend
    <3>3. Last(Append(ss, new)) = new /\ new.kind = kind
      <4>1. new.kind = kind
        BY DEF Scope
      <4> HIDE DEF new, ss
      <4> QED BY <3>1, <4>1 DEF Last
    <3> QED BY <2>1, <3>2, <3>3
  <2>5. Awaiting(g, g.b.scopes, b, y)
    BY <1>2, <2>3 DEF Awaiting
  <2> HIDE DEF o
  <2>6. Fits(g, Append(told, e), o, y)
    BY <1>1, <1>2, <1>3, <2>1, <2>2, <2>4, <2>5, <2>7, FitsAfter DEF b, a
  <2> QED BY <1>2, <2>6 DEF g, o
<1>7. ASSUME ~r.ok PROVE Kept(Heap, r.h) /\ r.h.b.error \in {"none", "value_out_of_range"}
  <2>1. Kept(h, r.h) /\ r.h.b.error = "none"
    BY <1>3, <1>5, <1>7
  <2>2. Sound(Heap)
    BY DEF Telling
  <2> QED BY <1>3, <2>1, <2>2, KeptSame
<1> QED BY <1>6, <1>7 DEF Answers, r, e, h

\* A struct begins.
LEMMA StructAnswered ==
    ASSUME Telling, Stream!Say(Stream!Mark("struct_start")), NEW unit \in Units, NEW fault, RowHasRoom
    PROVE  Answers(OnStructStart(unit, fault), Event("struct_start"))
<1> DEFINE o == Append(open, "struct")
<1>1. /\ Valuable(OpenScopes(Heap)) /\ open' = o /\ force' = Plain /\ expect' = "key"
  BY PlaceOf, SayCases
<1>2. ~Slashed(told)
  BY <1>1, PlaceOf DEF Valuable
<1> DEFINE kind == "struct"
           ev == "struct_start"
<1>3. o = Append(open, IF kind = "struct" THEN "struct" ELSE Plain) /\ expect' = IF kind = "struct" THEN "key" ELSE "item"
  BY <1>1
<1>4. ev = "struct_start" /\ kind = "struct"
  OBVIOUS
<1> HIDE DEF o, kind, ev
<1>5. Answers(Opened(DeferredPop(Heap), kind, unit, fault), Event(ev))
  BY <1>1, <1>2, <1>3, <1>4, OpenAnswered
<1> QED BY <1>4, <1>5 DEF OnStructStart

\* A struct ends: it is the innermost scope.
LEMMA StructEndAnswered ==
    ASSUME Telling, Stream!Say(Stream!Mark("struct_end"))
    PROVE  Answers(OnStructEnd, Event("struct_end")) /\ Top(DeferredPop(Heap)).kind = "struct"
<1> DEFINE e == Event("struct_end")
           h == DeferredPop(Heap)
           a == Continued(told, e.ev)
           ss == h.b.scopes
           r == OnStructEnd
           g == Popped(h)
           b == Told(a, Name(told, Len(told)), e, "none")
           os == OpenScopes(Heap)
           y == Following(Last(Front(os)).kind)
           o == Front(open)
<1>1. e \in EventSet /\ e.ev = "struct_end"
  BY EventParts DEF Marks
<1>2. /\ Rested(os) = "key" /\ Last(os).kind = "struct" /\ open' = o /\ force' = Plain /\ expect' = y /\ ~Slashed(told)
  <2>1. Rested(os) = "key" /\ Last(os).kind = "struct" /\ open' = o /\ force' = Plain /\ expect' = y
    BY PlaceOf, SayCases
  <2> QED BY <2>1, PlaceOf
<1> HIDE DEF e
<1>3. /\ Sound(h) /\ h.nodes = Heap.nodes /\ Mirrors(h, a) /\ Lined(ss, open) /\ Top(h) = Last(ss)
      /\ ~h.b.pop /\ ~h.b.continue /\ h.b.error = "none"
      /\ a \in AccountSet /\ a.open # <<>> /\ told \in Seq(EventSet) /\ ss = os
      /\ Rested(ss) = "key" => a.key = NoKey
      /\ Measured(h, a, "row")
  BY <1>1, <1>2, Closed
<1>4. b = Shut(a)
  BY <1>1 DEF Told, Shut
<1>5. r.ok /\ r.h = g
  BY DEF OnStructEnd, Ok
<1> HIDE DEF h, a, b, r, y, o, os
<1>6. h \in HeapSet /\ h.b \in Builder /\ ss # <<>>
  BY <1>3, HeapParts DEF Sound, Scoped
<1>7. /\ g.nodes = h.nodes /\ g.b.scopes = Front(ss) /\ g.b.pop = h.b.pop /\ g.b.continue = h.b.continue
      /\ g.b.error = h.b.error
  <2> DEFINE fs == Front(ss)
             c == [h.b EXCEPT !.scopes = fs]
  <2>1. g = [h EXCEPT !.b = c]
    BY <1>6 DEF Popped
  <2> HIDE DEF fs
  <2>2. c.scopes = fs /\ c.pop = h.b.pop /\ c.continue = h.b.continue /\ c.error = h.b.error
    BY <1>6 DEF Builder
  <2> HIDE DEF c, g
  <2> QED BY <1>6, <2>1, <2>2, Rebuilt DEF fs
<1> HIDE DEF g
<1>8. Mirrors(g, b)
  BY <1>3, <1>4, <1>7, MirrorsShut
<1>14. Measured(g, b, "row")
  <2>1. Top(h).kind # "array" /\ g.b.scopes = Front(h.b.scopes)
    BY <1>2, <1>3, <1>7
  <2> QED BY <1>3, <1>4, <1>7, <2>1, MeasuredShut
<1>9. b.key = NoKey
  BY <1>2, <1>3, <1>4, ShutParts
<1>10. open # <<>> /\ Lined(g.b.scopes, o)
  <2>1. open # <<>>
    BY <1>2, <1>3, LinedTop
  <2> QED BY <1>3, <1>7, <2>1, LinedFront DEF o
<1>11. y \in {"key", "item"} /\ (y = "item" => Last(g.b.scopes).kind = "array") /\ (y = "key" => Last(g.b.scopes).kind # "array")
  BY <1>3, <1>7 DEF Following, y
<1>12. Awaiting(g, g.b.scopes, b, y)
  BY <1>9, <1>11 DEF Awaiting
<1>13. Fits(g, Append(told, e), o, y)
  BY <1>1, <1>3, <1>7, <1>8, <1>10, <1>11, <1>12, <1>14, FitsAfter DEF b, a
<1> QED BY <1>2, <1>3, <1>5, <1>13 DEF Answers, r, e, h

-----------------------------------------------------------------------------
(* Rows.                                                                   *)

\* The scope of an array above those of its containers.
LEMMA LinedBack ==
    ASSUME NEW ss \in Seq(ScopeSet), ss # <<>>, NEW o, Lined(Front(ss), o), Last(ss).kind = "array",
           NEW zs \in Seq(ScopeSet), Len(zs) = Len(ss), \A i \in 1..Len(ss) : zs[i].kind = ss[i].kind
    PROVE  Lined(zs, Append(o, Plain)) /\ Last(zs).kind = "array"
<1> DEFINE fs == Front(ss)
           n == Len(ss)
           p == Append(o, Plain)
<1>1. n \in Nat /\ n >= 1 /\ Last(ss) = ss[n] /\ Last(zs) = zs[n]
  BY DEF Last
<1>2. fs \in Seq(ScopeSet) /\ Len(fs) = n - 1 /\ \A i \in 1..(n - 1) : fs[i] = ss[i]
  <2>1. fs = SubSeq(ss, 1, n - 1)
    BY DEF Front
  <2> HIDE DEF fs
  <2> QED BY <1>1, <2>1
<1>3. /\ o \in Seq({"struct", Plain}) /\ Len(fs) = Len(o) + 1 /\ fs[1].kind = "document"
      /\ \A i \in 1..Len(o) : /\ fs[i + 1].kind \in {"struct", "array"}
                              /\ o[i] = IF fs[i + 1].kind = "struct" THEN "struct" ELSE Plain
  BY DEF Lined
<1> HIDE DEF fs
<1>4. Len(o) \in Nat /\ n = Len(o) + 2
  BY <1>1, <1>2, <1>3
<1>5. p \in Seq({"struct", Plain}) /\ Len(p) = Len(o) + 1 /\ p[Len(o) + 1] = Plain /\ \A i \in 1..Len(o) : p[i] = o[i]
  BY <1>3
<1> HIDE DEF p
<1>6. \A i \in 1..(n - 1) : zs[i].kind = fs[i].kind
  BY <1>1, <1>2
<1>7. zs[n].kind = "array"
  BY <1>1
<1>8. zs[1].kind = "document"
  BY <1>3, <1>4, <1>6
<1>9. ASSUME NEW i \in 1..Len(p)
      PROVE  zs[i + 1].kind \in {"struct", "array"} /\ p[i] = IF zs[i + 1].kind = "struct" THEN "struct" ELSE Plain
  <2>1. CASE i \in 1..Len(o)
    <3>1. i + 1 \in 1..(n - 1)
      BY <1>4, <2>1
    <3> QED BY <1>3, <1>5, <1>6, <2>1, <3>1
  <2>2. CASE i = Len(o) + 1
    <3>1. i + 1 = n
      BY <1>4, <2>2
    <3> QED BY <1>5, <1>7, <2>2, <3>1
  <2>3. i \in 1..Len(o) \/ i = Len(o) + 1
    BY <1>4, <1>5
  <2> QED BY <2>1, <2>2, <2>3
<1> QED BY <1>1, <1>4, <1>5, <1>7, <1>8, <1>9 DEF Lined, p

\* A further row of the innermost array.
LEMMA FurtherRowAnswered ==
    ASSUME Telling, Slashed(told), open' = Append(open, Plain), force' = Plain, expect' = "item", NEW unit, NEW fault
    PROVE  Answers(OnArrayRowStart(unit, fault), Event("row_start"))
<1> DEFINE e == Event("row_start")
           h == [Heap EXCEPT !.b.continue = FALSE]
           c == [Heap.b EXCEPT !.continue = FALSE]
           ss == builder.scopes
           top == Len(ss)
           s == [ss[top] EXCEPT !.start = Len(Heap.nodes[Top(Heap).node].kids)]
           zs == [ss EXCEPT ![top] = s]
           d == [c EXCEPT !.scopes = zs]
           g == [h EXCEPT !.b = d]
           a == Pending(told)
           n == Len(a.open)
           f == [a.open[n] EXCEPT !.row = @ + 1, !.width = 0]
           b == Told(a, Name(told, Len(told)), e, "none")
           r == OnArrayRowStart(unit, fault)
           o == Append(open, Plain)
<1>1. e \in EventSet /\ e.ev = "row_start"
  BY EventParts DEF Marks
<1>2. /\ Sound(Heap) /\ Mirrors(Heap, a) /\ Lined(OpenScopes(Heap), open) /\ told \in Seq(EventSet)
      /\ Heap.b = builder /\ builder.continue /\ Top(Heap).kind = "array" /\ Heap.b.error = "none"
      /\ expect = "row" /\ a.key = NoKey
      /\ (builder.pop <=> Ended(told)) /\ Measured(Heap, a, Mode(told))
  BY DEF Telling, Fits, Awaits, Awaiting, Heap
<1>3. ~Ended(told) /\ Name(told, Len(told)) = "dim_start" /\ ~builder.pop
  <2>1. ~Ended(told)
    BY DEF Slashed, Ended
  <2> QED BY <1>1, <1>2, <2>1, PendingStep
<1>4. Heap \in HeapSet /\ builder \in Builder /\ ss \in Seq(ScopeSet) /\ ss # <<>>
      /\ Top(Heap) = ss[top] /\ top \in 1..top /\ ss[top] \in ScopeSet
  BY <1>2, HeapParts, BuilderParts, TopThere DEF Sound, Scoped
<1>5. /\ a \in AccountSet /\ a.open # <<>> /\ n \in 1..n /\ a.open[n] \in FrameSet /\ top = n
  BY <1>2, InnermostOf DEF Mirrors, Nested
<1>6. OpenScopes(Heap) = Front(ss)
  BY <1>2 DEF OpenScopes
<1> HIDE DEF e
<1>7. c.scopes = ss /\ c.pop = FALSE /\ c.continue = FALSE /\ c.error = "none" /\ c \in Builder /\ c.key = builder.key
  <2>1. builder.pop = FALSE
    BY <1>3, <1>4 DEF Builder
  <2> HIDE DEF ss
  <2> QED BY <1>2, <1>4, <2>1 DEF Builder, ss
<1>8. h.nodes = Heap.nodes /\ h.b = c
  BY <1>4, Rebuilt
<1>9. /\ s.kind = ss[top].kind /\ s.node = ss[top].node /\ s \in ScopeSet
      /\ s.start = Len(Heap.nodes[Top(Heap).node].kids)
  <2> DEFINE kids == Heap.nodes[Top(Heap).node].kids
  <2>1. Len(kids) \in Nat
    <3>1. kids \in Seq(EntrySet)
      BY <1>2, TopThere DEF Node
    <3> HIDE DEF kids
    <3> QED BY <3>1
  <2> DEFINE one == ss[top]
             w == Len(kids)
  <2>2. one \in ScopeSet /\ s = [one EXCEPT !.start = w] /\ w \in Nat
    BY <1>4, <2>1
  <2> HIDE DEF one, w, s
  <2>3. s.kind = one.kind /\ s.node = one.node /\ s \in ScopeSet /\ s.start = w
    BY <2>2 DEF ScopeSet
  <2> QED BY <2>3 DEF one, w
<1> HIDE DEF s
<1>10. /\ zs \in Seq(ScopeSet) /\ Len(zs) = top
       /\ \A i \in 1..top : zs[i].kind = ss[i].kind /\ zs[i].node = ss[i].node
       /\ \A i \in 1..(top - 1) : zs[i] = ss[i]
       /\ zs[top] = s
  <2> HIDE DEF ss
  <2>1. zs \in Seq(ScopeSet) /\ Len(zs) = top /\ \A i \in 1..top : zs[i] = IF i = top THEN s ELSE ss[i]
    BY <1>4, <1>9
  <2> HIDE DEF zs, s
  <2>2. top \in 1..top /\ \A i \in 1..(top - 1) : i \in 1..top /\ i # top
    BY <1>4
  <2> HIDE DEF top
  <2> QED BY <1>9, <2>1, <2>2
<1> HIDE DEF c
<1>11. r = Ok([h EXCEPT !.b.scopes[Len(h.b.scopes)].start = Len(h.nodes[Top(h).node].kids)])
  <2>1. Top(h) = Top(Heap) /\ h.b.scopes # <<>>
    BY <1>4, <1>7, <1>8, <1>2 DEF Top
  <2> QED BY <1>2, <2>1 DEF OnArrayRowStart
<1>12. [h EXCEPT !.b.scopes[Len(h.b.scopes)].start = Len(h.nodes[Top(h).node].kids)] = g
  <2>1. Top(h) = Top(Heap)
    BY <1>2, <1>7, <1>8 DEF Top
  <2> DEFINE w == Len(Heap.nodes[Top(Heap).node].kids)
  <2>2. [h EXCEPT !.b.scopes[Len(h.b.scopes)].start = Len(h.nodes[Top(h).node].kids)] = [h EXCEPT !.b.scopes[top].start = w]
    BY <1>7, <1>8, <2>1
  <2>3. s = [ss[top] EXCEPT !.start = w]
    BY DEF s
  <2> HIDE DEF w, h
  <2>4. [h EXCEPT !.b.scopes[top].start = w] = g
    BY <1>7, <1>8, <2>3
  <2> QED BY <2>2, <2>4
<1> HIDE DEF zs, h
<1>13. d.scopes = zs /\ d.pop = FALSE /\ d.continue = FALSE /\ d.error = "none"
  BY <1>7 DEF Builder
<1> HIDE DEF d, r
<1>14. g.nodes = Heap.nodes /\ g.b = d
  <2>1. h \in [nodes : Seq(Node), blocks : Seq(Block), b : Builder]
    BY <1>4, <1>7 DEF h, c, HeapSet
  <2> QED BY <1>8, <2>1
<1>15. r.ok /\ r.h = g
  BY <1>11, <1>12 DEF Ok
<1> HIDE DEF g
<1>16. /\ b \in AccountSet /\ b.values = a.values /\ b.key = NoKey /\ Len(b.open) = n
       /\ \A i \in 1..n : b.open[i].id = a.open[i].id
       /\ \A i \in 1..n : b.open[i] = IF i = n THEN f ELSE a.open[i]
       /\ f.id = a.open[n].id /\ f.row = a.open[n].row + 1 /\ f.width = 0 /\ f.first = a.open[n].first
  <2>1. b = [a EXCEPT !.open[n].row = @ + 1, !.open[n].width = 0]
    BY <1>1, <1>3 DEF Told
  <2>2. /\ f \in FrameSet /\ f.id = a.open[n].id
        /\ f.row = a.open[n].row + 1 /\ f.width = 0 /\ f.first = a.open[n].first
    <3> DEFINE one == a.open[n]
    <3> DEFINE x == one.row + 1
    <3>1. one \in FrameSet /\ f = [one EXCEPT !.row = x, !.width = 0] /\ x \in Nat
      BY <1>5 DEF FrameSet
    <3> HIDE DEF one, f, x
    <3>2. f \in FrameSet /\ f.id = one.id /\ f.row = x /\ f.width = 0 /\ f.first = one.first
      BY <3>1 DEF FrameSet
    <3> QED BY <3>2 DEF one, x
  <2> HIDE DEF a
  <2>3. [a EXCEPT !.open[n].row = @ + 1, !.open[n].width = 0] = [a EXCEPT !.open[n] = f]
    <3> DEFINE f1 == [a.open[n] EXCEPT !.row = @ + 1]
               a1 == [a EXCEPT !.open[n] = f1]
    <3>1. a1.open = [a.open EXCEPT ![n] = f1] /\ a1.open[n] = f1
      BY <1>5, AccountParts DEF AccountSet
    <3>2. [a EXCEPT !.open[n].row = @ + 1, !.open[n].width = 0] = [a1 EXCEPT !.open[n].width = 0]
      OBVIOUS
    <3>3. [a1 EXCEPT !.open[n].width = 0] = [a1 EXCEPT !.open[n] = f]
      BY <3>1
    <3> HIDE DEF f1, f
    <3>4. [a1 EXCEPT !.open[n] = f] = [a EXCEPT !.open[n] = f]
      BY <3>1, <1>5
    <3> QED BY <3>2, <3>3, <3>4
  <2> HIDE DEF f, b
  <2>4. LET q == [a EXCEPT !.open[n] = f]
        IN /\ q \in AccountSet /\ q.values = a.values /\ q.key = a.key
           /\ Len(q.open) = n
           /\ \A i \in 1..n : q.open[i] = IF i = n THEN f ELSE a.open[i]
    BY <1>5, <2>2, FrameReplaced
  <2> QED BY <1>2, <2>1, <2>2, <2>3, <2>4
<1> HIDE DEF b, a, n, ss
<1>17. Mirrors(g, b)
  <2>1. /\ Len(g.nodes) = Len(Heap.nodes) /\ Len(g.b.scopes) = Len(Heap.b.scopes) /\ Heap.b.scopes = ss
        /\ Len(b.open) = Len(a.open)
    BY <1>2, <1>10, <1>13, <1>14, <1>16 DEF ss, n
  <2>2. Sound(Heap) /\ Mirrors(Heap, a) /\ b \in AccountSet
    BY <1>2, <1>16
  <2>3. b.values = a.values /\ \A i \in 1..Len(a.open) : b.open[i].id = a.open[i].id
    BY <1>16 DEF n
  <2>4. \A m \in 1..Len(Heap.nodes) : /\ g.nodes[m].kind = Heap.nodes[m].kind /\ g.nodes[m].value = Heap.nodes[m].value
                                      /\ g.nodes[m].kids = Heap.nodes[m].kids
    BY <1>14
  <2>5. \A i \in 1..Len(Heap.b.scopes) : /\ g.b.scopes[i].node = Heap.b.scopes[i].node
                                        /\ g.b.scopes[i].kind = Heap.b.scopes[i].kind
    BY <1>10, <1>13, <1>14, <2>1
  <2> QED BY ONLY <2>1, <2>2, <2>3, <2>4, <2>5, MirrorsSame
<1>22. Measured(g, b, "row")
  <2>1. Measured(Heap, a, "slashed")
    BY <1>2, <1>3 DEF Mode
  <2>2. g.b.scopes = zs /\ Heap.b.scopes = ss /\ top = n /\ Len(a.open) = n
    BY <1>2, <1>5, <1>13, <1>14 DEF ss, n
  <2>3. /\ \A i \in 1..(Len(a.open) - 1) : g.b.scopes[i] = Heap.b.scopes[i]
        /\ g.b.scopes[Len(a.open)].start = Len(Heap.nodes[Top(Heap).node].kids)
    BY <1>9, <1>10, <2>2
  <2>4. /\ f.id = a.open[Len(a.open)].id /\ f.row = a.open[Len(a.open)].row + 1 /\ f.width = 0
        /\ f.first = a.open[Len(a.open)].first /\ Len(b.open) = Len(a.open)
        /\ \A i \in 1..Len(a.open) : b.open[i] = IF i = Len(a.open) THEN f ELSE a.open[i]
    BY <1>16, <2>2
  <2> HIDE DEF f
  <2> QED BY <1>2, <1>14, <1>16, <2>1, <2>3, <2>4, MeasuredTurned
<1>18. Lined(zs, o) /\ Last(zs).kind = "array"
  <2>1. Last(ss).kind = "array"
    BY <1>2 DEF Top, ss
  <2> QED BY <1>2, <1>4, <1>6, <1>10, <2>1, LinedBack
<1>19. Awaiting(g, g.b.scopes, b, "item")
  BY <1>16 DEF Awaiting
<1>20. b = Told(Continued(told, e.ev), Name(told, Len(told)), e, "none")
  BY <1>3 DEF b, a, Continued
<1> HIDE DEF o
<1>21. Fits(g, Append(told, e), o, "item")
  BY <1>1, <1>2, <1>13, <1>14, <1>17, <1>18, <1>19, <1>20, <1>22, FitsAfter
<1> QED BY <1>15, <1>21 DEF Answers, r, e, o

\* A row begins.
LEMMA RowAnswered ==
    ASSUME Telling, Stream!Say(Stream!Mark("row_start")), NEW unit \in Units, NEW fault, expect = "row" \/ RowHasRoom
    PROVE  Answers(OnArrayRowStart(unit, fault), Event("row_start"))
<1> DEFINE o == Append(open, Plain)
<1>1. /\ Valuable(OpenScopes(Heap)) \/ expect = "row"
      /\ open' = o /\ force' = Plain /\ expect' = "item"
  BY PlaceOf, SayCases
<1>2. CASE Slashed(told)
  BY <1>1, <1>2, FurtherRowAnswered
<1>3. CASE ~Slashed(told)
  <2>1. Valuable(OpenScopes(Heap)) /\ ~builder.continue
    BY <1>1, <1>3, PlaceOf DEF Telling, Fits, Heap
  <2> DEFINE kind == "array"
             ev == "row_start"
  <2>2. o = Append(open, IF kind = "struct" THEN "struct" ELSE Plain) /\ expect' = IF kind = "struct" THEN "key" ELSE "item"
    BY <1>1
  <2>3. ev = "row_start" /\ kind = "array"
    OBVIOUS
  <2>5. RowHasRoom
    BY <1>3, PlaceOf
  <2> HIDE DEF o, kind, ev
  <2>4. Answers(Opened(DeferredPop(Heap), kind, unit, fault), Event(ev))
    BY <1>1, <1>3, <2>1, <2>2, <2>3, <2>5, OpenAnswered
  <2> QED BY <2>1, <2>3, <2>4 DEF OnArrayRowStart
<1> QED BY <1>2, <1>3

\* What is recorded of a row's width is in no place a mirror shows.
LEMMA RecordedParts ==
    ASSUME NEW h, Sound(h)
    PROVE  LET g == RowRecorded(h)
           IN /\ g \in HeapSet /\ g.b = h.b /\ Len(g.nodes) = Len(h.nodes)
              /\ \A m \in 1..Len(h.nodes) :
                    /\ g.nodes[m].kind = h.nodes[m].kind /\ g.nodes[m].value = h.nodes[m].value
                    /\ g.nodes[m].kids = h.nodes[m].kids /\ g.nodes[m].rows = h.nodes[m].rows
                    /\ m # Top(h).node => g.nodes[m] = h.nodes[m]
              /\ Top(h).kind = "array" =>
                    g.nodes[Top(h).node].dims = RecordedDims(h.nodes[Top(h).node], Top(h).start)
<1> DEFINE g == RowRecorded(h)
           id == Top(h).node
           a == h.nodes[id]
           rows == a.rows
           width == Len(a.kids) - Top(h).start
           ds == [a.dims EXCEPT ![rows] = width]
           n == [a EXCEPT !.dims = ds]
           k == [h EXCEPT !.nodes[id] = n]
<1>1. h \in HeapSet /\ id \in DOMAIN h.nodes /\ a \in Node /\ DOMAIN h.nodes = 1..Len(h.nodes) /\ g \in HeapSet
  BY TopThere, HeapParts, RowRecordedSound DEF Sound
<1>2. \/ g = h /\ (Top(h).kind = "array" => a.dims = OneRow \/ rows > RecordedRows)
      \/ g = [h EXCEPT !.nodes[id].dims[rows] = width] /\ ~(a.dims = OneRow \/ rows > RecordedRows)
  <2>1. h.b.scopes # <<>>
    BY DEF Sound, Scoped
  <2>2. CASE Top(h).kind # "array" \/ a.dims = OneRow \/ rows > RecordedRows
    BY <2>2 DEF RowRecorded
  <2>3. CASE ~(Top(h).kind # "array" \/ a.dims = OneRow \/ rows > RecordedRows)
    BY <2>1, <2>3 DEF RowRecorded
  <2> QED BY <2>2, <2>3
<1>3. [h EXCEPT !.nodes[id].dims[rows] = width] = k
  OBVIOUS
<1> HIDE DEF g
<1>4. n.kind = a.kind /\ n.value = a.value /\ n.kids = a.kids /\ n.rows = a.rows /\ n.dims = ds
  <2> HIDE DEF a, ds
  <2> QED BY <1>1 DEF Node
<1> DEFINE ns == [h.nodes EXCEPT ![id] = n]
<1>5. k.nodes = ns /\ k.b = h.b
  <2> HIDE DEF n, id
  <2> QED BY <1>1 DEF HeapSet
<1>9. /\ a.dims = OneRow \/ rows > RecordedRows => RecordedDims(a, Top(h).start) = a.dims
      /\ ~(a.dims = OneRow \/ rows > RecordedRows) => RecordedDims(a, Top(h).start) = ds
  BY DEF RecordedDims
<1>10. a = h.nodes[id] /\ id = Top(h).node
  OBVIOUS
<1> HIDE DEF n, id, k, a, rows, width, ds
<1>6. Len(ns) = Len(h.nodes) /\ \A m \in 1..Len(h.nodes) : ns[m] = IF m = id THEN n ELSE h.nodes[m]
  <2>1. h.nodes \in Seq(Node)
    BY <1>1, HeapParts
  <2> QED BY <1>1, <2>1
<1> HIDE DEF ns
<1>7. CASE g = h /\ (Top(h).kind = "array" => a.dims = OneRow \/ rows > RecordedRows)
  BY <1>1, <1>7, <1>9, <1>10 DEF g
<1>8. CASE g = k /\ ~(a.dims = OneRow \/ rows > RecordedRows)
  <2>1. /\ Len(g.nodes) = Len(h.nodes) /\ g.b = h.b
        /\ \A m \in 1..Len(h.nodes) : g.nodes[m] = IF m = id THEN n ELSE h.nodes[m]
    BY <1>5, <1>6, <1>8
  <2>2. g.nodes[id].dims = RecordedDims(a, Top(h).start)
    BY <1>1, <1>4, <1>8, <1>9, <2>1
  <2> QED BY <1>1, <1>4, <1>10, <2>1, <2>2 DEF g
<1> QED BY <1>2, <1>3, <1>7, <1>8

\* A full row is recorded.
LEMMA MeasuredEnded ==
    ASSUME NEW h, Sound(h), NEW a, Mirrors(h, a), Measured(h, a, "row"), Top(h).kind = "array", IsFull(a)
    PROVE  Measured(RowRecorded(h), a, "ended")
<1> DEFINE n == Len(a.open)
           id == a.open[n].id
           at == h.nodes[id]
           g == RowRecorded(h)
           new == g.nodes[id]
           start == h.b.scopes[n].start
<1>1. /\ a \in AccountSet /\ n \in 1..n /\ n \in Nat /\ id = Top(h).node /\ id \in 1..Len(h.nodes)
      /\ InGrid(h, a, n, "row") /\ at.kind = "array" /\ at \in Node /\ Len(at.kids) = Len(Entries(a, id))
      /\ Top(h) = h.b.scopes[n]
  BY GridTop
<1>2. /\ g.b = h.b /\ Len(g.nodes) = Len(h.nodes)
      /\ \A m \in 1..Len(h.nodes) :
            /\ g.nodes[m].kind = h.nodes[m].kind /\ g.nodes[m].rows = h.nodes[m].rows
            /\ m # Top(h).node => g.nodes[m] = h.nodes[m]
      /\ g.nodes[Top(h).node].dims = RecordedDims(h.nodes[Top(h).node], Top(h).start)
  BY RecordedParts
<1>3. a.open[n].first \in {-1, a.open[n].width}
  BY DEF IsFull, Last
<1> HIDE DEF g
<1>4. InGrid(g, a, n, "ended")
  <2>1. /\ a \in AccountSet /\ n \in 1..Len(a.open) /\ InGrid(h, a, n, "row")
        /\ a.open[n].first \in {-1, a.open[n].width} /\ at \in Node /\ at = h.nodes[a.open[n].id]
        /\ Len(at.kids) = Len(Entries(a, a.open[n].id)) /\ g.b.scopes[n] = h.b.scopes[n]
        /\ new = g.nodes[a.open[n].id] /\ new.kind = at.kind /\ new.rows = at.rows
        /\ new.dims = RecordedDims(at, h.b.scopes[n].start)
    BY <1>1, <1>2, <1>3
  <2> HIDE DEF at, new, n
  <2> QED BY ONLY <2>1, GridEnded
<1>5. TopAlone(h, a, g, a)
  BY <1>1, <1>2 DEF TopAlone
<1> QED BY <1>4, <1>5, MeasuredTop DEF g

\* A row ends, and its array perhaps with it.
LEMMA RowEndAnswered ==
    ASSUME Telling, Stream!Say(Stream!Mark("row_end")), RowIsFull
    PROVE  Answers(OnArrayRowEnd, Event("row_end"))
<1> DEFINE e == Event("row_end")
           u == Append(told, e)
           h == DeferredPop(Heap)
           a == Continued(told, e.ev)
           ss == h.b.scopes
           k == RowRecorded(h)
           c == [k.b EXCEPT !.pop = TRUE]
           g == [k EXCEPT !.b = c]
           r == OnArrayRowEnd
           os == OpenScopes(Heap)
           y == expect'
           o == Front(open)
<1>1. e \in EventSet /\ e.ev = "row_end"
  BY EventParts DEF Marks
<1>2. Rested(os) = "item" /\ open' = o /\ ~Slashed(told)
  <2>1. Rested(os) = "item" /\ open' = o
    BY PlaceOf, SayCases
  <2> QED BY <2>1, PlaceOf
<1> HIDE DEF e
<1>3. /\ Sound(h) /\ h.nodes = Heap.nodes /\ Mirrors(h, a) /\ Lined(ss, open) /\ Top(h) = Last(ss)
      /\ ~h.b.pop /\ ~h.b.continue /\ h.b.error = "none"
      /\ a \in AccountSet /\ a.open # <<>> /\ told \in Seq(EventSet) /\ ss = os
      /\ Last(ss).kind = "array" /\ a.key = NoKey /\ Measured(h, a, "row")
  BY <1>1, <1>2, Closed
<1>18. IsFull(a)
  BY <1>1, <1>3, RoomFound
<1>19. Measured(k, a, "ended")
  BY <1>3, <1>18, MeasuredEnded
<1>4. force' = Plain /\ y \in {"row_done", Following(Last(Front(os)).kind)}
  BY <1>3, PlaceOf, SayCases
<1>5. r.ok /\ r.h = g
  BY DEF OnArrayRowEnd, Ok
<1> HIDE DEF h, a, r, y, o, os
<1>6. k \in HeapSet /\ k.b = h.b /\ h.b \in Builder
  BY <1>3, RecordedParts, HeapParts DEF Sound
<1>7. Len(k.nodes) = Len(h.nodes) /\ \A m \in 1..Len(h.nodes) :
         k.nodes[m].kind = h.nodes[m].kind /\ k.nodes[m].value = h.nodes[m].value /\ k.nodes[m].kids = h.nodes[m].kids
  BY <1>3, RecordedParts
<1> HIDE DEF k
<1>8. c.scopes = ss /\ c.pop = TRUE /\ c.continue = h.b.continue /\ c.error = h.b.error
  BY <1>6 DEF Builder
<1> HIDE DEF c
<1>9. g.nodes = k.nodes /\ g.b = c
  BY <1>6, Rebuilt
<1> HIDE DEF g
<1>10. Mirrors(g, a)
  <2>1. Len(g.nodes) = Len(h.nodes) /\ Len(g.b.scopes) = Len(h.b.scopes) /\ g.b.scopes = h.b.scopes
    BY <1>7, <1>8, <1>9
  <2> QED BY <1>3, <1>7, <1>9, <2>1, MirrorsSame
<1>20. Measured(g, a, "ended")
  BY <1>6, <1>8, <1>9, <1>19, MeasuredSame
<1>11. Pending(u) = a /\ Ended(u) /\ ~Slashed(u) /\ u \in Seq(EventSet)
  BY <1>1, <1>3, PendingStep DEF a
<1>21. Mode(u) = "ended" /\ y # "octets"
  BY <1>4, <1>11 DEF Mode, Following
<1>12. OpenScopes(g) = Front(ss)
  BY <1>8, <1>9 DEF OpenScopes
<1>13. Top(g).kind = "array"
  BY <1>3, <1>8, <1>9 DEF Top
<1>14. Lined(Front(ss), o)
  <2>1. open # <<>>
    BY <1>3, LinedTop
  <2> QED BY <1>3, <2>1, LinedFront DEF o
<1>15. Awaits(Front(ss), u, o, y)
  BY <1>3, <1>4, <1>11 DEF Awaits, Following
<1>16. Awaiting(g, Front(ss), a, y)
  BY <1>3, <1>4 DEF Awaiting, Following
<1> HIDE DEF u, ss
<1>17. Fits(g, u, o, y)
  BY <1>3, <1>8, <1>9, <1>10, <1>11, <1>12, <1>13, <1>14, <1>15, <1>16, <1>20, <1>21 DEF Fits
<1> QED BY <1>2, <1>4, <1>5, <1>17 DEF Answers, r, e, u, y

\* "/": the array whose row ended goes on.
LEMMA SlashAnswered ==
    ASSUME Telling, Stream!Say(Stream!Mark("dim_start")), NEW fault
    PROVE  Answers(OnArrayDimStart(fault), Event("dim_start"))
<1> DEFINE e == Event("dim_start")
           u == Append(told, e)
           c == [Heap.b EXCEPT !.pop = FALSE, !.continue = TRUE]
           h == [Heap EXCEPT !.b.pop = FALSE, !.b.continue = TRUE]
           id == Top(h).node
           at == h.nodes[id]
           unrecorded == [k \in 1..RecordedRows |-> IF k = 1 THEN Len(at.kids) ELSE 0]
           matrix == IF at.dims = OneRow THEN unrecorded ELSE at.dims
           m1 == [at EXCEPT !.dims = matrix]
           n1 == [m1 EXCEPT !.rows = @ + 1]
           g == [h EXCEPT !.nodes[id].dims = matrix, !.nodes[id].rows = @ + 1]
           ns == [h.nodes EXCEPT ![id] = n1]
           p == Pending(told)
           n == Len(p.open)
           f == [p.open[n] EXCEPT !.first = p.open[n].width]
           b == Widened(p)
           r == OnArrayDimStart(fault)
           ss == Heap.b.scopes
<1>1. e \in EventSet /\ e.ev = "dim_start"
  BY EventParts DEF Marks
<1> HIDE DEF e
<1>2. /\ Sound(Heap) /\ Mirrors(Heap, p) /\ Lined(OpenScopes(Heap), open) /\ told \in Seq(EventSet)
      /\ Heap.b.error = "none" /\ (Ended(told) => Top(Heap).kind = "array" /\ Heap.b.pop)
      /\ Awaiting(Heap, OpenScopes(Heap), p, expect) /\ Measured(Heap, p, Mode(told))
  BY DEF Telling, Fits
<1>3. /\ expect = "row_done" /\ open' = open /\ expect' = "row" /\ force' = Plain
      /\ Ended(told) /\ ~Slashed(told)
  <2>1. expect = "row_done" /\ open' = open /\ expect' = "row" /\ force' = Plain
    BY PlaceOf, SayCases
  <2> QED BY <2>1, PlaceOf
<1>4. /\ Heap \in HeapSet /\ Heap.b \in Builder /\ ss # <<>> /\ id \in DOMAIN Heap.nodes /\ at \in Node
      /\ h.nodes = Heap.nodes /\ h.b = c /\ Top(h) = Top(Heap) /\ c.scopes = ss
      /\ c.pop = FALSE /\ c.continue = TRUE /\ c.error = Heap.b.error
  <2>1. Heap \in HeapSet /\ Heap.b \in Builder /\ ss # <<>>
    BY <1>2, HeapParts DEF Sound, Scoped
  <2>2. h = [Heap EXCEPT !.b = c]
    BY <2>1 DEF HeapSet
  <2>3. c.scopes = ss /\ c.pop = FALSE /\ c.continue = TRUE /\ c.error = Heap.b.error
    BY <2>1 DEF Builder
  <2> HIDE DEF c, h
  <2>4. h.nodes = Heap.nodes /\ h.b = c
    BY <2>1, <2>2, Rebuilt
  <2>5. Top(h) = Top(Heap)
    BY <2>3, <2>4 DEF Top
  <2>6. id \in DOMAIN Heap.nodes /\ at \in Node
    BY <1>2, <2>4, <2>5, TopThere
  <2> QED BY <2>1, <2>3, <2>4, <2>5, <2>6
<1> HIDE DEF c
<1>5. /\ r.ok => r.h = g
      /\ ~r.ok => r.h = h
  <2>1. h.b.scopes # <<>> /\ Top(h).kind = "array"
    BY <1>2, <1>3, <1>4
  <2>2. r = IF at.dims = OneRow /\ fault = "dims" THEN Failed(h) ELSE Ok(g)
    BY <2>1 DEF OnArrayDimStart
  <2> HIDE DEF h, g, r, at
  <2> QED BY <2>2 DEF Failed, Ok
<1>21. matrix = MatrixDims(at)
  BY DEF MatrixDims
<1> HIDE DEF r, h, matrix
<1>6. /\ n1.kind = at.kind /\ n1.value = at.value /\ n1.kids = at.kids
      /\ n1.rows = at.rows + 1 /\ n1.dims = matrix
  <2>1. /\ m1.kind = at.kind /\ m1.value = at.value /\ m1.kids = at.kids /\ m1.rows = at.rows /\ m1.dims = matrix
        /\ m1 \in [kind : NodeKinds, kids : Seq(EntrySet),
          dims : {matrix}, rows : Nat, unit : Int, value : Seq(Chunks), live : BOOLEAN]
    <3> HIDE DEF at
    <3> QED BY <1>4 DEF Node, NodeKinds
  <2> HIDE DEF m1, at
  <2> QED BY <2>1
<1>7. /\ h.nodes \in Seq(Node) /\ DOMAIN h.nodes = 1..Len(h.nodes) /\ id \in DOMAIN h.nodes
  BY <1>4, HeapParts
<1>8. g.nodes = ns /\ g.b = h.b
  <2> DEFINE h1 == [h EXCEPT !.nodes = [h.nodes EXCEPT ![id] = m1]]
  <2>1. h \in [nodes : Seq(Node), blocks : Seq(Block), b : {c}]
    <3>1. h = [Heap EXCEPT !.b = c]
      BY <1>4 DEF h, c, HeapSet
    <3> HIDE DEF h, c
    <3> QED BY <1>4, <3>1 DEF HeapSet
  <2>2. h1.nodes = [h.nodes EXCEPT ![id] = m1] /\ h1.b = h.b /\ h1.nodes[id] = m1
    <3> HIDE DEF m1, id
    <3> QED BY <1>7, <2>1
  <2>3. g = [h1 EXCEPT !.nodes = [h1.nodes EXCEPT ![id] = n1]]
    <3>1. g = [h1 EXCEPT !.nodes[id].rows = @ + 1]
      OBVIOUS
    <3> HIDE DEF h1, m1
    <3> QED BY <2>2, <3>1
  <2>4. [h1.nodes EXCEPT ![id] = n1] = ns
    <3> HIDE DEF n1, h1, m1, id
    <3> QED BY <1>7, <2>2
  <2> DEFINE ms == [h1.nodes EXCEPT ![id] = n1]
  <2>5. [h1 EXCEPT !.nodes = ms].nodes = ms /\ [h1 EXCEPT !.nodes = ms].b = h1.b
    <3>1. h1 = [h EXCEPT !.nodes = [h.nodes EXCEPT ![id] = m1]]
      OBVIOUS
    <3>2. h1 \in [nodes : {h1.nodes}, blocks : Seq(Block), b : {c}]
      <4> HIDE DEF m1, id
      <4> QED BY <2>1, <2>2
    <3> HIDE DEF h1, ms
    <3> QED BY <3>2
  <2> QED BY <2>2, <2>3, <2>4, <2>5
<1> HIDE DEF g, n1
<1>9. Len(ns) = Len(h.nodes) /\ \A m \in 1..Len(h.nodes) : ns[m] = IF m = id THEN n1 ELSE h.nodes[m]
  <2> HIDE DEF id
  <2> QED BY <1>7
<1> HIDE DEF ns, id
<1>10. /\ Len(g.nodes) = Len(Heap.nodes)
       /\ \A m \in 1..Len(Heap.nodes) :
             /\ g.nodes[m].kind = Heap.nodes[m].kind /\ g.nodes[m].value = Heap.nodes[m].value
             /\ g.nodes[m].kids = Heap.nodes[m].kids
  <2>1. h.nodes = Heap.nodes
    BY <1>4
  <2> QED BY <1>6, <1>8, <1>9, <2>1
<1>11. p \in AccountSet /\ p.open # <<>> /\ n \in 1..n /\ p.open[n] \in FrameSet
  BY <1>2, InnermostOf DEF Mirrors
<1>12. /\ b \in AccountSet /\ b.values = p.values /\ b.key = p.key /\ Len(b.open) = n
       /\ \A i \in 1..n : b.open[i].id = p.open[i].id
  <2>1. f \in FrameSet /\ f.id = p.open[n].id
    <3> DEFINE one == p.open[n]
               x == one.width
    <3>1. one \in FrameSet /\ f = [one EXCEPT !.first = x] /\ x \in Int
      BY <1>11 DEF FrameSet
    <3> HIDE DEF one, f, x
    <3>2. f \in FrameSet /\ f.id = one.id
      BY <3>1 DEF FrameSet
    <3> QED BY <3>2 DEF one
  <2> HIDE DEF p
  <2>2. b = [p EXCEPT !.open[n] = f]
    BY DEF Widened
  <2> HIDE DEF b, f
  <2>3. LET q == [p EXCEPT !.open[n] = f]
        IN /\ q \in AccountSet /\ q.values = p.values /\ q.key = p.key
           /\ Len(q.open) = n
           /\ \A i \in 1..n : q.open[i] = IF i = n THEN f ELSE p.open[i]
    BY <1>11, <2>1, FrameReplaced
  <2> QED BY <2>1, <2>2, <2>3
<1> HIDE DEF b, f, n
<1>13. Mirrors(g, b)
  <2>1. Len(g.b.scopes) = Len(Heap.b.scopes) /\ g.b.scopes = Heap.b.scopes /\ Len(b.open) = Len(p.open)
    BY <1>4, <1>8, <1>12 DEF n
  <2> HIDE DEF p
  <2> QED BY <1>2, <1>10, <1>12, <2>1, MirrorsSame DEF n
<1>22. Measured(g, b, "slashed")
  <2>1. Measured(Heap, p, "ended") /\ Top(Heap).kind = "array"
    BY <1>2, <1>3 DEF Mode
  <2>2. /\ at = Heap.nodes[Top(Heap).node] /\ g.b.scopes = Heap.b.scopes
        /\ Len(g.nodes) = Len(Heap.nodes)
        /\ \A m \in 1..Len(Heap.nodes) : g.nodes[m] = IF m = Top(Heap).node THEN n1 ELSE Heap.nodes[m]
    BY <1>4, <1>8, <1>9 DEF id
  <2>3. n1.kind = at.kind /\ n1.rows = at.rows + 1 /\ n1.dims = MatrixDims(at)
    BY <1>6, <1>21
  <2> HIDE DEF at, p
  <2> QED BY <1>2, <2>1, <2>2, <2>3, MeasuredWidened DEF b
<1>14. Pending(u) = b /\ ~Ended(u) /\ Slashed(u) /\ u \in Seq(EventSet)
  <2>1. Continued(told, e.ev) = b
    BY <1>1, <1>3 DEF Continued, b
  <2>2. Pending(u) = Told(b, Name(told, Len(told)), e, "none") /\ ~Ended(u) /\ Slashed(u) /\ u \in Seq(EventSet)
    BY <1>1, <1>2, <2>1, PendingStep
  <2>3. Told(b, Name(told, Len(told)), e, "none") = b
    BY <1>1 DEF Told
  <2> QED BY <2>2, <2>3
<1>15. OpenScopes(g) = Front(ss) /\ OpenScopes(Heap) = Front(ss) /\ Top(g).kind = "array"
  BY <1>2, <1>3, <1>4, <1>8 DEF OpenScopes, Top
<1>16. Awaits(Front(ss), u, open, "row")
  BY <1>14 DEF Awaits
<1>17. Awaiting(g, Front(ss), b, "row")
  BY <1>2, <1>3, <1>12 DEF Awaiting
<1>23. Mode(u) = "slashed"
  BY <1>14 DEF Mode
<1>18. g.b.pop = FALSE /\ g.b.continue = TRUE /\ g.b.error = "none"
  BY <1>2, <1>4, <1>8
<1> HIDE DEF u, ss, p
<1>19. Fits(g, u, open, "row")
  BY <1>2, <1>13, <1>14, <1>15, <1>16, <1>17, <1>18, <1>22, <1>23 DEF Fits
<1>20. ASSUME ~r.ok PROVE Kept(Heap, r.h) /\ r.h.b.error \in {"none", "value_out_of_range"}
  <2>1. r.h.nodes = Heap.nodes /\ r.h.b.error = "none"
    BY <1>2, <1>4, <1>5, <1>20
  <2> QED BY <2>1, Unchanged
<1> QED BY <1>3, <1>5, <1>19, <1>20 DEF Answers, r, e, u

-----------------------------------------------------------------------------
(* Octet streams.                                                          *)

\* Other chunks in an account.
LEMMA OctetsReplaced ==
    ASSUME NEW a \in AccountSet, NEW cs \in Seq(Chunks)
    PROVE  LET b == [a EXCEPT !.octets = cs]
           IN b \in AccountSet /\ b.octets = cs /\ b.key = a.key /\ b.values = a.values /\ b.open = a.open
BY DEF AccountSet

\* Other chunks in the builder.
LEMMA ChunksReplaced ==
    ASSUME NEW b \in Builder, NEW octets \in BOOLEAN, NEW cs \in Seq(Chunks)
    PROVE  LET c == [b EXCEPT !.octets = octets, !.chunks = cs]
           IN /\ c.scopes = b.scopes /\ c.pop = b.pop /\ c.continue = b.continue /\ c.error = b.error /\ c.key = b.key
              /\ c.chunks = cs
BY DEF Builder

\* The same tree and the same scopes, whatever is gathered.
LEMMA MirrorsGathered ==
    ASSUME NEW h, Sound(h), NEW a, Mirrors(h, a), NEW g, g.nodes = h.nodes, g.b.scopes = h.b.scopes,
           NEW b \in AccountSet, b.values = a.values, b.open = a.open
    PROVE  Mirrors(g, b)
<1>1. Len(g.nodes) = Len(h.nodes) /\ Len(g.b.scopes) = Len(h.b.scopes) /\ Len(b.open) = Len(a.open)
  OBVIOUS
<1> QED BY <1>1, MirrorsSame

\* An octet stream begins.
LEMMA OctetsStartAnswered ==
    ASSUME Telling, Stream!Say(Stream!Mark("octets_start")), RowHasRoom
    PROVE  Answers(OnOctetStreamStart, Event("octets_start"))
<1> DEFINE e == Event("octets_start")
           h == DeferredPop(Heap)
           a == Continued(told, e.ev)
           ss == h.b.scopes
           none == <<>>
           c == [h.b EXCEPT !.octets = TRUE, !.chunks = none]
           g == [h EXCEPT !.b = c]
           r == OnOctetStreamStart
           b == Told(a, Name(told, Len(told)), e, "none")
           os == OpenScopes(Heap)
<1>1. e \in EventSet /\ e.ev = "octets_start" /\ none \in Seq(Chunks)
  BY EventParts DEF Marks
<1>2. Valuable(os) /\ open' = open /\ force' = Plain /\ expect' = "octets" /\ ~Slashed(told)
  <2>1. Valuable(os) /\ open' = open /\ force' = Plain /\ expect' = "octets"
    BY PlaceOf, SayCases
  <2> QED BY <2>1, PlaceOf DEF Valuable
<1> HIDE DEF e
<1>3. /\ Sound(h) /\ h.nodes = Heap.nodes /\ Mirrors(h, a) /\ Lined(ss, open) /\ Top(h) = Last(ss)
      /\ ~h.b.pop /\ ~h.b.continue /\ h.b.error = "none"
      /\ a \in AccountSet /\ told \in Seq(EventSet) /\ ss = os
      /\ Valuable(ss) => a.key = KeyIn(Top(h), h.b.key)
      /\ Measured(h, a, "row")
      /\ Top(h).kind # "array" => a.key \in ReadableKeys
  BY <1>1, <1>2, Closed
<1>13. HasRoom(a)
  BY <1>1, <1>3, RoomFound
<1>4. b = [a EXCEPT !.octets = none]
  BY <1>1 DEF Told
<1>5. r.ok /\ r.h = g
  <2>1. r = Ok([h EXCEPT !.b.octets = TRUE, !.b.chunks = none])
    BY DEF OnOctetStreamStart
  <2> HIDE DEF h, none
  <2>2. h \in HeapSet
    BY <1>3 DEF Sound
  <2>3. [h EXCEPT !.b.octets = TRUE, !.b.chunks = none] = g
    BY <2>2 DEF HeapSet
  <2> HIDE DEF g, r
  <2> QED BY <2>1, <2>3 DEF Ok
<1> HIDE DEF h, a, b, r, none, os
<1>6. h \in HeapSet /\ h.b \in Builder
  BY <1>3, HeapParts DEF Sound
<1>7. c.scopes = ss /\ c.pop = h.b.pop /\ c.continue = h.b.continue /\ c.error = h.b.error /\ c.key = h.b.key /\ c.chunks = none
  BY <1>1, <1>6, ChunksReplaced
<1> HIDE DEF c
<1>8. g.nodes = h.nodes /\ g.b = c
  BY <1>6, Rebuilt
<1> HIDE DEF g
<1>9. b \in AccountSet /\ b.octets = none /\ b.key = a.key /\ b.values = a.values /\ b.open = a.open
  BY <1>1, <1>3, <1>4, OctetsReplaced
<1>10. Mirrors(g, b)
  BY <1>3, <1>7, <1>8, <1>9, MirrorsGathered
<1>14. Measured(g, b, "row") /\ HasRoom(b)
  <2>1. Measured(g, b, "row")
    BY <1>3, <1>7, <1>8, <1>9, MeasuredSame
  <2> QED BY <1>9, <1>13, <2>1 DEF HasRoom
<1> HIDE DEF ss
<1>11. Awaiting(g, g.b.scopes, b, "octets")
  BY <1>2, <1>3, <1>7, <1>8, <1>9 DEF Awaiting, KeyIn
<1>12. Fits(g, Append(told, e), open, "octets")
  BY <1>1, <1>3, <1>7, <1>8, <1>10, <1>11, <1>14, FitsAfter DEF b, a, ss
<1> QED BY <1>2, <1>5, <1>12 DEF Answers, r, e

\* While a stream of octets goes on no array waits to be closed.
LEMMA Gathering ==
    ASSUME Telling, expect = "octets"
    PROVE  LET a == Pending(told)
               ss == Heap.b.scopes
           IN /\ Sound(Heap) /\ Mirrors(Heap, a) /\ Lined(ss, open) /\ ~Ended(told) /\ ~Slashed(told)
              /\ ~Heap.b.pop /\ ~Heap.b.continue /\ Heap.b.error = "none" /\ a \in AccountSet /\ a.open # <<>>
              /\ told \in Seq(EventSet) /\ a.octets = Heap.b.chunks /\ a.key = KeyIn(Top(Heap), Heap.b.key)
              /\ Heap \in HeapSet /\ Heap.b \in Builder /\ Heap.b = builder /\ OpenScopes(Heap) = ss
              /\ \A ev : Continued(told, ev) = a
              /\ Measured(Heap, a, "row") /\ HasRoom(a)
              /\ Top(Heap).kind # "array" => a.key \in ReadableKeys
<1> DEFINE a == Pending(told)
           ss == Heap.b.scopes
<1>1. /\ Sound(Heap) /\ Mirrors(Heap, a) /\ Lined(OpenScopes(Heap), open) /\ ~Ended(told) /\ ~Slashed(told)
      /\ ~Heap.b.pop /\ ~Heap.b.continue /\ Heap.b.error = "none" /\ told \in Seq(EventSet)
      /\ Awaiting(Heap, OpenScopes(Heap), a, "octets")
      /\ Measured(Heap, a, Mode(told)) /\ HasRoom(a)
  BY DEF Telling, Fits, Awaits
<1>7. Mode(told) = "row"
  BY <1>1 DEF Mode
<1>2. OpenScopes(Heap) = ss
  BY <1>1 DEF OpenScopes
<1>3. a \in AccountSet /\ a.open # <<>> /\ Heap \in HeapSet /\ Heap.b \in Builder
  BY <1>1, InnermostOf, HeapParts DEF Mirrors, Sound
<1>4. /\ a.octets = Heap.b.chunks /\ a.key = KeyIn(Top(Heap), Heap.b.key)
      /\ Top(Heap).kind # "array" => a.key \in ReadableKeys
  BY <1>1, <1>2 DEF Awaiting, KeyIn, Top
<1>5. \A ev : Continued(told, ev) = a
  BY <1>1 DEF Continued
<1>6. Heap.b = builder
  BY DEF Heap
<1> QED BY <1>1, <1>2, <1>3, <1>4, <1>5, <1>6, <1>7

\* Some octets.
LEMMA OctetsAnswered ==
    ASSUME Telling, Stream!Say(Stream!Mark("octets")), NEW chunk \in Chunks, NEW fault
    PROVE  Answers(OnOctetChunk(chunk, fault), [ev |-> "octets", chunk |-> chunk])
<1> DEFINE e == [ev |-> "octets", chunk |-> chunk]
           h == Heap
           a == Pending(told)
           ss == h.b.scopes
           cs == Append(h.b.chunks, chunk)
           c == [h.b EXCEPT !.chunks = cs]
           g == [h EXCEPT !.b = c]
           r == OnOctetChunk(chunk, fault)
           b == Told(a, Name(told, Len(told)), e, "none")
<1>1. e \in EventSet /\ e.ev = "octets" /\ e.chunk = chunk
  BY EventParts
<1>2. expect = "octets" /\ open' = open /\ force' = Plain /\ expect' = "octets"
  BY PlaceOf, SayCases
<1> HIDE DEF e
<1>3. /\ Sound(h) /\ Mirrors(h, a) /\ Lined(ss, open) /\ ~Slashed(told)
      /\ ~h.b.pop /\ ~h.b.continue /\ h.b.error = "none" /\ a \in AccountSet
      /\ told \in Seq(EventSet) /\ a.octets = h.b.chunks /\ a.key = KeyIn(Top(h), h.b.key)
      /\ h \in HeapSet /\ h.b \in Builder
      /\ Continued(told, e.ev) = a /\ Measured(h, a, "row") /\ HasRoom(a)
      /\ Top(h).kind # "array" => a.key \in ReadableKeys
  BY <1>2, Gathering
<1>4. b = [a EXCEPT !.octets = cs]
  BY <1>1, <1>3 DEF Told
<1>5. r = IF fault = "octets" THEN Failed(h) ELSE Ok(g)
  BY DEF OnOctetChunk, Heap
<1> HIDE DEF h, a, b, r
<1>6. cs \in Seq(Chunks)
  BY <1>3, BuilderParts
<1> HIDE DEF cs
<1>7. c.scopes = ss /\ c.pop = h.b.pop /\ c.continue = h.b.continue /\ c.error = h.b.error /\ c.key = h.b.key /\ c.chunks = cs
  BY <1>3, <1>6 DEF Builder
<1> HIDE DEF c
<1>8. g.nodes = h.nodes /\ g.b = c
  BY <1>3, Rebuilt
<1> HIDE DEF g
<1>9. b \in AccountSet /\ b.octets = cs /\ b.key = a.key /\ b.values = a.values /\ b.open = a.open
  BY <1>3, <1>4, <1>6, OctetsReplaced
<1>10. Mirrors(g, b)
  BY <1>3, <1>7, <1>8, <1>9, MirrorsGathered
<1>15. Measured(g, b, "row") /\ HasRoom(b)
  <2>1. Measured(g, b, "row")
    BY <1>3, <1>7, <1>8, <1>9, MeasuredSame
  <2> QED BY <1>3, <1>9, <2>1 DEF HasRoom
<1>11. Awaiting(g, g.b.scopes, b, "octets")
  BY <1>3, <1>7, <1>8, <1>9 DEF Awaiting, KeyIn, Top
<1>12. Fits(g, Append(told, e), open, "octets")
  BY <1>1, <1>3, <1>7, <1>8, <1>10, <1>11, <1>15, FitsAfter DEF b
<1>13. ASSUME r.ok PROVE Fits(r.h, Append(told, e), open', expect') /\ force' = Plain
  <2>1. r.h = g
    BY <1>5, <1>13 DEF Ok, Failed
  <2> QED BY <1>2, <1>12, <2>1
<1>14. ASSUME ~r.ok PROVE Kept(Heap, r.h) /\ r.h.b.error \in {"none", "value_out_of_range"}
  <2>1. r.h = h
    BY <1>5, <1>14 DEF Ok, Failed
  <2> QED BY <1>3, <2>1, Unchanged DEF h
<1> QED BY <1>13, <1>14 DEF Answers, r, e

\* An octet stream ends, and is a value.
LEMMA OctetsEndAnswered ==
    ASSUME Telling, Stream!Say(Stream!Mark("octets_end")), NEW unit \in Units, NEW fault
    PROVE  Answers(OnOctetStreamEnd(unit, fault), Event("octets_end"))
<1> DEFINE e == Event("octets_end")
           h == Heap
           a == Pending(told)
           ss == h.b.scopes
           kind == "octets"
           content == builder.chunks
           none == <<>>
           v == Valued(h, kind, content, unit, NoSpelling, fault)
           c == [v.h.b EXCEPT !.octets = FALSE, !.chunks = none]
           g == [v.h EXCEPT !.b = c]
           r == OnOctetStreamEnd(unit, fault)
           b == Told(a, Name(told, Len(told)), e, "none")
           y == Following(Last(ss).kind)
<1>1. e \in EventSet /\ e.ev = "octets_end" /\ kind \in NodeKinds /\ none \in Seq(Chunks)
  BY EventParts DEF Marks, NodeKinds
<1>2. /\ expect = "octets" /\ open' = open /\ force' = Plain /\ expect' = Following(Last(OpenScopes(Heap)).kind)
  BY PlaceOf, SayCases
<1> HIDE DEF e
<1>3. /\ Sound(h) /\ Mirrors(h, a) /\ Lined(ss, open) /\ ~Slashed(told)
      /\ ~h.b.pop /\ ~h.b.continue /\ h.b.error = "none" /\ a \in AccountSet /\ a.open # <<>>
      /\ told \in Seq(EventSet) /\ a.octets = content /\ a.key = KeyIn(Top(h), h.b.key)
      /\ h \in HeapSet /\ OpenScopes(Heap) = ss
      /\ Continued(told, e.ev) = a /\ Measured(h, a, "row") /\ HasRoom(a)
      /\ Top(h).kind # "array" => a.key \in ReadableKeys
  BY <1>2, Gathering
<1>4. b = Placed(a, kind, content)
  BY <1>1, <1>3 DEF Told
<1>15. kind \notin Parents
  BY DEF Parents
<1>5. /\ v.ok => r.ok /\ r.h = [v.h EXCEPT !.b.octets = FALSE, !.b.chunks = none]
      /\ ~v.ok => r = v
  <2> DEFINE z == [v.h EXCEPT !.b.octets = FALSE, !.b.chunks = none]
  <2>1. r = IF ~v.ok THEN v ELSE Ok(z)
    BY DEF OnOctetStreamEnd
  <2> HIDE DEF v, r, z
  <2>2. Ok(z).ok /\ Ok(z).h = z
    BY DEF Ok
  <2> QED BY <2>1, <2>2 DEF z
<1>6. content \in Seq(Chunks)
  <2>1. Heap.b = builder
    BY DEF Heap
  <2> QED BY <1>3, <2>1, BuilderParts
<1> HIDE DEF h, a, b, r, y, none, kind, content, c, g, ss
<1>7. /\ v.ok => Grew(h, v.h, Top(h).node, KeyIn(Top(h), h.b.key), kind, content) /\ ValueNoted(h.b, v.h.b, Top(h))
      /\ ~v.ok => Kept(h, v.h) /\ v.h.b.error = h.b.error
  <2>1. Sound(h) /\ kind \in NodeKinds /\ content \in Seq(Chunks) /\ unit \in Units
    BY <1>1, <1>3, <1>6
  <2> DEFINE src == NoSpelling
             w == Valued(h, kind, content, unit, src, fault)
  <2>2. src \in Spellings \cup {NoSpelling}
    OBVIOUS
  <2> HIDE DEF src, v
  <2>3. /\ w.ok => Grew(h, w.h, Top(h).node, KeyIn(Top(h), h.b.key), kind, content) /\ ValueNoted(h.b, w.h.b, Top(h))
        /\ ~w.ok => Kept(h, w.h) /\ w.h.b.error = h.b.error
    BY ONLY <2>1, <2>2, ValuedEffect
  <2>4. w = v
    BY DEF src, v
  <2> HIDE DEF w
  <2> QED BY <2>3, <2>4
<1>8. Sound(v.h) /\ v.h \in HeapSet /\ v.h.b \in Builder
  <2>1. Sound(v.h)
    BY <1>1, <1>3, <1>6, ValuedSound DEF NodeKinds
  <2> QED BY <2>1, HeapParts DEF Sound
<1>9. [v.h EXCEPT !.b.octets = FALSE, !.b.chunks = none] = g
  <2> HIDE DEF v
  <2> QED BY <1>8 DEF HeapSet, g, c
<1> HIDE DEF v
<1>10. c.scopes = v.h.b.scopes /\ c.pop = v.h.b.pop /\ c.continue = v.h.b.continue /\ c.error = v.h.b.error
  BY <1>1, <1>8, ChunksReplaced DEF c
<1>11. g.nodes = v.h.nodes /\ g.b = c
  BY <1>8, Rebuilt DEF g
<1>12. ASSUME v.ok PROVE Fits(g, Append(told, e), open, y)
  <2>1. /\ Grew(h, g, Top(h).node, a.key, kind, content) /\ g.b.scopes = ss /\ ~g.b.pop /\ ~g.b.continue
        /\ g.b.error = "none"
    <3>1. Grew(h, v.h, Top(h).node, a.key, kind, content) /\ ValueNoted(h.b, v.h.b, Top(h))
      BY <1>3, <1>7, <1>12
    <3>2. Grew(h, g, Top(h).node, a.key, kind, content)
      BY <1>11, <3>1 DEF Grew
    <3> QED BY <1>3, <1>10, <1>11, <3>1, <3>2 DEF ValueNoted, ss
  <2>2. Mirrors(g, b)
    <3>1. Mirrors(g, Placed(a, kind, content))
      BY ONLY <1>1, <1>3, <1>6, <2>1, MirrorsPlaced DEF ss
    <3> QED BY <1>4, <3>1
  <2>7. Measured(g, b, "row")
    <3>1. Measured(g, Placed(a, kind, content), "row")
      BY ONLY <1>1, <1>3, <1>6, <1>15, <2>1, MeasuredPlaced DEF ss
    <3> QED BY <1>4, <3>1
  <2>3. b.key = NoKey
    BY <1>1, <1>3, <1>4, <1>6, PlacedParts
  <2>4. y \in {"key", "item"} /\ (y = "item" => Last(ss).kind = "array") /\ (y = "key" => Last(ss).kind # "array")
    BY DEF Following, y
  <2>5. Awaiting(g, g.b.scopes, b, y)
    BY <2>3, <2>4 DEF Awaiting
  <2>6. Fits(g, Append(told, e), open, y)
    BY <1>1, <1>3, <2>1, <2>2, <2>4, <2>5, <2>7, FitsAfter DEF b
  <2> QED BY <2>6
<1>13. ASSUME ~r.ok PROVE Kept(Heap, r.h) /\ r.h.b.error \in {"none", "value_out_of_range"}
  <2>1. ~v.ok /\ r = v
    BY <1>5, <1>13
  <2> QED BY <1>3, <1>7, <2>1 DEF h
<1>14. ASSUME r.ok PROVE Fits(r.h, Append(told, e), open', expect') /\ force' = Plain
  <2>1. v.ok /\ r.h = g
    BY <1>5, <1>9, <1>14
  <2>2. open' = open /\ expect' = y /\ force' = Plain
    BY <1>2, <1>3 DEF y
  <2> QED BY <1>12, <2>1, <2>2
<1> QED BY <1>13, <1>14 DEF Answers, r, e

-----------------------------------------------------------------------------
(* A document told to its end.                                             *)
Whole(ns, a) ==
    /\ a \in AccountSet /\ Len(ns) = Len(a.values) + 1 /\ DOMAIN ns = 1..Len(ns)
    /\ \A v \in 1..Len(a.values) :
          /\ ns[NodeOf(v)].kind = a.values[v].kind /\ a.values[v].parent \in 1..v
          /\ ns[a.values[v].parent].kind \in Parents
          /\ ns[a.values[v].parent].kind # "array" => a.values[v].key \in ReadableKeys
    /\ \A id \in 1..Len(ns) : ns[id] \in Node /\ ns[id].kids = Entries(a, id)
    /\ \A id \in 1..Len(ns) : ns[id].kind = "document" <=> id = Document
    /\ \A id \in 1..Len(ns) : ns[id].kind = "array" => Squared(ns[id], a, id)

\* Where the stream may end only the document is open, and every array has ended.
LEMMA EndsWhole ==
    ASSUME Telling, Stream!Say(Stream!Mark("stream_end"))
    PROVE  Whole(nodes, Account)
<1> DEFINE ev == "stream_end"
           h == DeferredPop(Heap)
           a == Continued(told, ev)
           ss == h.b.scopes
           os == OpenScopes(Heap)
           ns == h.nodes
<1>1. Rested(os) = "key" /\ open = <<>> /\ ~Slashed(told) /\ told \in Seq(EventSet)
  <2>1. Rested(os) = "key" /\ open = <<>> /\ told \in Seq(EventSet)
    BY PlaceOf, SayCases
  <2> QED BY <2>1, PlaceOf
<1>2. ev # "dim_start"
  OBVIOUS
<1> HIDE DEF ev
<1>3. /\ Sound(h) /\ ns = Heap.nodes /\ Mirrors(h, a) /\ Lined(ss, open) /\ a \in AccountSet
      /\ Measured(h, a, "row")
  BY <1>1, <1>2, Closed
<1>4. Account = a
  BY <1>1, <1>2, AccountContinued
<1>5. Heap.nodes = nodes
  BY DEF Heap
<1> HIDE DEF a, os
<1>6. h \in HeapSet /\ DOMAIN ns = 1..Len(ns) /\ Len(ns) \in Nat /\ \A id \in 1..Len(ns) : ns[id] \in Node
  BY <1>3, HeapParts DEF Sound
<1>13. Top(h).node \in 1..Len(ns) /\ a.open[Len(a.open)].id = Top(h).node
  BY <1>3, InnermostOf
<1> DEFINE top == Top(h).node
<1> HIDE DEF h, top
<1>7. Len(ss) = 1 /\ ss[1].kind = "document"
  <2>1. Len(ss) = Len(open) + 1 /\ ss[1].kind = "document"
    BY <1>3 DEF Lined
  <2> QED BY <1>1, <2>1
<1>8. Len(a.open) = 1 /\ ns[a.open[1].id].kind = "document"
  <2>1. Nested(h, a)
    BY <1>3 DEF Mirrors
  <2> QED BY <1>7, <2>1 DEF Nested
<1>9. Grown(h, a)
  BY <1>3 DEF Mirrors
<1>10. ASSUME NEW id \in 1..Len(ns), ns[id].kind = "array"
       PROVE  Squared(ns[id], a, id)
  <2>1. \A i \in 1..Len(a.open) : a.open[i].id # id
    BY <1>8, <1>10
  <2> QED BY <1>3, <1>10, <2>1 DEF Measured
<1>11. /\ \A v \in 1..Len(a.values) : ns[a.values[v].parent].kind \in Parents
       /\ \A id \in 1..Len(ns) : ns[id].kind = "document" => id = Document
  BY <1>3 DEF Measured
<1>14. ns[Document].kind = "document"
  <2>1. top \in 1..Len(ns) /\ ns[top].kind = "document"
    BY <1>8, <1>13 DEF top
  <2> QED BY <1>11, <2>1
<1>12. Whole(ns, a)
  BY <1>3, <1>6, <1>9, <1>10, <1>11, <1>14 DEF Whole, Grown
<1> QED BY <1>3, <1>4, <1>5, <1>12

-----------------------------------------------------------------------------
(* Whatever is told, the tree shows it; and it does after a refusal.       *)
Shown(ns, a, broken) ==
    /\ Len(a.values) \in Nat /\ DOMAIN a.values = 1..Len(a.values) /\ 1..(Len(a.values) + 1) \subseteq DOMAIN ns
    /\ \A v \in DOMAIN a.values :
          ns[NodeOf(v)].kind = a.values[v].kind /\ ns[NodeOf(v)].value = a.values[v].content
    /\ \A id \in {Document} \cup {NodeOf(v) : v \in DOMAIN a.values} :
          IF broken THEN IsPrefix(Entries(a, id), ns[id].kids) ELSE Entries(a, id) = ns[id].kids

ToldInv ==
    /\ IInv
    /\ told \in Seq(EventSet)
    /\ outcome = "reading" => Telling
    /\ outcome # "reading" => Shown(nodes, Account, Refused)
    /\ outcome = "refused" => builder.error \in {"none", "value_out_of_range"}
    /\ outcome = "read" /\ ~Refused /\ builder.error # "malformed" => Whole(nodes, Account)

\* The values told are those of the account before a row's end.
LEMMA ValuesTold ==
    ASSUME Telling
    PROVE  /\ Account.values = Pending(told).values /\ Len(Pending(told).values) \in Nat
           /\ Mirrors(Heap, Pending(told)) /\ DOMAIN Account.values = 1..Len(Account.values)
<1>1. told \in Seq(EventSet) /\ Mirrors(Heap, Pending(told)) /\ Sound(Heap)
  BY DEF Telling, Fits
<1>2. Pending(told) \in AccountSet /\ Pending(told).open # <<>>
  BY <1>1, InnermostOf DEF Mirrors
<1>3. Account = IF Ended(told) THEN Shut(Pending(told)) ELSE Pending(told)
  <2>1. \E e : e \in EventSet
    BY EventParts DEF Marks
  <2> QED BY <1>1, <2>1, PendingStep DEF Account
<1>4. Account.values = Pending(told).values
  BY <1>2, <1>3, ShutParts
<1> QED BY <1>1, <1>2, <1>4, AccountParts

\* A heap that kept what was told shows it.
LEMMA KeptShows ==
    ASSUME Telling, NEW g, Kept(Heap, g), Len(g.nodes) \in Nat, DOMAIN g.nodes = 1..Len(g.nodes)
    PROVE  Shown(g.nodes, Account, TRUE)
<1> DEFINE p == Pending(told)
           a == Account
<1>1. /\ a.values = p.values /\ DOMAIN a.values = 1..Len(a.values) /\ Len(a.values) \in Nat
      /\ Grown(Heap, p)
  BY ValuesTold DEF Mirrors
<1>2. \A id : Entries(a, id) = Entries(p, id)
  BY <1>1, EntriesSame
<1> HIDE DEF p, a
<1>3. Len(Heap.nodes) = Len(a.values) + 1
  BY <1>1 DEF Grown
<1>4. ASSUME NEW v \in DOMAIN a.values
      PROVE  g.nodes[NodeOf(v)].kind = a.values[v].kind /\ g.nodes[NodeOf(v)].value = a.values[v].content
  <2>1. NodeOf(v) \in 1..Len(Heap.nodes)
    BY <1>1, <1>3 DEF NodeOf
  <2>2. Heap.nodes[NodeOf(v)].kind = a.values[v].kind /\ Heap.nodes[NodeOf(v)].value = a.values[v].content
    BY <1>1 DEF Grown
  <2> QED BY <2>1, <2>2 DEF Kept
<1>5. ASSUME NEW id \in {Document} \cup {NodeOf(v) : v \in DOMAIN a.values}
      PROVE  IsPrefix(Entries(a, id), g.nodes[id].kids)
  <2>1. id \in 1..Len(Heap.nodes)
    BY <1>1, <1>3 DEF NodeOf, Document
  <2>2. Heap.nodes[id].kids = Entries(a, id)
    BY <1>1, <1>2, <2>1 DEF Grown
  <2> QED BY <2>1, <2>2 DEF Kept
<1>6. 1..(Len(a.values) + 1) \subseteq DOMAIN g.nodes
  BY <1>1, <1>3 DEF Kept
<1> QED BY <1>1, <1>4, <1>5, <1>6 DEF Shown, a

\* While all was accepted, the tree shows just that.
LEMMA TellingShows ==
    ASSUME Telling
    PROVE  Shown(nodes, Account, FALSE)
<1> DEFINE p == Pending(told)
           a == Account
<1>1. /\ a.values = p.values /\ DOMAIN a.values = 1..Len(a.values) /\ Len(a.values) \in Nat
      /\ Grown(Heap, p) /\ Heap.nodes = nodes /\ DOMAIN nodes = 1..Len(nodes)
  BY ValuesTold, HeapParts DEF Mirrors, Heap, Telling, Sound
<1>2. \A id : Entries(a, id) = Entries(p, id)
  BY <1>1, EntriesSame
<1> HIDE DEF p, a
<1>3. Len(nodes) = Len(a.values) + 1
  BY <1>1 DEF Grown
<1>4. \A v \in DOMAIN a.values : nodes[NodeOf(v)].kind = a.values[v].kind /\ nodes[NodeOf(v)].value = a.values[v].content
  BY <1>1 DEF Grown
<1>5. ASSUME NEW id \in {Document} \cup {NodeOf(v) : v \in DOMAIN a.values}
      PROVE  Entries(a, id) = nodes[id].kids
  <2>1. id \in 1..Len(nodes)
    BY <1>1, <1>3 DEF NodeOf, Document
  <2> QED BY <1>1, <1>2, <2>1 DEF Grown
<1> QED BY <1>1, <1>3, <1>4, <1>5 DEF Shown, a

\* What is shown is the tree the events make.
LEMMA ToldShown == ToldInv => TreeMirrorsEvents
<1> SUFFICES ASSUME ToldInv PROVE TreeMirrorsEvents
  OBVIOUS
<1>1. Shown(nodes, Account, Refused)
  <2>1. CASE outcome = "reading"
    <3>1. Telling /\ ~Refused
      BY <2>1 DEF ToldInv, Telling, Fits, Refused, Heap
    <3>2. Refused = FALSE
      BY <3>1 DEF Refused
    <3> QED BY <3>1, <3>2, TellingShows
  <2> QED BY <2>1 DEF ToldInv
<1> QED BY <1>1 DEF Shown, TreeMirrorsEvents

-----------------------------------------------------------------------------
(* Every step leaves the invariant.                                        *)

\* An event and its answer.
LEMMA AnsweredTold ==
    ASSUME ToldInv, NEW r, NEW e, Answer(r), Answers(r, e), IInv',
           told' = IF outcome' = "reading" THEN Append(told, e) ELSE told
    PROVE  ToldInv'
<1>1. outcome = "reading" /\ Telling
  BY DEF Answer, ToldInv
<1>2. nodes' = r.h.nodes /\ builder' = r.h.b /\ blocks' = r.h.blocks /\ outcome' \in {"reading", "refused"}
  BY DEF Answer
<1>3. CASE r.ok
  <2>1. outcome' = "reading" /\ told' = Append(told, e)
    BY <1>3 DEF Answer
  <2>2. Fits(r.h, Append(told, e), open', expect') /\ force' = Plain
    BY <1>3 DEF Answers
  <2>3. Sound(Heap')
    BY <2>1 DEF IInv
  <2>4. Heap'.nodes = r.h.nodes /\ Heap'.b = r.h.b
    BY <1>2 DEF Heap
  <2>5. Fits(Heap', told', open', expect')
    <3> DEFINE h == r.h
               k == Heap'
               t == Append(told, e)
               o == open'
               x == expect'
    <3>1. Fits(h, t, o, x) /\ k.nodes = h.nodes /\ k.b = h.b
      BY <2>2, <2>4
    <3> HIDE DEF h, k, t, o, x
    <3>3. Measured(k, Pending(t), Mode(t))
      BY <3>1, MeasuredSame DEF Fits
    <3>2. Fits(k, t, o, x)
      BY <3>1, <3>3 DEF Fits, OpenScopes, Top, Mirrors, Grown, Nested, Awaiting
    <3> QED BY <2>1, <3>2 DEF k, t, o, x
  <2>6. told' \in Seq(EventSet)
    BY <2>5 DEF Fits
  <2> QED BY <2>1, <2>2, <2>3, <2>5, <2>6 DEF ToldInv, Telling
<1>4. CASE ~r.ok
  <2>1. outcome' = "refused" /\ told' = told
    BY <1>4 DEF Answer
  <2>2. Kept(Heap, r.h) /\ r.h.b.error \in {"none", "value_out_of_range"}
    BY <1>4 DEF Answers
  <2>3. Shown(r.h.nodes, Account, TRUE)
    <3>1. Sound(Heap') /\ Heap'.nodes = r.h.nodes
      BY <1>2, <2>1 DEF IInv, Heap
    <3> DEFINE k == Heap'
               ns == r.h.nodes
    <3>2. k \in HeapSet /\ k.nodes = ns
      BY <3>1 DEF Sound
    <3> HIDE DEF k, ns
    <3>3. Len(ns) \in Nat /\ DOMAIN ns = 1..Len(ns)
      BY <3>2, HeapParts
    <3> QED BY <1>1, <2>2, <3>3, KeptShows DEF ns
  <2>4. Account' = Account
    BY <2>1 DEF Account
  <2>5. Refused' = TRUE
    BY <2>1 DEF Refused
  <2>6. Shown(nodes, Account, Refused)'
    BY <1>2, <2>3, <2>4, <2>5 DEF Shown
  <2> QED BY <1>2, <2>1, <2>2, <2>6 DEF ToldInv
<1> QED BY <1>3, <1>4

\* The read ends: the tree stays as it is, and a refusal is remembered.
LEMMA EndsTold ==
    ASSUME ToldInv, NEW read \in Reports, ReadEnds(read), told' = told, IInv',
           read = "malformed" \/ Stream!Say(Stream!Mark("stream_end"))
    PROVE  ToldInv'
<1> DEFINE h == DeferredPop(Heap)
<1>1. /\ outcome \in {"reading", "refused"} /\ nodes' = h.nodes /\ outcome' = "read"
      /\ builder' = [h.b EXCEPT !.last = Default, !.error = ParseError(read)]
  BY DEF ReadEnds
<1>2. Sound(Heap) /\ Heap \in HeapSet /\ Sound(h) /\ Heap.nodes = nodes
  BY <1>1, DeferredPopSound DEF ToldInv, IInv, Sound, Heap
<1>3. h.nodes = nodes /\ h.b \in Builder
  BY <1>2, DeferredParts, HeapParts DEF Sound
<1> HIDE DEF h
<1>4. builder'.error = ParseError(read)
  BY <1>1, <1>3 DEF Builder
<1>5. Account' = Account
  BY DEF Account
<1>6. CASE outcome = "reading"
  <2>1. Telling /\ ParseError(read) = read
    BY <1>6 DEF ToldInv, ParseError
  <2>2. Refused' = FALSE
    BY <1>1, <1>4, <2>1 DEF Refused, Reports
  <2>3. Shown(nodes, Account, FALSE)
    BY <2>1, TellingShows
  <2>4. Shown(nodes, Account, Refused)'
    BY <1>1, <1>3, <1>5, <2>2, <2>3 DEF Shown
  <2>5. builder'.error # "malformed" => Whole(nodes, Account)'
    <3>1. builder'.error # "malformed" => Whole(nodes, Account)
      BY <1>4, <2>1, EndsWhole
    <3> QED BY <1>1, <1>3, <1>5, <3>1
  <2> QED BY <1>1, <2>4, <2>5 DEF ToldInv
<1>7. CASE outcome = "refused"
  <2>1. ParseError(read) \in {"value_out_of_range", "callback_failed"} /\ Refused = TRUE /\ Shown(nodes, Account, Refused)
    BY <1>7 DEF ToldInv, ParseError, Refused
  <2>2. Refused' = TRUE
    BY <1>4, <2>1 DEF Refused
  <2>3. Shown(nodes, Account, Refused)'
    BY <1>1, <1>3, <1>5, <2>1, <2>2 DEF Shown
  <2> QED BY <1>1, <2>2, <2>3 DEF ToldInv
<1> QED BY <1>1, <1>6, <1>7

\* What is destroyed keeps its shape.
LEMMA DestroyTold ==
    ASSUME ToldInv, DocumentDestroy, told' = told, IInv'
    PROVE  ToldInv'
<1> DEFINE g == AllDestroyed(Heap)
           a == Account
<1>1. outcome = "read" /\ Sound(Heap) /\ builder.last = Default /\ Heap.b = builder /\ Heap.nodes = nodes
  BY DEF DocumentDestroy, ToldInv, IInv, Heap
<1>2. Alike(Heap, g)
  BY <1>1, AllDestroyedParts
<1>3. nodes' = g.nodes /\ builder' = builder /\ outcome' = "destroyed"
  BY DEF DocumentDestroy
<1>4. Account' = Account /\ Refused' = Refused
  BY <1>1, <1>3 DEF Account, Refused
<1>5. Shown(nodes, a, Refused)
  BY <1>1 DEF ToldInv
<1> HIDE DEF g, a
<1>6. DOMAIN nodes = 1..Len(nodes) /\ DOMAIN g.nodes = DOMAIN nodes
  BY <1>1, <1>2, AllDestroyedParts, HeapParts DEF Sound, g
<1>7. \A m \in DOMAIN nodes : g.nodes[m].kind = nodes[m].kind /\ g.nodes[m].value = nodes[m].value /\ g.nodes[m].kids = nodes[m].kids
  BY <1>1, <1>2, <1>6 DEF Alike, SameNode
<1>8. \A v \in DOMAIN a.values : NodeOf(v) \in DOMAIN nodes
  BY <1>5 DEF Shown, NodeOf
<1>9. Document \in DOMAIN nodes
  BY <1>5 DEF Shown, Document
<1>10. Shown(g.nodes, a, Refused)
  BY <1>5, <1>6, <1>7, <1>8, <1>9 DEF Shown
<1> QED BY <1>3, <1>4, <1>10 DEF ToldInv, Shown, a

\* Where the document begins, nothing is told and the document is empty.
LEMMA ToldStarts == DomInit => ToldInv
<1> SUFFICES ASSUME DomInit PROVE ToldInv
  OBVIOUS
<1> DEFINE doc == NewNode("document")
           s == Scope("document", Document)
           a == NothingTold
           ss == builder.scopes
<1>1. Init /\ open = <<>> /\ expect = "start" /\ force = Plain /\ told = <<>>
  BY DEF DomInit, Stream!Init
<1>2. IInv /\ Sound(Heap) /\ outcome = "reading"
  BY <1>1, InitInvariant DEF Init, IInv
<1>3. /\ nodes = <<doc>> /\ Heap.nodes = nodes /\ Heap.b = builder /\ builder.scopes = <<s>> /\ builder.pop = FALSE
      /\ builder.continue = FALSE /\ builder.error = "none" /\ builder.key = NoKey
  BY <1>1 DEF Init, Heap
<1>4. s \in ScopeSet /\ s.kind = "document" /\ s.node = 1 /\ doc.kids = <<>> /\ doc.kind = "document"
  BY DEF ScopeSet, Scope, Document, NewNode
<1>5. /\ a \in AccountSet /\ a.values = <<>> /\ a.key = NoKey /\ Len(a.open) = 1 /\ a.open[1].id = 1
      /\ Len(a.values) = 0
  <2> DEFINE f == Frame(Document)
             none == <<>>
  <2>1. f \in FrameSet /\ f.id = 1
    BY DEF Frame, FrameSet, Document
  <2>2. none \in Seq(ValueSet) /\ none \in Seq(Chunks) /\ Len(none) = 0
    OBVIOUS
  <2>3. a = [open |-> <<f>>, values |-> none, key |-> NoKey, octets |-> none]
    BY DEF NothingTold
  <2> HIDE DEF f, a, none
  <2>4. <<f>> \in Seq(FrameSet) /\ Len(<<f>>) = 1 /\ <<f>>[1] = f
    BY <2>1
  <2>5. a \in AccountSet /\ a.values = none /\ a.key = NoKey /\ a.open = <<f>>
    BY <2>2, <2>3, <2>4 DEF AccountSet
  <2> QED BY <2>1, <2>2, <2>4, <2>5 DEF none
<1> HIDE DEF doc, s, a
<1>6. ~Ended(told) /\ ~Slashed(told) /\ Pending(told) = a /\ told \in Seq(EventSet)
  <2>1. told \in Seq(EventSet) /\ Len(told) = 0
    BY <1>1
  <2>2. ~Ended(told) /\ ~Slashed(told)
    BY <1>1 DEF Ended, Slashed
  <2>3. Accounts(told)[0] = NothingTold
    BY <2>1, AccountsAt
  <2> QED BY <2>1, <2>2, <2>3 DEF Pending, a
<1>7. Len(nodes) = 1 /\ nodes[1] = doc
  BY <1>3
<1>8. Mirrors(Heap, a)
  <2>1. Entries(a, 1) = <<>>
    BY <1>5, EntriesNone
  <2>2. Grown(Heap, a)
    BY <1>3, <1>4, <1>5, <1>7, <2>1 DEF Grown
  <2>3. Len(ss) = 1 /\ ss[1] = s
    BY <1>3
  <2>4. Nested(Heap, a)
    BY <1>3, <1>4, <1>5, <1>7, <2>3 DEF Nested
  <2> QED BY <1>5, <2>2, <2>4 DEF Mirrors
<1>9. OpenScopes(Heap) = ss /\ Lined(ss, open)
  <2>1. OpenScopes(Heap) = ss
    BY <1>3 DEF OpenScopes
  <2>2. ss \in Seq(ScopeSet) /\ Len(ss) = 1 /\ ss[1].kind = "document"
    BY <1>3, <1>4
  <2>3. open \in Seq({"struct", Plain}) /\ Len(open) = 0
    BY <1>1
  <2> HIDE DEF ss
  <2> QED BY <2>1, <2>2, <2>3 DEF Lined
<1>10. Awaits(ss, told, open, expect) /\ Awaiting(Heap, ss, a, expect)
  BY <1>1, <1>5, <1>6 DEF Awaits, Awaiting
<1>12. Measured(Heap, a, Mode(told)) /\ expect # "octets"
  <2>1. \A id \in 1..Len(Heap.nodes) : id = 1 /\ Heap.nodes[id].kind = "document"
    BY <1>3, <1>4, <1>7
  <2>2. \A i \in 1..Len(a.open) : i = 1 /\ Heap.nodes[a.open[i].id].kind = "document"
    BY <1>3, <1>4, <1>5, <1>7
  <2>3. \A v \in 1..Len(a.values) : FALSE
    BY <1>5
  <2>4. \A i \in 1..Len(a.open) : \A mode : InGrid(Heap, a, i, mode)
    BY <2>2 DEF InGrid
  <2> QED BY <1>1, <2>1, <2>2, <2>3, <2>4 DEF Measured, Document
<1>11. Fits(Heap, told, open, expect)
  BY <1>3, <1>6, <1>8, <1>9, <1>10, <1>12 DEF Fits
<1> QED BY <1>1, <1>2, <1>11 DEF ToldInv, Telling

\* Every step the reader makes the builder take is one of the builder's own.
LEMMA BuilderSteps == ToldInv /\ [ToldNext]_vars => [BuilderNext]_domVars
<1> SUFFICES ASSUME ToldInv, [ToldNext]_vars PROVE [BuilderNext]_domVars
  OBVIOUS
<1>1. \A fs \in SUBSET FailPoints : Faults(fs) \subseteq FailPoints
  BY DEF Faults, FailPoints
<1> USE DEF Tell
<1>2. CASE TellStart
  BY <1>2 DEF TellStart
<1>3. CASE TellAssignment
  <2>1. Faults({"key"}) \subseteq FailPoints
    BY <1>1 DEF FailPoints
  <2>2. PICK k \in Keys, fault \in FailPoints : AssignmentStart(k, fault)
    BY <1>3, <2>1 DEF TellAssignment, ReadableKeys
  <2> QED BY <2>2 DEF BuilderNext
<1>4. CASE TellStruct
  <2>1. Faults({"node", "attach", "push"}) \subseteq FailPoints
    BY <1>1 DEF FailPoints
  <2>2. PICK fault \in FailPoints : StructStart(DefaultUnit, fault)
    BY <1>4, <2>1 DEF TellStruct
  <2> QED BY <2>2, BuilderAssumption DEF BuilderNext
<1>5. CASE TellStructEnd
  <2>1. StructEnd /\ Stream!Say(Stream!Mark("struct_end"))
    BY <1>5 DEF TellStructEnd, Event
  <2>2. Telling
    BY <2>1 DEF StructEnd, Answer, ToldInv
  <2>3. Top(DeferredPop(Heap)).kind = "struct"
    BY <2>1, <2>2, StructEndAnswered
  <2> QED BY <2>1, <2>3 DEF BuilderNext
<1>6. CASE TellRow
  <2>1. Faults({"node", "unit", "attach", "push"}) \subseteq FailPoints
    BY <1>1 DEF FailPoints
  <2>2. PICK unit \in Units, fault \in FailPoints : ArrayRowStart(unit, fault)
    BY <1>6, <2>1, DocumentAssumption DEF TellRow
  <2> QED BY <2>2 DEF BuilderNext
<1>7. CASE TellRowEnd
  BY <1>7 DEF TellRowEnd, BuilderNext
<1>8. CASE TellSlash
  <2>1. Faults({"dims"}) \subseteq FailPoints
    BY <1>1 DEF FailPoints
  <2>2. PICK fault \in FailPoints : ArrayDimStart(fault)
    BY <1>8, <2>1 DEF TellSlash
  <2> QED BY <2>2 DEF BuilderNext
<1>9. CASE TellOctetsStart
  BY <1>9 DEF TellOctetsStart, BuilderNext
<1>10. CASE TellOctets
  <2>1. Faults({"octets"}) \subseteq FailPoints
    BY <1>1 DEF FailPoints
  <2>2. PICK c \in Chunks, fault \in FailPoints : OctetChunk(c, fault)
    BY <1>10, <2>1 DEF TellOctets
  <2> QED BY <2>2 DEF BuilderNext
<1>11. CASE TellOctetsEnd
  <2>1. Faults({"node", "unit", "attach"}) \subseteq FailPoints
    BY <1>1 DEF FailPoints
  <2>2. PICK unit \in Units, fault \in FailPoints : OctetStreamEnd(unit, fault)
    BY <1>11, <2>1, DocumentAssumption DEF TellOctetsEnd
  <2> QED BY <2>2 DEF BuilderNext
<1>12. CASE TellData
  <2>1. Faults({"node", "unit", "attach"}) \subseteq FailPoints
    BY <1>1 DEF FailPoints
  <2> DEFINE ds == IF MayVary THEN Dressings ELSE {Plainest}
  <2>2. ds \subseteq Dressings
    BY DocumentAssumption
  <2>3. PICK k \in Kinds, d \in ds, fault \in FailPoints : Data(k, d.unit, d.src, fault)
    BY <1>12, <2>1 DEF TellData
  <2>4. d.unit \in Units /\ d.src \in Spellings \cup {NoSpelling}
    BY <2>2, DocumentAssumption
  <2> QED BY <2>3, <2>4 DEF BuilderNext
<1>13. CASE ReaderFails
  BY <1>13 DEF ReaderFails, BuilderNext, Reports
<1>14. CASE Destroy
  BY <1>14 DEF Destroy, BuilderNext
<1>15. ASSUME NEW checked \in Reports, TellEnd(checked) PROVE [BuilderNext]_domVars
  BY <1>15 DEF TellEnd, BuilderNext
<1>16. CASE UNCHANGED vars
  BY <1>16 DEF vars, domVars
<1> QED BY <1>2, <1>3, <1>4, <1>5, <1>6, <1>7, <1>8, <1>9, <1>10, <1>11, <1>12, <1>13, <1>14, <1>15, <1>16
        DEF ToldNext, Tells

\* Every step keeps the invariant.
LEMMA ToldKept == ToldInv /\ [ToldNext]_vars => ToldInv'
<1> SUFFICES ASSUME ToldInv, [ToldNext]_vars PROVE ToldInv'
  OBVIOUS
<1>1. IInv'
  BY BuilderSteps, NextInvariant DEF ToldInv
<1>2. ASSUME NEW r, NEW e, Answer(r), Telling => Answers(r, e),
             told' = IF outcome' = "reading" THEN Append(told, e) ELSE told
      PROVE  ToldInv'
  <2>1. Telling
    BY <1>2 DEF Answer, ToldInv
  <2> QED BY <1>1, <1>2, <2>1, AnsweredTold
<1> USE DEF Tell
<1>3. CASE TellStart
  <2> DEFINE e == Event("stream_start")
  <2>1. /\ outcome = "reading" /\ UNCHANGED domVars /\ Stream!Say(Stream!Mark("stream_start"))
        /\ told' = IF outcome' = "reading" THEN Append(told, e) ELSE told
    BY <1>3 DEF TellStart, Event
  <2>2. Telling /\ told' = Append(told, e) /\ Heap' = Heap /\ outcome' = "reading"
    BY <2>1 DEF ToldInv, domVars, Heap
  <2>3. Fits(Heap, Append(told, e), open', expect') /\ force' = Plain
    BY <2>1, <2>2, StartAnswered
  <2> HIDE DEF e
  <2>4. Sound(Heap)
    BY <2>2 DEF Telling
  <2>5. Telling' /\ told' \in Seq(EventSet)
    <3>1. Append(told, e) \in Seq(EventSet)
      BY <2>3 DEF Fits
    <3> QED BY <2>2, <2>3, <2>4, <3>1 DEF Telling
  <2> QED BY <1>1, <2>2, <2>5 DEF ToldInv
<1>4. CASE TellAssignment
  <2>1. PICK k, fault :
           /\ k \in ReadableKeys
           /\ AssignmentStart(k, fault) /\ Stream!Say(Stream!Mark("assignment_start"))
           /\ told' = IF outcome' = "reading" THEN Append(told, [ev |-> "assignment_start", key |-> k]) ELSE told
    BY <1>4 DEF TellAssignment
  <2> QED BY <1>2, <2>1, AssignmentAnswered DEF AssignmentStart
<1>5. CASE TellStruct
  <2>1. PICK fault :
           /\ StructStart(DefaultUnit, fault) /\ Stream!Say(Stream!Mark("struct_start")) /\ RowHasRoom
           /\ told' = IF outcome' = "reading" THEN Append(told, Event("struct_start")) ELSE told
    BY <1>5 DEF TellStruct, Event
  <2> QED BY <1>2, <2>1, StructAnswered, BuilderAssumption DEF StructStart
<1>6. CASE TellStructEnd
  <2>1. /\ StructEnd /\ Stream!Say(Stream!Mark("struct_end"))
        /\ told' = IF outcome' = "reading" THEN Append(told, Event("struct_end")) ELSE told
    BY <1>6 DEF TellStructEnd, Event
  <2> QED BY <1>2, <2>1, StructEndAnswered DEF StructEnd
<1>7. CASE TellRow
  <2>1. PICK unit, fault :
           /\ unit \in Units
           /\ ArrayRowStart(unit, fault) /\ Stream!Say(Stream!Mark("row_start")) /\ (expect = "row" \/ RowHasRoom)
           /\ told' = IF outcome' = "reading" THEN Append(told, Event("row_start")) ELSE told
    BY <1>7, DocumentAssumption DEF TellRow, Event
  <2> QED BY <1>2, <2>1, RowAnswered DEF ArrayRowStart
<1>8. CASE TellRowEnd
  <2>1. /\ ArrayRowEnd /\ Stream!Say(Stream!Mark("row_end")) /\ RowIsFull
        /\ told' = IF outcome' = "reading" THEN Append(told, Event("row_end")) ELSE told
    BY <1>8 DEF TellRowEnd, Event
  <2> QED BY <1>2, <2>1, RowEndAnswered DEF ArrayRowEnd
<1>9. CASE TellSlash
  <2>1. PICK fault :
           /\ ArrayDimStart(fault) /\ Stream!Say(Stream!Mark("dim_start"))
           /\ told' = IF outcome' = "reading" THEN Append(told, Event("dim_start")) ELSE told
    BY <1>9 DEF TellSlash, Event
  <2> QED BY <1>2, <2>1, SlashAnswered DEF ArrayDimStart
<1>10. CASE TellOctetsStart
  <2>1. /\ OctetStreamStart /\ Stream!Say(Stream!Mark("octets_start")) /\ RowHasRoom
        /\ told' = IF outcome' = "reading" THEN Append(told, Event("octets_start")) ELSE told
    BY <1>10 DEF TellOctetsStart, Event
  <2> QED BY <1>2, <2>1, OctetsStartAnswered DEF OctetStreamStart
<1>11. CASE TellOctets
  <2>1. PICK c, fault :
           /\ c \in Chunks
           /\ OctetChunk(c, fault) /\ Stream!Say(Stream!Mark("octets"))
           /\ told' = IF outcome' = "reading" THEN Append(told, [ev |-> "octets", chunk |-> c]) ELSE told
    BY <1>11 DEF TellOctets
  <2> QED BY <1>2, <2>1, OctetsAnswered DEF OctetChunk
<1>12. CASE TellOctetsEnd
  <2>1. PICK unit, fault :
           /\ unit \in Units
           /\ OctetStreamEnd(unit, fault) /\ Stream!Say(Stream!Mark("octets_end"))
           /\ told' = IF outcome' = "reading" THEN Append(told, Event("octets_end")) ELSE told
    BY <1>12, DocumentAssumption DEF TellOctetsEnd, Event
  <2> QED BY <1>2, <2>1, OctetsEndAnswered DEF OctetStreamEnd
<1>13. CASE TellData
  <2> DEFINE ds == IF MayVary THEN Dressings ELSE {Plainest}
  <2>1. ds \subseteq Dressings
    BY DocumentAssumption
  <2>2. PICK k, d, fault :
           /\ k \in Kinds /\ d \in ds
           /\ Data(k, d.unit, d.src, fault) /\ Stream!Say(Stream!Mark("data")) /\ RowHasRoom
           /\ told' = IF outcome' = "reading" THEN Append(told, [ev |-> "data", kind |-> k]) ELSE told
    BY <1>13 DEF TellData
  <2>3. d.unit \in Units /\ d.src \in Spellings \cup {NoSpelling}
    BY <2>1, <2>2, DocumentAssumption
  <2> QED BY <1>2, <2>2, <2>3, DataAnswered DEF Data
<1>14. CASE ReaderFails
  BY <1>1, <1>14, EndsTold DEF ReaderFails, Reports
<1>15. CASE Destroy
  BY <1>1, <1>15, DestroyTold DEF Destroy
<1>16. ASSUME NEW checked \in Reports, TellEnd(checked) PROVE ToldInv'
  BY <1>1, <1>16, EndsTold DEF TellEnd
<1>17. CASE UNCHANGED vars
  <2>1. Heap' = Heap /\ Account' = Account /\ Refused' = Refused /\ Telling' = Telling
    BY <1>17 DEF vars, Heap, Account, Refused, Telling
  <2> QED BY <1>1, <1>17, <2>1 DEF vars, ToldInv
<1> QED BY <1>3, <1>4, <1>5, <1>6, <1>7, <1>8, <1>9, <1>10, <1>11, <1>12, <1>13, <1>14, <1>15, <1>16, <1>17
        DEF ToldNext, Tells

-----------------------------------------------------------------------------
(* Lookups, segment by segment and index by index.                         *)
Segment(at, seg) ==
    IF (at # Document /\ ~IsStruct(at)) \/ ~WithinLimits(seg) THEN Nothing
    ELSE LET member == Member(at, seg.key) IN
         IF member = Nothing \/ seg.indices = <<>> THEN member ELSE Indexed(member, seg.indices)
Follows(f, path, m) == f = [n \in 0..m |-> IF n = 0 THEN Document ELSE Segment(f[n - 1], path[n])]

\* The steps of a lookup exist.
LEMMA FollowsDefined ==
    ASSUME NEW path, Len(path) \in Nat
    PROVE  \E f : Follows(f, path, Len(path)) /\ Lookup(path) = IF path = <<>> THEN Nothing ELSE f[Len(path)]
<1> DEFINE None == {n \in Nat : ~\E f : Follows(f, path, n)}
           Next(f, n) == Segment(f[n - 1], path[n])
<1>1. ASSUME NEW x \in None PROVE FALSE
  <2>1. PICK m \in None : \A k \in None : m <= k
    BY LeastNatural
  <2>2. m \in Nat /\ ~\E f : Follows(f, path, m)
    OBVIOUS
  <2>3. CASE m = 0
    <3>1. Follows([k \in 0..0 |-> Document], path, 0)
      BY DEF Follows
    <3> QED BY <2>2, <2>3, <3>1
  <2>4. CASE m # 0
    <3>1. m - 1 \in Nat /\ ~(m <= m - 1)
      BY <2>2, <2>4
    <3>2. PICK f : Follows(f, path, m - 1)
      BY <2>1, <3>1
    <3> DEFINE g == [k \in 0..m |-> IF k = 0 THEN Document ELSE Next(f, k)]
    <3>3. ASSUME NEW k \in 0..m, k # 0 PROVE g[k - 1] = f[k - 1]
      <4>1. k - 1 \in 0..(m - 1) /\ k - 1 \in 0..m
        BY <2>2, <3>3
      <4>2. f[k - 1] = IF k - 1 = 0 THEN Document ELSE Next(f, k - 1)
        BY <3>2, <4>1 DEF Follows
      <4> QED BY <4>1, <4>2
    <3>4. [k \in 0..m |-> IF k = 0 THEN Document ELSE Next(g, k)] = [k \in 0..m |-> IF k = 0 THEN Document ELSE Next(f, k)]
      <4> HIDE DEF g
      <4> QED BY <3>3
    <3>5. Follows(g, path, m)
      BY <3>4 DEF Follows
    <3> QED BY <2>2, <3>5
  <2> QED BY <2>3, <2>4
<1>2. \E f : Follows(f, path, Len(path))
  BY <1>1
<1>3. Lookup(path) = IF path = <<>> THEN Nothing ELSE (CHOOSE f : Follows(f, path, Len(path)))[Len(path)]
  BY DEF Lookup, Follows, Segment
<1> QED BY <1>2, <1>3

\* They depend on the segments so far.
StartAlike(p, q, m) == \A k \in 1..m : q[k] = p[k]
LEMMA FollowsAgree ==
    ASSUME NEW p, NEW q, NEW m \in Nat, NEW n \in Nat, m <= n, StartAlike(p, q, m),
           NEW f, Follows(f, p, m), NEW g, Follows(g, q, n)
    PROVE  f[m] = g[m]
<1> DEFINE Off == {k \in 0..m : f[k] # g[k]}
<1>1. /\ \A k \in 0..m : f[k] = IF k = 0 THEN Document ELSE Segment(f[k - 1], p[k])
      /\ \A k \in 0..n : g[k] = IF k = 0 THEN Document ELSE Segment(g[k - 1], q[k])
  BY DEF Follows
<1>2. ASSUME NEW x \in Off PROVE FALSE
  <2>1. Off \subseteq Nat
    OBVIOUS
  <2>2. PICK k \in Off : \A j \in Off : k <= j
    BY <2>1, LeastNatural
  <2>3. k \in 0..m /\ k \in 0..n /\ f[k] # g[k]
    OBVIOUS
  <2>4. k # 0
    BY <1>1, <2>3
  <2>5. k - 1 \in 0..m /\ ~(k <= k - 1) /\ k \in 1..m
    BY <2>3, <2>4
  <2>6. f[k - 1] = g[k - 1] /\ p[k] = q[k]
    BY <2>2, <2>5 DEF StartAlike
  <2> QED BY <1>1, <2>3, <2>4, <2>6
<1> QED BY <1>2

\* Where a path ends is one segment on from where the rest of it does.
Found(path) == IF path = <<>> THEN Document ELSE Lookup(path)
LEMMA LookupStep ==
    ASSUME NEW S, NEW p \in Seq(S), NEW seg \in S
    PROVE  Lookup(Append(p, seg)) = Segment(Found(p), seg)
<1> DEFINE q == Append(p, seg)
           m == Len(p)
           n == Len(q)
<1>1. /\ m \in Nat /\ n = m + 1 /\ n \in Nat /\ m <= n /\ q # <<>> /\ q[n] = seg /\ \A k \in 1..m : q[k] = p[k]
      /\ n - 1 = m /\ n \in 0..n /\ n # 0 /\ 0 \in 0..m /\ (p = <<>> => m = 0)
  OBVIOUS
<1>2. PICK f : Follows(f, p, m) /\ Lookup(p) = IF p = <<>> THEN Nothing ELSE f[m]
  BY <1>1, FollowsDefined
<1> HIDE DEF q
<1>3. PICK g : Follows(g, q, n) /\ Lookup(q) = IF q = <<>> THEN Nothing ELSE g[n]
  BY <1>1, FollowsDefined
<1> HIDE DEF m, n
<1>4. f[m] = g[m]
  <2>1. m \in Nat /\ n \in Nat /\ m <= n /\ StartAlike(p, q, m) /\ Follows(f, p, m) /\ Follows(g, q, n)
    BY <1>1, <1>2, <1>3 DEF StartAlike
  <2> QED BY ONLY <2>1, FollowsAgree
<1>5. g[n] = Segment(g[n - 1], q[n])
  BY <1>1, <1>3 DEF Follows
<1>6. f[m] = Found(p)
  <2>1. CASE p = <<>>
    <3>1. f[0] = Document /\ m = 0
      BY <1>1, <1>2, <2>1 DEF Follows, m
    <3> QED BY <2>1, <3>1 DEF Found
  <2>2. CASE p # <<>>
    BY <1>2, <2>2 DEF Found
  <2> QED BY <2>1, <2>2
<1>7. Lookup(q) = Segment(Found(p), seg)
  BY <1>1, <1>3, <1>4, <1>5, <1>6
<1> QED BY <1>7 DEF q

\* One index applied, and the first m of them.
Took(s, i) ==
    IF ~IsArray(s.at) THEN [at |-> Nothing, row |-> <<>>]
    ELSE IF s.row # <<>> THEN [at |-> Cell(s.at, s.row[1], i), row |-> <<>>]
    ELSE IF nodes[s.at].rows >= 2 THEN [at |-> s.at, row |-> <<i>>]
    ELSE [at |-> Element(s.at, i), row |-> <<>>]
Begun(id) == [at |-> id, row |-> <<>>]
Takes(f, id, is, m) == f = [n \in 0..m |-> IF n = 0 THEN Begun(id) ELSE Took(f[n - 1], is[n])]
Reached(id, is) == (CHOOSE f : Takes(f, id, is, Len(is)))[Len(is)]

\* The steps of the indices exist.
LEMMA TakesDefined ==
    ASSUME NEW id, NEW is, Len(is) \in Nat
    PROVE  /\ \E f : Takes(f, id, is, Len(is)) /\ Reached(id, is) = f[Len(is)]
           /\ Indexed(id, is) = IF Reached(id, is).row # <<>> THEN Nothing ELSE Reached(id, is).at
<1> DEFINE None == {n \in Nat : ~\E f : Takes(f, id, is, n)}
           Next(f, n) == Took(f[n - 1], is[n])
<1>1. ASSUME NEW x \in None PROVE FALSE
  <2>1. PICK m \in None : \A k \in None : m <= k
    BY LeastNatural
  <2>2. m \in Nat /\ ~\E f : Takes(f, id, is, m)
    OBVIOUS
  <2>3. CASE m = 0
    <3>1. Takes([k \in 0..0 |-> Begun(id)], id, is, 0)
      BY DEF Takes
    <3> QED BY <2>2, <2>3, <3>1
  <2>4. CASE m # 0
    <3>1. m - 1 \in Nat /\ ~(m <= m - 1)
      BY <2>2, <2>4
    <3>2. PICK f : Takes(f, id, is, m - 1)
      BY <2>1, <3>1
    <3> DEFINE g == [k \in 0..m |-> IF k = 0 THEN Begun(id) ELSE Next(f, k)]
    <3>3. ASSUME NEW k \in 0..m, k # 0 PROVE g[k - 1] = f[k - 1]
      <4>1. k - 1 \in 0..(m - 1) /\ k - 1 \in 0..m
        BY <2>2, <3>3
      <4>2. f[k - 1] = IF k - 1 = 0 THEN Begun(id) ELSE Next(f, k - 1)
        BY <3>2, <4>1 DEF Takes
      <4> QED BY <4>1, <4>2
    <3>4. [k \in 0..m |-> IF k = 0 THEN Begun(id) ELSE Next(g, k)] = [k \in 0..m |-> IF k = 0 THEN Begun(id) ELSE Next(f, k)]
      <4> HIDE DEF g
      <4> QED BY <3>3
    <3>5. Takes(g, id, is, m)
      BY <3>4 DEF Takes
    <3> QED BY <2>2, <3>5
  <2> QED BY <2>3, <2>4
<1>2. \E f : Takes(f, id, is, Len(is))
  BY <1>1
<1>3. Indexed(id, is) = IF Reached(id, is).row # <<>> THEN Nothing ELSE Reached(id, is).at
  BY DEF Indexed, Reached, Takes, Took, Begun
<1> QED BY <1>2, <1>3 DEF Reached

\* They depend on the indices so far.
LEMMA TakesAgree ==
    ASSUME NEW id, NEW p, NEW q, NEW m \in Nat, NEW n \in Nat, m <= n, StartAlike(p, q, m),
           NEW f, Takes(f, id, p, m), NEW g, Takes(g, id, q, n)
    PROVE  f[m] = g[m]
<1> DEFINE Off == {k \in 0..m : f[k] # g[k]}
<1>1. /\ \A k \in 0..m : f[k] = IF k = 0 THEN Begun(id) ELSE Took(f[k - 1], p[k])
      /\ \A k \in 0..n : g[k] = IF k = 0 THEN Begun(id) ELSE Took(g[k - 1], q[k])
  BY DEF Takes
<1>2. ASSUME NEW x \in Off PROVE FALSE
  <2>1. Off \subseteq Nat
    OBVIOUS
  <2>2. PICK k \in Off : \A j \in Off : k <= j
    BY <2>1, LeastNatural
  <2>3. k \in 0..m /\ k \in 0..n /\ f[k] # g[k]
    OBVIOUS
  <2>4. k # 0
    BY <1>1, <2>3
  <2>5. k - 1 \in 0..m /\ ~(k <= k - 1) /\ k \in 1..m
    BY <2>3, <2>4
  <2>6. f[k - 1] = g[k - 1] /\ p[k] = q[k]
    BY <2>2, <2>5 DEF StartAlike
  <2> QED BY <1>1, <2>3, <2>4, <2>6
<1> QED BY <1>2

\* One index more is taken from where the others led, which is a place.
LEMMA ReachedStep ==
    ASSUME NEW id, NEW is \in Seq(Nat), NEW i \in Nat
    PROVE  /\ Reached(id, <<>>) = Begun(id)
           /\ Reached(id, Append(is, i)) = Took(Reached(id, is), i)
<1> DEFINE js == Append(is, i)
           none == <<>>
           m == Len(is)
           n == Len(js)
<1>1. /\ m \in Nat /\ n = m + 1 /\ n \in Nat /\ m <= n /\ js[n] = i /\ \A k \in 1..m : js[k] = is[k]
      /\ n - 1 = m /\ n \in 0..n /\ n # 0
  OBVIOUS
<1>2. Len(none) = 0 /\ 0 \in 0..0
  OBVIOUS
<1> HIDE DEF none
<1>3. PICK e : Takes(e, id, none, 0) /\ Reached(id, none) = e[0]
  BY <1>2, TakesDefined
<1>4. Reached(id, none) = Begun(id)
  BY <1>2, <1>3 DEF Takes
<1>5. PICK f : Takes(f, id, is, m) /\ Reached(id, is) = f[m]
  BY <1>1, TakesDefined
<1> HIDE DEF js
<1>6. PICK g : Takes(g, id, js, n) /\ Reached(id, js) = g[n]
  BY <1>1, TakesDefined
<1> HIDE DEF m, n
<1>7. f[m] = g[m]
  <2>1. m \in Nat /\ n \in Nat /\ m <= n /\ StartAlike(is, js, m) /\ Takes(f, id, is, m) /\ Takes(g, id, js, n)
    BY <1>1, <1>5, <1>6 DEF StartAlike
  <2> QED BY ONLY <2>1, TakesAgree
<1>8. g[n] = Took(g[n - 1], js[n])
  BY <1>1, <1>6 DEF Takes
<1>9. Reached(id, js) = Took(Reached(id, is), i)
  BY <1>1, <1>5, <1>6, <1>7, <1>8
<1> QED BY <1>4, <1>9 DEF js, none

\* Where indices lead is the node they end at, or half a place in a matrix.
LEMMA ReachedPlace ==
    ASSUME NEW id, NEW is \in Seq(Nat)
    PROVE  Reached(id, is) = [at |-> Reached(id, is).at, row |-> Reached(id, is).row]
<1> DEFINE m == Len(is)
<1>1. PICK f : Takes(f, id, is, m) /\ Reached(id, is) = f[m]
  BY TakesDefined
<1>2. m \in 0..m
  OBVIOUS
<1>3. \A k \in 0..m : f[k] = IF k = 0 THEN Begun(id) ELSE Took(f[k - 1], is[k])
  BY <1>1 DEF Takes
<1> HIDE DEF m
<1>4. f[m] = Begun(id) \/ f[m] = Took(f[m - 1], is[m])
  BY <1>2, <1>3
<1>5. \E x, r : f[m] = [at |-> x, row |-> r]
  BY <1>4 DEF Begun, Took
<1> QED BY <1>1, <1>5

\* Indices that led to a node led there whole.
LEMMA ReachedNode ==
    ASSUME NEW id, NEW is \in Seq(Nat), NEW up, up # Nothing, Indexed(id, is) = up
    PROVE  Reached(id, is) = Begun(up)
<1>1. Indexed(id, is) = IF Reached(id, is).row # <<>> THEN Nothing ELSE Reached(id, is).at
  BY TakesDefined
<1>2. Reached(id, is).row = <<>> /\ Reached(id, is).at = up
  BY <1>1
<1> QED BY <1>2, ReachedPlace DEF Begun

-----------------------------------------------------------------------------
(* Places in a whole tree.                                                 *)

\* A container that has no key twice gives back each value under its key.
LEMMA MemberFound ==
    ASSUME NEW a, Whole(nodes, a), NEW v \in 1..Len(a.values), KeysUnique(a.values[v].parent)
    PROVE  Member(a.values[v].parent, a.values[v].key) = NodeOf(v)
<1> DEFINE id == a.values[v].parent
           key == a.values[v].key
           ks == nodes[id].kids
           keys == [i \in DOMAIN ks |-> ks[i].key]
           found == {i \in DOMAIN ks : ks[i].key = key}
<1>1. a \in AccountSet /\ id \in 1..v /\ Len(nodes) = Len(a.values) + 1 /\ Len(a.values) \in Nat
  BY AccountParts DEF Whole
<1>2. id \in 1..Len(nodes)
  BY <1>1
<1>3. ks = Entries(a, id)
  BY <1>2 DEF Whole
<1>4. ks \in Seq(EntrySet) /\ \E k \in 1..Len(ks) : ks[k] = Entry(key, NodeOf(v))
  BY <1>1, <1>3, EntriesTyped
<1>5. IsInjective(keys)
  BY DEF KeysUnique
<1>6. Member(id, key) = IF found = {} THEN Nothing ELSE ks[Min(found)].node
  BY DEF Member
<1> HIDE DEF id, key, ks
<1>7. DOMAIN ks = 1..Len(ks) /\ Len(ks) \in Nat
  BY <1>4
<1>8. PICK k \in 1..Len(ks) : ks[k] = Entry(key, NodeOf(v))
  BY <1>4
<1>9. ks[k].key = key /\ ks[k].node = NodeOf(v) /\ k \in Int
  BY <1>7, <1>8 DEF Entry
<1>10. ASSUME NEW i \in DOMAIN ks, ks[i].key = key PROVE i = k
  <2>1. \A x, y \in DOMAIN ks : keys[x] = keys[y] => x = y
    BY <1>5 DEF IsInjective
  <2>2. keys[i] = keys[k] /\ k \in DOMAIN ks
    BY <1>7, <1>9, <1>10
  <2> HIDE DEF keys
  <2> QED BY <2>1, <2>2
<1>11. found = {k}
  BY <1>7, <1>9, <1>10
<1> HIDE DEF found
<1>12. Min(found) = k
  BY <1>9, <1>11 DEF Min
<1> QED BY <1>6, <1>9, <1>11, <1>12 DEF id, key

\* What a finished array knows of its values.
LEMMA ArrayParts ==
    ASSUME NEW a, Whole(nodes, a), NEW v \in 1..Len(a.values), nodes[a.values[v].parent].kind = "array"
    PROVE  LET x == a.values[v]
               n == nodes[x.parent]
           IN /\ x.row \in Nat /\ x.column \in Nat /\ n.rows \in Nat /\ Len(n.kids) \in Nat
              /\ \E W \in Nat :
                    /\ n.rows >= 1 /\ Ruled(n, W, n.rows, n.rows)
                    /\ x.row \in 1..n.rows /\ x.column < W
                    /\ Placing(x, W) \in 1..Len(n.kids) /\ n.kids[Placing(x, W)].node = NodeOf(v)
              /\ n.rows >= 2 <=> \E u \in InContainer(a, x.parent) : a.values[u].row > 1
<1> DEFINE x == a.values[v]
           id == x.parent
           n == nodes[id]
           rows == n.rows
<1>1. /\ a \in AccountSet /\ id \in 1..v /\ Len(nodes) = Len(a.values) + 1 /\ Len(a.values) \in Nat
      /\ x \in ValueSet /\ DOMAIN a.values = 1..Len(a.values)
  BY AccountParts DEF Whole
<1>2. id \in 1..Len(nodes)
  BY <1>1
<1>3. n.kids = Entries(a, id) /\ Squared(n, a, id) /\ rows \in Nat
  BY <1>2 DEF Whole, Node
<1>4. v \in InContainer(a, id)
  BY <1>1 DEF InContainer
<1>5. x.row \in Nat /\ x.column \in Nat
  BY <1>1 DEF ValueSet
<1>6. Len(n.kids) \in Nat
  BY <1>1, <1>3, EntriesTyped
<1>7. PICK W \in Nat : rows >= 1 /\ Filled(a, id, W, rows, W) /\ Ruled(n, W, rows, rows)
  BY <1>3 DEF Squared
<1> HIDE DEF x, n, rows
<1> DEFINE E == Entries(a, id)
<1>8. /\ \A u \in InContainer(a, id) :
            LET y == a.values[u]
                p == Placing(y, W)
            IN y.row \in 1..rows /\ y.column < W /\ p \in 1..Len(E) /\ E[p].node = NodeOf(u)
      /\ rows > 2 \/ (rows = 2 /\ W > 0) => W = 0 \/ \E u \in InContainer(a, id) : a.values[u].row > 1
  BY <1>7 DEF Filled, RowLength
<1> HIDE DEF E, id
<1>9. x.row \in 1..rows /\ x.column < W /\ Placing(x, W) \in 1..Len(E) /\ E[Placing(x, W)].node = NodeOf(v)
  BY <1>4, <1>8 DEF x
<1>10. rows \in Nat /\ W > 0
  BY <1>3, <1>5, <1>7, <1>9
<1>11. rows >= 2 <=> \E u \in InContainer(a, id) : a.values[u].row > 1
  <2>1. ASSUME NEW u \in InContainer(a, id), a.values[u].row > 1 PROVE rows >= 2
    <3>1. a.values[u].row \in 1..rows
      BY <1>8
    <3> QED BY <1>10, <2>1, <3>1
  <2>2. ASSUME rows >= 2 PROVE \E u \in InContainer(a, id) : a.values[u].row > 1
    <3>1. rows > 2 \/ (rows = 2 /\ W > 0)
      BY <1>10, <2>2
    <3>2. W # 0
      BY <1>10
    <3> QED BY <1>8, <3>1, <3>2
  <2> QED BY <2>1, <2>2
<1>12. n.kids = E
  BY <1>3 DEF E
<1> QED BY <1>5, <1>6, <1>7, <1>9, <1>10, <1>11, <1>12 DEF x, n, id, rows

\* An array of one row gives back each value under its place.
LEMMA ElementFound ==
    ASSUME NEW a, Whole(nodes, a), NEW v \in 1..Len(a.values), nodes[a.values[v].parent].kind = "array",
           ~\E u \in InContainer(a, a.values[v].parent) : a.values[u].row > 1
    PROVE  /\ nodes[a.values[v].parent].rows < 2
           /\ Element(a.values[v].parent, a.values[v].column) = NodeOf(v)
<1> DEFINE x == a.values[v]
           id == x.parent
           n == nodes[id]
<1>1. /\ x.row \in Nat /\ x.column \in Nat /\ n.rows \in Nat /\ Len(n.kids) \in Nat
      /\ \E W \in Nat :
            /\ n.rows >= 1 /\ Ruled(n, W, n.rows, n.rows)
            /\ x.row \in 1..n.rows /\ x.column < W
            /\ Placing(x, W) \in 1..Len(n.kids) /\ n.kids[Placing(x, W)].node = NodeOf(v)
      /\ n.rows < 2
  <2>1. ~(n.rows >= 2) /\ n.rows \in Nat
    BY ArrayParts
  <2> QED BY <2>1, ArrayParts
<1>2. PICK W \in Nat :
            /\ n.rows >= 1 /\ x.row \in 1..n.rows
            /\ Placing(x, W) \in 1..Len(n.kids) /\ n.kids[Placing(x, W)].node = NodeOf(v)
  BY <1>1
<1> DEFINE c == x.column
           kids == n.kids
<1>3. Placing(x, W) = c + 1
  <2>1. x.row = 1
    BY <1>1, <1>2
  <2> HIDE DEF x
  <2> QED BY <1>1, <2>1 DEF Placing
<1>4. Element(id, c) = IF c >= Len(kids) THEN Nothing ELSE [i \in DOMAIN kids |-> kids[i].node][c + 1]
  BY DEF Element, KidNodes
<1>5. DOMAIN kids = 1..Len(kids)
  <2>1. id \in 1..Len(nodes)
    <3>1. a \in AccountSet /\ id \in 1..v /\ Len(nodes) = Len(a.values) + 1
      BY DEF Whole
    <3> QED BY <3>1, AccountParts
  <2>2. kids \in Seq(EntrySet)
    BY <2>1 DEF Whole, Node
  <2> QED BY <2>2
<1> HIDE DEF id, n, kids, c
<1>6. c \in Nat /\ Len(kids) \in Nat /\ c + 1 \in 1..Len(kids) /\ kids[c + 1].node = NodeOf(v)
  BY <1>1, <1>2, <1>3 DEF c, kids
<1>7. Element(id, c) = NodeOf(v)
  BY <1>4, <1>5, <1>6
<1> QED BY <1>1, <1>7 DEF id, n, c

\* Rows of one width.
LEMMA WidthsOfOne ==
    ASSUME NEW n, NEW W \in Nat, NEW r \in Nat, \A i \in 0..(r - 1) : RowWidth(n, i) = W
    PROVE  WidthsBefore(n, r) = r * W
<1> DEFINE Sums(f, m) == f = [k \in 0..m |-> IF k = 0 THEN 0 ELSE f[k - 1] + RowWidth(n, k - 1)]
           f == [k \in 0..r |-> k * W]
           Next(g, k) == IF k = 0 THEN 0 ELSE g[k - 1] + RowWidth(n, k - 1)
<1>1. ASSUME NEW k \in 0..r PROVE k * W = Next(f, k)
  <2>1. CASE k = 0
    BY <2>1
  <2>2. CASE k # 0
    <3>1. k - 1 \in 0..(r - 1) /\ k - 1 \in 0..r /\ k - 1 \in Nat
      BY <2>2
    <3> DEFINE j == k - 1
    <3>2. k * W = j * W + W
      <4>1. j \in Nat /\ k = j + 1
        BY <3>1
      <4> HIDE DEF j
      <4>2. (j + 1) * W = j * W + W
        BY ONLY <4>1, W \in Nat
      <4> QED BY <4>1, <4>2
    <3>3. f[k - 1] = j * W /\ RowWidth(n, k - 1) = W
      BY <3>1
    <3> QED BY <2>2, <3>2, <3>3
  <2> QED BY <2>1, <2>2
<1>2. Sums(f, r)
  <2>1. f = [k \in 0..r |-> Next(f, k)]
    <3> HIDE DEF Next
    <3> QED BY <1>1
  <2> QED BY <2>1
<1>3. WidthsBefore(n, r) = (CHOOSE g : Sums(g, r))[r]
  BY DEF WidthsBefore
<1>4. ASSUME NEW g, Sums(g, r) PROVE g[r] = r * W
  <2> DEFINE Off == {k \in 0..r : g[k] # k * W}
  <2>1. ASSUME NEW x \in Off PROVE FALSE
    <3>1. Off \subseteq Nat
      OBVIOUS
    <3>2. PICK k \in Off : \A j \in Off : k <= j
      BY <3>1, LeastNatural
    <3>3. k \in 0..r /\ g[k] # k * W
      OBVIOUS
    <3>4. g[k] = Next(g, k)
      BY <1>4, <3>3
    <3>5. k # 0
      BY <3>3, <3>4
    <3>6. k - 1 \in 0..r /\ ~(k <= k - 1)
      BY <3>3, <3>5
    <3>7. g[k - 1] = (k - 1) * W /\ f[k - 1] = (k - 1) * W
      BY <3>2, <3>6
    <3>8. Next(g, k) = Next(f, k)
      BY <3>7
    <3> HIDE DEF Next, f
    <3> QED BY <1>1, <3>3, <3>4, <3>8
  <2>2. r \in 0..r
    OBVIOUS
  <2> QED BY <2>1, <2>2
<1> HIDE DEF Sums
<1> QED BY <1>2, <1>3, <1>4

\* A matrix gives back each value under its row and its place in it, recorded row or not.
LEMMA CellFound ==
    ASSUME NEW a, Whole(nodes, a), NEW v \in 1..Len(a.values), nodes[a.values[v].parent].kind = "array",
           \E u \in InContainer(a, a.values[v].parent) : a.values[u].row > 1
    PROVE  /\ nodes[a.values[v].parent].rows >= 2
           /\ a.values[v].row - 1 \in Nat /\ a.values[v].column \in Nat
           /\ Cell(a.values[v].parent, a.values[v].row - 1, a.values[v].column) = NodeOf(v)
<1> DEFINE x == a.values[v]
           id == x.parent
           n == nodes[id]
           rows == n.rows
           kids == n.kids
           r == x.row - 1
           c == x.column
<1>1. /\ x.row \in Nat /\ c \in Nat /\ rows \in Nat /\ Len(kids) \in Nat /\ rows >= 2
      /\ \E W \in Nat :
            /\ Ruled(n, W, rows, rows) /\ x.row \in 1..rows /\ c < W
            /\ Placing(x, W) \in 1..Len(kids) /\ kids[Placing(x, W)].node = NodeOf(v)
  <2>1. rows >= 2
    BY ArrayParts
  <2> QED BY <2>1, ArrayParts
<1>2. PICK W \in Nat :
            /\ Ruled(n, W, rows, rows) /\ x.row \in 1..rows /\ c < W
            /\ Placing(x, W) \in 1..Len(kids) /\ kids[Placing(x, W)].node = NodeOf(v)
  BY <1>1
<1> DEFINE cols == IF r < RecordedRows THEN RowWidth(n, r) ELSE RowWidth(n, 0)
           before == IF r < RecordedRows THEN WidthsBefore(n, r) ELSE r * cols
           off == before + c
<1>3. Cell(id, r, c) =
        IF r >= rows \/ (r >= RecordedRows /\ ~Uniform(n)) THEN Nothing
        ELSE IF c >= cols \/ off >= Len(kids) THEN Nothing
        ELSE [i \in DOMAIN kids |-> kids[i].node][off + 1]
  BY DEF Cell, KidNodes
<1>4. DOMAIN kids = 1..Len(kids) /\ Len(kids) \in Nat
  <2>1. id \in 1..Len(nodes)
    <3>1. a \in AccountSet /\ id \in 1..v /\ Len(nodes) = Len(a.values) + 1
      BY DEF Whole
    <3> QED BY <3>1, AccountParts
  <2>2. kids \in Seq(EntrySet)
    BY <2>1 DEF Whole, Node
  <2> QED BY <2>2
<1>5. Placing(x, W) = r * W + c + 1
  BY DEF Placing
<1> DEFINE y == x.row
<1>6. r \in Nat /\ r < rows /\ W # 0
  <2>1. y \in 1..rows /\ rows \in Nat /\ c \in Nat /\ c < W /\ W \in Nat /\ r = y - 1
    BY <1>1, <1>2
  <2> HIDE DEF y, rows, c, r
  <2>2. W # 0
    BY ONLY <2>1
  <2>3. y \in Nat /\ rows \in Nat /\ y >= 1 /\ y <= rows /\ r = y - 1
    BY ONLY <2>1
  <2>4. r \in Nat /\ r < rows
    BY ONLY <2>3
  <2> QED BY <2>2, <2>4
<1> HIDE DEF y
<1>7. n.dims # OneRow /\ \A k \in 1..RecordedRows : n.dims[k] = IF k <= rows THEN W ELSE 0
  <2>1. Len(n.dims) = RecordedRows /\ \A k \in 1..RecordedRows : n.dims[k] = IF k <= rows THEN W ELSE 0
    <3>1. Ruled(n, W, rows, rows)
      BY <1>2
    <3>2. rows \in Nat /\ rows >= 2
      BY <1>1
    <3> HIDE DEF n, rows
    <3>3. rows # 1
      BY ONLY <3>2
    <3> QED BY ONLY <3>1, <3>3 DEF Ruled
  <2>2. RecordedRows # 0
    BY BuilderAssumption
  <2> HIDE DEF n
  <2>3. n.dims # OneRow
    <3>1. n.dims = OneRow => Len(n.dims) = 0
      BY DEF OneRow
    <3> QED BY <2>1, <2>2, <3>1
  <2> QED BY <2>1, <2>3
<1>8. RecordedRows \in Nat /\ RecordedRows >= 1
  BY BuilderAssumption
<1> HIDE DEF n, id, rows, kids, x, r, c
<1>9. ASSUME NEW k \in Nat, k < RecordedRows, k < rows PROVE RowWidth(n, k) = W
  <2>1. k + 1 \in 1..RecordedRows /\ k + 1 <= rows
    BY <1>1, <1>8, <1>9
  <2> QED BY <1>7, <2>1 DEF RowWidth
<1>10. RowWidth(n, 0) = W
  BY <1>1, <1>8, <1>9
<1>11. cols = W /\ before = r * W
  <2>1. CASE r < RecordedRows
    <3>1. RowWidth(n, r) = W
      BY <1>6, <1>9, <2>1
    <3>2. ASSUME NEW k \in 0..(r - 1) PROVE RowWidth(n, k) = W
      <4>1. k \in Nat /\ k < RecordedRows /\ k < rows
        BY <1>1, <1>6, <1>8, <2>1
      <4> QED BY <1>9, <4>1
    <3>3. WidthsBefore(n, r) = r * W
      BY <1>6, <3>2, WidthsOfOne
    <3> QED BY <2>1, <3>1, <3>3
  <2>2. CASE ~(r < RecordedRows)
    BY <1>10, <2>2
  <2> QED BY <2>1, <2>2
<1>12. r >= RecordedRows => Uniform(n)
  <2> SUFFICES ASSUME r >= RecordedRows PROVE Uniform(n)
    OBVIOUS
  <2>1. ASSUME NEW i \in 1..RecordedRows - 1 PROVE RowWidth(n, i) = RowWidth(n, 0)
    <3>1. i \in Nat /\ i < RecordedRows /\ i < rows
      BY <1>1, <1>6, <1>8
    <3> QED BY <1>9, <1>10, <3>1
  <2> QED BY <1>6, <1>10, <2>1 DEF Uniform
<1> DEFINE start == r * W
<1>13. start \in Nat
  BY <1>6
<1>14. off = start + c
  BY <1>11
<1> HIDE DEF cols, before, off
<1>15. cols = W
  BY <1>11
<1>16. start + c + 1 \in 1..Len(kids) /\ kids[start + c + 1].node = NodeOf(v)
  BY <1>2, <1>5
<1> HIDE DEF start
<1>17. off + 1 \in 1..Len(kids) /\ kids[off + 1].node = NodeOf(v) /\ ~(off >= Len(kids)) /\ ~(c >= cols) /\ ~(r >= rows)
  <2>1. c \in Nat /\ c < W /\ W \in Nat /\ r \in Nat /\ rows \in Nat /\ r < rows
    BY <1>1, <1>2, <1>6
  <2>2. ~(c >= cols) /\ ~(r >= rows)
    BY ONLY <1>15, <2>1
  <2>3. off + 1 \in 1..Len(kids) /\ kids[off + 1].node = NodeOf(v)
    BY ONLY <1>14, <1>16
  <2>4. off \in Nat
    BY ONLY <1>13, <1>14, <2>1
  <2>5. ~(off >= Len(kids))
    <3> DEFINE z == Len(kids)
    <3>1. off + 1 \in 1..z /\ z \in Nat
      BY <1>4, <2>3
    <3> HIDE DEF z
    <3>2. off + 1 <= z
      BY ONLY <2>4, <3>1
    <3>3. ~(off >= z)
      BY ONLY <2>4, <3>1, <3>2
    <3> QED BY <3>3 DEF z
  <2> QED BY <2>2, <2>3, <2>5
<1>18. Cell(id, r, c) = NodeOf(v)
  BY <1>3, <1>4, <1>12, <1>17
<1> QED BY <1>1, <1>6, <1>18 DEF x, id, n, rows, r, c

-----------------------------------------------------------------------------
(* The paths themselves.                                                   *)
InMatrix(a, id) == \E u \in InContainer(a, id) : a.values[u].row > 1
Named(a, v) == [key |-> a.values[v].key, indices |-> <<>>]
Deepened(path, is) == [path EXCEPT ![Len(path)] = [key |-> @.key, indices |-> @.indices \o is]]
PathTo(f, a, v) ==
    LET up == a.values[v].parent
    IN IF up = Document THEN <<Named(a, v)>>
       ELSE IF a.values[up - 1].kind = "struct" THEN Append(f[up - 1], Named(a, v))
       ELSE IF InMatrix(a, up) THEN Deepened(f[up - 1], <<a.values[v].row - 1, a.values[v].column>>)
       ELSE Deepened(f[up - 1], <<a.values[v].column>>)
Addresses(f, a, m) == f = [v \in 1..m |-> PathTo(f, a, v)]

\* They are defined: a value's container is told before it.
LEMMA PathsDefined ==
    ASSUME Whole(nodes, Account)
    PROVE  Addresses(Paths, Account, Len(Account.values))
<1> DEFINE a == Account
           n == Len(a.values)
           None == {m \in Nat : m <= n /\ ~\E f : Addresses(f, a, m)}
<1>1. /\ a \in AccountSet /\ n \in Nat /\ DOMAIN a.values = 1..n
      /\ \A v \in 1..n : a.values[v].parent \in 1..v
  BY AccountParts DEF Whole
<1>2. Paths = CHOOSE f : f = [v \in DOMAIN a.values |-> PathTo(f, a, v)]
  BY DEF Paths, PathTo, InMatrix, Named, Deepened
<1> HIDE DEF a, n
<1>3. ASSUME NEW x \in None PROVE FALSE
  <2>1. PICK m \in None : \A k \in None : m <= k
    BY LeastNatural
  <2>2. m \in Nat /\ m <= n /\ ~\E f : Addresses(f, a, m)
    OBVIOUS
  <2>3. CASE m = 0
    <3>1. Addresses([v \in 1..0 |-> Nothing], a, 0)
      BY DEF Addresses
    <3> QED BY <2>2, <2>3, <3>1
  <2>4. CASE m # 0
    <3>1. m - 1 \in Nat /\ ~(m <= m - 1) /\ m - 1 <= n
      BY <1>1, <2>2, <2>4
    <3>2. PICK f : Addresses(f, a, m - 1)
      BY <2>1, <3>1
    <3> DEFINE g == [v \in 1..m |-> PathTo(f, a, v)]
    <3>3. ASSUME NEW v \in 1..m PROVE PathTo(g, a, v) = PathTo(f, a, v)
      <4> DEFINE up == a.values[v].parent
      <4>1. up \in 1..v
        BY <1>1, <2>2
      <4>2. CASE up = Document
        BY <4>2 DEF PathTo
      <4>3. CASE up # Document
        <5>1. up - 1 \in 1..(m - 1) /\ up - 1 \in 1..m
          BY <2>2, <4>1, <4>3 DEF Document
        <5>2. f[up - 1] = PathTo(f, a, up - 1)
          BY <3>2, <5>1 DEF Addresses
        <5>3. g[up - 1] = f[up - 1]
          BY <5>1, <5>2
        <5> HIDE DEF g
        <5> QED BY <5>3 DEF PathTo
      <4> QED BY <4>2, <4>3
    <3>4. [v \in 1..m |-> PathTo(g, a, v)] = [v \in 1..m |-> PathTo(f, a, v)]
      <4> HIDE DEF g
      <4> QED BY <3>3
    <3>5. Addresses(g, a, m)
      BY <3>4 DEF Addresses
    <3> QED BY <2>2, <3>5
  <2> QED BY <2>3, <2>4
<1>4. \E f : Addresses(f, a, n)
  <2>1. n <= n
    BY <1>1
  <2> QED BY <1>1, <1>3, <2>1
<1>5. Paths = CHOOSE f : Addresses(f, a, n)
  BY <1>1, <1>2 DEF Addresses
<1> QED BY <1>4, <1>5 DEF a, n

\* A path that leads somewhere, if a look-up can take it.
Segments == [key : ReadableKeys, indices : Seq(Nat)]
Located(path, at) == path \in Seq(Segments) /\ path # <<>> /\ (Addressable(path) => Lookup(path) = at)

\* A key that was read always fits; only the indices may be too many.
LEMMA SegmentFits ==
    ASSUME NEW seg \in Segments
    PROVE  WithinLimits(seg) <=> Len(seg.indices) <= MaxIndices
<1>1. seg.key \in Keys /\ KeyLength[seg.key] <= MaxIdentifier
  BY DEF Segments, ReadableKeys
<1>2. KeyLength[seg.key] \in Nat /\ seg.key # NoKey
  BY <1>1, BuilderAssumption
<1>3. KeyLength[seg.key] < SegmentSize
  BY <1>1, <1>2, BuilderAssumption, DocumentAssumption
<1> QED BY <1>2, <1>3 DEF WithinLimits

\* A path can be taken when all but its last segment can, and the last one.
LEMMA AddressableStep ==
    ASSUME NEW p \in Seq(Segments), NEW seg \in Segments
    PROVE  Addressable(Append(p, seg)) <=> Addressable(p) /\ WithinLimits(seg)
<1> DEFINE q == Append(p, seg)
           m == Len(p)
           Short(x) == Len(x.indices) <= MaxIndices
<1>1. /\ m \in Nat /\ DOMAIN p = 1..m /\ DOMAIN q = 1..(m + 1) /\ q[m + 1] = seg
      /\ \A i \in 1..m : q[i] = p[i]
  <2> HIDE DEF Segments
  <2> QED OBVIOUS
<1>2. (Addressable(q) <=> \A i \in 1..(m + 1) : Short(q[i])) /\ (Addressable(p) <=> \A i \in 1..m : Short(p[i]))
  BY <1>1 DEF Addressable
<1>3. WithinLimits(seg) <=> Short(seg)
  BY SegmentFits
<1> HIDE DEF q, m, Short
<1>4. \A i : i \in 1..(m + 1) <=> i \in 1..m \/ i = m + 1
  BY <1>1
<1> QED BY <1>1, <1>2, <1>3, <1>4 DEF q

\* A sequence that is not empty is its front and its last element.
LEMMA FrontAndLast ==
    ASSUME NEW S, NEW q \in Seq(S), q # <<>>
    PROVE  \E p \in Seq(S), x \in S : q = Append(p, x) /\ Len(q) = Len(p) + 1
<1> DEFINE m == Len(q) - 1
           p == [i \in 1..m |-> q[i]]
<1>1. m \in Nat /\ Len(q) = m + 1 /\ \A i \in 1..Len(q) : q[i] \in S
  OBVIOUS
<1>2. p \in Seq(S) /\ Len(p) = m
  BY <1>1
<1>3. q[m + 1] \in S
  BY <1>1
<1>4. q = Append(p, q[m + 1])
  BY <1>1, <1>2, <1>3
<1> QED BY <1>1, <1>2, <1>3, <1>4

\* What a look-up cannot take leads nowhere.
LEMMA BeyondLimits ==
    ASSUME NEW path \in Seq(Segments), ~Addressable(path)
    PROVE  Lookup(path) = Nothing
<1> DEFINE Astray(p) == ~Addressable(p) /\ Lookup(p) # Nothing
           Lengths == {n \in Nat : \E p \in Seq(Segments) : Len(p) = n /\ Astray(p)}
<1>1. ASSUME NEW x \in Lengths PROVE FALSE
  <2>1. PICK n \in Lengths : \A k \in Lengths : n <= k
    BY LeastNatural
  <2>2. PICK q \in Seq(Segments) : Len(q) = n /\ Astray(q)
    OBVIOUS
  <2>3. q # <<>>
    BY <2>2 DEF Addressable
  <2> DEFINE S == Segments
  <2>5. PICK front \in Seq(S), seg \in S : q = Append(front, seg) /\ Len(q) = Len(front) + 1
    <3> HIDE DEF S
    <3>1. q \in Seq(S)
      BY DEF S
    <3> QED BY ONLY <2>3, <3>1, FrontAndLast
  <2>6. Lookup(q) = Segment(Found(front), seg)
    <3> HIDE DEF S
    <3> QED BY <2>5, LookupStep
  <2>7. CASE ~WithinLimits(seg)
    BY <2>2, <2>6, <2>7 DEF Segment
  <2>8. CASE WithinLimits(seg)
    <3>1. ~Addressable(front)
      BY <2>2, <2>5, <2>8, AddressableStep
    <3>2. Len(front) \in Nat /\ n = Len(front) + 1
      <4> HIDE DEF S
      <4> QED BY <2>2, <2>5
    <3>3. Lookup(front) = Nothing
      <4>1. Len(front) \notin Lengths
        <5> HIDE DEF Lengths
        <5> QED BY <2>1, <3>2
      <4> QED BY <2>5, <3>1, <3>2, <4>1
    <3>4. front # <<>>
      BY <3>1 DEF Addressable
    <3>5. Found(front) = Nothing
      BY <3>3, <3>4 DEF Found
    <3>6. Lookup(q) = Nothing
      BY <2>6, <3>5 DEF Segment, Nothing, Document, IsStruct
    <3> QED BY <2>2, <3>6
  <2> QED BY <2>7, <2>8
<1>2. Len(path) \in Nat
  OBVIOUS
<1> QED BY <1>1, <1>2

\* A segment without indices goes on to the member.
LEMMA MemberLocated ==
    ASSUME NEW p \in Seq(Segments), NEW key \in ReadableKeys, NEW node, NEW at,
           at = Document \/ IsStruct(at), Addressable(p) => Found(p) = at, Member(at, key) = node
    PROVE  Located(Append(p, [key |-> key, indices |-> <<>>]), node)
<1> DEFINE none == <<>>
           seg == [key |-> key, indices |-> none]
           q == Append(p, seg)
<1>1. seg \in Segments /\ q \in Seq(Segments) /\ q # <<>>
  <2>1. none \in Seq(Nat)
    OBVIOUS
  <2> HIDE DEF none
  <2>2. seg \in Segments
    BY <2>1 DEF Segments
  <2> DEFINE S == Segments
  <2> HIDE DEF seg, S
  <2>3. p \in Seq(S) /\ seg \in S
    BY <2>2 DEF S
  <2>4. q \in Seq(S) /\ q # <<>>
    BY ONLY <2>3
  <2> QED BY <2>2, <2>4 DEF S
<1>2. Addressable(q) => Addressable(p) /\ WithinLimits(seg)
  <2> HIDE DEF seg
  <2> QED BY <1>1, AddressableStep
<1>5. WithinLimits(seg) => Segment(at, seg) = node
  BY DEF Segment
<1> HIDE DEF seg
<1>3. Addressable(q) => Lookup(q) = node
  <2> HIDE DEF Segments, none
  <2>1. Lookup(q) = Segment(Found(p), seg)
    BY <1>1, LookupStep
  <2> HIDE DEF q
  <2> QED BY <1>2, <1>5, <2>1
<1>4. Located(q, node)
  BY <1>1, <1>3 DEF Located
<1> QED BY <1>4 DEF q, seg

\* Indices written after a path are taken from where it led.
LEMMA DeepLookup ==
    ASSUME NEW path, NEW up, Located(path, up), up # Nothing, NEW ks \in Seq(Nat), ks # <<>>
    PROVE  /\ Deepened(path, ks) \in Seq(Segments) /\ Deepened(path, ks) # <<>>
           /\ Addressable(Deepened(path, ks)) =>
                 \E m : \E js \in Seq(Nat) :
                    Reached(m, js) = Begun(up) /\ Lookup(Deepened(path, ks)) = Indexed(m, js \o ks)
<1>1. path \in Seq(Segments) /\ path # <<>> /\ (Addressable(path) => Lookup(path) = up)
  BY DEF Located
<1> HIDE DEF Segments
<1>2. PICK p \in Seq(Segments), seg \in Segments : path = Append(p, seg) /\ Len(path) = Len(p) + 1
  BY <1>1, FrontAndLast
<1> DEFINE at == Found(p)
           m == Member(at, seg.key)
           js == seg.indices
           deeper == [key |-> seg.key, indices |-> js \o ks]
<1>3. js \in Seq(Nat) /\ deeper \in Segments
  BY DEF Segments
<1>4. Deepened(path, ks) = Append(p, deeper)
  <2>1. path[Len(path)] = seg
    BY <1>2
  <2>2. Deepened(path, ks) = [path EXCEPT ![Len(path)] = deeper]
    BY <2>1 DEF Deepened
  <2> HIDE DEF deeper
  <2>3. Len(path) \in Nat /\ p \in Seq(Segments) /\ seg \in Segments /\ deeper \in Segments
    BY <1>2, <1>3
  <2> DEFINE n == Len(p)
             changed == [path EXCEPT ![Len(path)] = deeper]
  <2>4. /\ n \in Nat /\ DOMAIN path = 1..(n + 1) /\ path \in Seq(Segments) /\ Len(path) = n + 1
        /\ \A i \in 1..n : path[i] = p[i]
    BY <1>2, <2>3
  <2>5. /\ DOMAIN changed = 1..(n + 1) /\ changed[n + 1] = deeper /\ \A i \in 1..n : changed[i] = p[i]
        /\ changed \in Seq(Segments)
    BY <2>3, <2>4
  <2> HIDE DEF changed
  <2>6. Len(changed) = n + 1
    BY <2>4, <2>5
  <2>7. changed = Append(p, deeper)
    BY <2>3, <2>4, <2>5, <2>6
  <2> QED BY <2>2, <2>7 DEF changed
<1> DEFINE reachable == Addressable(Deepened(path, ks))
<1>14. reachable => Addressable(path) /\ WithinLimits(deeper)
  <2>1. reachable => Addressable(p) /\ WithinLimits(deeper)
    BY <1>3, <1>4, AddressableStep
  <2>2. Len(js \o ks) = Len(js) + Len(ks) /\ Len(js) \in Nat /\ Len(ks) \in Nat
    BY <1>3
  <2>3. deeper.indices = js \o ks
    OBVIOUS
  <2> HIDE DEF js, deeper
  <2>4. WithinLimits(deeper) => Len(js) <= MaxIndices
    BY <1>3, <2>2, <2>3, BuilderAssumption DEF WithinLimits
  <2>5. WithinLimits(deeper) => WithinLimits(seg)
    BY <2>4, SegmentFits DEF js
  <2> QED BY <1>2, <2>1, <2>5, AddressableStep
<1>5. Lookup(path) = Segment(at, seg) /\ Lookup(Append(p, deeper)) = Segment(at, deeper)
  BY <1>1, <1>2, <1>3, LookupStep
<1>15. ASSUME reachable
       PROVE  \E o : \E is \in Seq(Nat) :
                 Reached(o, is) = Begun(up) /\ Lookup(Deepened(path, ks)) = Indexed(o, is \o ks)
  <2>1. Segment(at, seg) = up /\ WithinLimits(deeper)
    BY <1>1, <1>5, <1>14, <1>15
  <2>2. (at = Document \/ IsStruct(at)) /\ m # Nothing
    BY <2>1 DEF Segment
  <2>3. js \o ks # <<>>
    BY <1>3
  <2>4. Segment(at, deeper) = Indexed(m, js \o ks)
    BY <2>1, <2>2, <2>3 DEF Segment
  <2>5. Reached(m, js) = Begun(up)
    <3> DEFINE none == <<>>
    <3>1. CASE js = none
      <4>1. m = up
        BY <2>1, <2>2, <3>1 DEF Segment
      <4>2. Reached(m, none) = Begun(m)
        BY <1>3, ReachedStep, 0 \in Nat
      <4> QED BY <3>1, <4>1, <4>2
    <3>2. CASE js # none
      <4>1. Indexed(m, js) = up
        BY <2>1, <2>2, <3>2 DEF Segment
      <4> QED BY <1>3, <4>1, ReachedNode
    <3> QED BY <3>1, <3>2
  <2> HIDE DEF at, m, js, deeper
  <2>6. Lookup(Deepened(path, ks)) = Indexed(m, js \o ks)
    BY <1>4, <1>5, <2>4
  <2> QED BY <1>3, <2>5, <2>6
<1> HIDE DEF at, m, js, deeper
<1>10. Append(p, deeper) \in Seq(Segments) /\ Append(p, deeper) # <<>>
  BY <1>3
<1>13. Deepened(path, ks) \in Seq(Segments) /\ Deepened(path, ks) # <<>>
  BY <1>4, <1>10
<1> QED BY ONLY <1>13, <1>15

\* One index more, in an array of one row.
LEMMA ElementLocated ==
    ASSUME NEW path, NEW up, Located(path, up), up # Nothing, NEW i \in Nat, NEW node,
           Took(Begun(up), i) = Begun(node)
    PROVE  Located(Deepened(path, <<i>>), node)
<1> DEFINE ks == <<i>>
           q == Deepened(path, ks)
<1>1. ks \in Seq(Nat) /\ ks # <<>> /\ \A js \in Seq(Nat) : js \o ks = Append(js, i) /\ Append(js, i) \in Seq(Nat)
  OBVIOUS
<1> HIDE DEF ks
<1>2. /\ q \in Seq(Segments) /\ q # <<>>
      /\ Addressable(q) =>
            \E m : \E js \in Seq(Nat) : Reached(m, js) = Begun(up) /\ Lookup(q) = Indexed(m, js \o ks)
  BY <1>1, DeepLookup
<1> HIDE DEF q
<1> SUFFICES ASSUME Addressable(q) PROVE Lookup(q) = node
  BY <1>2 DEF Located, q, ks
<1>20. PICK m : \E js \in Seq(Nat) : Reached(m, js) = Begun(up) /\ Lookup(q) = Indexed(m, js \o ks)
  BY <1>2
<1>3. PICK js \in Seq(Nat) : Reached(m, js) = Begun(up) /\ Lookup(q) = Indexed(m, js \o ks)
  BY <1>20
<1>4. Reached(m, Append(js, i)) = Begun(node)
  BY <1>3, ReachedStep
<1>5. Indexed(m, Append(js, i)) = node
  <2> DEFINE is == Append(js, i)
  <2>1. Len(is) \in Nat
    BY <1>1
  <2> HIDE DEF is
  <2>2. Indexed(m, is) = IF Reached(m, is).row # <<>> THEN Nothing ELSE Reached(m, is).at
    BY <2>1, TakesDefined
  <2> QED BY <1>4, <2>2 DEF is, Begun
<1> QED BY <1>1, <1>3, <1>5

\* Two indices more, in an array of several rows.
LEMMA CellLocated ==
    ASSUME NEW path, NEW up, Located(path, up), up # Nothing, NEW r \in Nat, NEW c \in Nat, NEW node,
           Took(Took(Begun(up), r), c) = Begun(node)
    PROVE  Located(Deepened(path, <<r, c>>), node)
<1> DEFINE ks == <<r, c>>
           q == Deepened(path, ks)
<1>1. /\ ks \in Seq(Nat) /\ ks # <<>>
      /\ \A js \in Seq(Nat) : js \o ks = Append(Append(js, r), c) /\ Append(Append(js, r), c) \in Seq(Nat)
                                /\ Append(js, r) \in Seq(Nat)
  OBVIOUS
<1> HIDE DEF ks
<1>2. /\ q \in Seq(Segments) /\ q # <<>>
      /\ Addressable(q) =>
            \E m : \E js \in Seq(Nat) : Reached(m, js) = Begun(up) /\ Lookup(q) = Indexed(m, js \o ks)
  BY <1>1, DeepLookup
<1> HIDE DEF q
<1> SUFFICES ASSUME Addressable(q) PROVE Lookup(q) = node
  BY <1>2 DEF Located, q, ks
<1>20. PICK m : \E js \in Seq(Nat) : Reached(m, js) = Begun(up) /\ Lookup(q) = Indexed(m, js \o ks)
  BY <1>2
<1>3. PICK js \in Seq(Nat) : Reached(m, js) = Begun(up) /\ Lookup(q) = Indexed(m, js \o ks)
  BY <1>20
<1> DEFINE half == Append(js, r)
           is == Append(half, c)
<1>4. half \in Seq(Nat) /\ is \in Seq(Nat) /\ Len(is) \in Nat /\ js \o ks = is
  BY <1>1
<1>5. Reached(m, half) = Took(Begun(up), r)
  BY <1>3, ReachedStep
<1> HIDE DEF half
<1>6. Reached(m, is) = Begun(node)
  BY <1>4, <1>5, ReachedStep
<1> HIDE DEF is
<1>7. Indexed(m, is) = IF Reached(m, is).row # <<>> THEN Nothing ELSE Reached(m, is).at
  BY <1>4, TakesDefined
<1>8. Indexed(m, is) = node
  BY <1>6, <1>7 DEF Begun
<1> QED BY <1>3, <1>4, <1>8

\* Every value of a whole tree is found under its path.
LEMMA PathsLocated ==
    ASSUME Whole(nodes, Account),
           \A id \in DOMAIN nodes : nodes[id].kind \in {"struct", "document"} => KeysUnique(id)
    PROVE  \A v \in 1..Len(Account.values) : Located(Paths[v], NodeOf(v))
<1> DEFINE a == Account
           n == Len(a.values)
           Lost == {v \in 1..n : ~Located(Paths[v], NodeOf(v))}
<1>1. /\ a \in AccountSet /\ n \in Nat /\ DOMAIN nodes = 1..(n + 1) /\ Len(nodes) = n + 1
      /\ \A v \in 1..n :
            /\ nodes[NodeOf(v)].kind = a.values[v].kind /\ a.values[v].parent \in 1..v
            /\ nodes[a.values[v].parent].kind \in Parents
            /\ nodes[a.values[v].parent].kind # "array" => a.values[v].key \in ReadableKeys
      /\ \A id \in 1..(n + 1) : nodes[id].kind = "document" <=> id = Document
  BY AccountParts DEF Whole
<1>2. \A v \in 1..n : Paths[v] = PathTo(Paths, a, v)
  BY PathsDefined DEF Addresses
<1>3. ASSUME NEW x \in Lost PROVE FALSE
  <2>1. Lost \subseteq Nat
    BY <1>1
  <2>2. PICK v \in Lost : \A u \in Lost : v <= u
    BY <2>1, LeastNatural
  <2>3. v \in 1..n /\ ~Located(Paths[v], NodeOf(v))
    OBVIOUS
  <2> DEFINE x1 == a.values[v]
             up == x1.parent
             node == NodeOf(v)
             f == Paths
  <2>4. /\ up \in 1..v /\ up \in DOMAIN nodes /\ nodes[up].kind \in Parents
        /\ nodes[up].kind # "array" => x1.key \in ReadableKeys
        /\ up # Nothing /\ node # Nothing /\ (nodes[up].kind = "document" <=> up = Document)
    <3>1. up \in 1..v /\ nodes[up].kind \in Parents /\ (nodes[up].kind # "array" => x1.key \in ReadableKeys)
      BY <1>1, <2>3
    <3>2. up \in 1..(n + 1) /\ up # 0 /\ v + 1 # 0
      BY <1>1, <2>3, <3>1
    <3> QED BY <1>1, <3>1, <3>2 DEF Nothing, NodeOf
  <2>5. up # Document =>
            /\ up - 1 \in 1..n /\ nodes[up].kind = a.values[up - 1].kind
            /\ Located(f[up - 1], up)
    <3> SUFFICES ASSUME up # Document PROVE
            /\ up - 1 \in 1..n /\ nodes[up].kind = a.values[up - 1].kind
            /\ Located(f[up - 1], up)
      OBVIOUS
    <3>1. up - 1 \in 1..n /\ ~(v <= up - 1) /\ NodeOf(up - 1) = up
      <4>1. n \in Nat /\ v \in 1..n /\ up \in 1..v /\ up # 1
        BY <1>1, <2>3, <2>4 DEF Document
      <4> HIDE DEF up, n
      <4> QED BY ONLY <4>1 DEF NodeOf
    <3>2. nodes[NodeOf(up - 1)].kind = a.values[up - 1].kind
      BY <1>1, <3>1
    <3>3. up - 1 \notin Lost
      BY <2>2, <3>1
    <3> QED BY <3>1, <3>2, <3>3
  <2>6. f[v] = PathTo(f, a, v)
    BY <1>2, <2>3
  <2>7. CASE up = Document \/ (up # Document /\ nodes[up].kind = "struct")
    <3>1. nodes[up].kind \in {"struct", "document"}
      BY <2>4, <2>7
    <3>2. Member(up, x1.key) = node
      BY <2>3, <2>4, <3>1, MemberFound
    <3> DEFINE none == <<>>
               named == Named(a, v)
               rest == IF up = Document THEN none ELSE f[up - 1]
    <3>3. f[v] = Append(rest, named)
      <4>1. CASE up = Document
        BY <2>6, <4>1 DEF PathTo
      <4>2. CASE up # Document
        BY <2>5, <2>6, <2>7, <4>2 DEF PathTo
      <4> QED BY <4>1, <4>2
    <3>4. rest \in Seq(Segments) /\ (Addressable(rest) => Found(rest) = up)
      <4>1. CASE up = Document
        BY <4>1 DEF Found
      <4>2. CASE up # Document
        <5>1. Located(f[up - 1], up) /\ rest = f[up - 1]
          BY <2>5, <4>2
        <5> QED BY <5>1 DEF Located, Found
      <4> QED BY <4>1, <4>2
    <3>5. (up = Document \/ IsStruct(up)) /\ x1.key \in ReadableKeys
      BY <2>4, <2>7, <3>1 DEF IsStruct
    <3> HIDE DEF up, node, rest
    <3>6. Located(Append(rest, [key |-> x1.key, indices |-> <<>>]), node)
      BY <2>4, <3>2, <3>4, <3>5, MemberLocated
    <3>7. named = [key |-> x1.key, indices |-> <<>>]
      BY DEF Named
    <3> QED BY <2>3, <3>3, <3>6, <3>7 DEF node
  <2>8. CASE up # Document /\ nodes[up].kind = "array"
    <3>1. Located(f[up - 1], up) /\ a.values[up - 1].kind # "struct"
      BY <2>5, <2>8
    <3>2. IsArray(up) /\ Took(Begun(up), x1.column) =
             IF nodes[up].rows >= 2 THEN [at |-> up, row |-> <<x1.column>>] ELSE Begun(Element(up, x1.column))
      BY <2>4, <2>8 DEF IsArray, Took, Begun
    <3>3. x1.column \in Nat /\ x1.row \in Nat /\ nodes[up].rows \in Nat
      BY <2>3, <2>8, ArrayParts
    <3>4. CASE ~InMatrix(a, up)
      <4>1. Element(up, x1.column) = node /\ nodes[up].rows < 2
        BY <2>3, <2>8, <3>4, ElementFound DEF InMatrix
      <4>2. Took(Begun(up), x1.column) = Begun(node)
        BY <3>2, <3>3, <4>1
      <4>3. f[v] = Deepened(f[up - 1], <<x1.column>>)
        BY <2>6, <2>8, <3>1, <3>4 DEF PathTo
      <4> HIDE DEF up, node, x1
      <4>4. Located(Deepened(f[up - 1], <<x1.column>>), node)
        BY <2>4, <3>1, <3>3, <4>2, ElementLocated
      <4> QED BY <2>3, <4>3, <4>4 DEF node
    <3>5. CASE InMatrix(a, up)
      <4> DEFINE r == x1.row - 1
                 c == x1.column
      <4>1. Cell(up, r, c) = node /\ nodes[up].rows >= 2 /\ r \in Nat /\ c \in Nat
        BY <2>3, <2>8, <3>5, CellFound DEF InMatrix
      <4>2. Took(Took(Begun(up), r), c) = Begun(node)
        <5>1. Took(Begun(up), r) = [at |-> up, row |-> <<r>>]
          BY <3>2, <4>1 DEF Took, Begun
        <5> DEFINE one == <<r>>
        <5>2. one # <<>> /\ one[1] = r
          OBVIOUS
        <5> HIDE DEF one, up, node, r, c
        <5>3. Took([at |-> up, row |-> one], c) = [at |-> Cell(up, r, c), row |-> <<>>]
          BY <3>2, <5>2 DEF Took
        <5> QED BY <4>1, <5>1, <5>3 DEF one, Begun
      <4>3. f[v] = Deepened(f[up - 1], <<r, c>>)
        BY <2>6, <2>8, <3>1, <3>5 DEF PathTo
      <4> HIDE DEF up, node, r, c
      <4>4. Located(Deepened(f[up - 1], <<r, c>>), node)
        BY <2>4, <3>1, <4>1, <4>2, CellLocated
      <4> QED BY <2>3, <4>3, <4>4 DEF node
    <3> QED BY <3>4, <3>5
  <2>9. up = Document \/ nodes[up].kind \in {"struct", "array"}
    BY <2>4 DEF Parents
  <2> QED BY <2>7, <2>8, <2>9
<1> QED BY <1>3

\* What was told whole is found.
LEMMA ToldFound == ToldInv => PathsFindValues
<1> SUFFICES ASSUME ToldInv, outcome = "read", ~Refused, builder.error # "malformed",
                    \A id \in DOMAIN nodes : nodes[id].kind \in {"struct", "document"} => KeysUnique(id)
             PROVE  \A v \in DOMAIN Paths :
                       Lookup(Paths[v]) = IF Addressable(Paths[v]) THEN NodeOf(v) ELSE Nothing
  BY DEF PathsFindValues
<1>1. Whole(nodes, Account)
  BY DEF ToldInv
<1>2. DOMAIN Paths = 1..Len(Account.values)
  BY <1>1, PathsDefined DEF Addresses
<1>3. \A v \in 1..Len(Account.values) : Located(Paths[v], NodeOf(v))
  BY <1>1, PathsLocated
<1> QED BY <1>2, <1>3, BeyondLimits DEF Located

-----------------------------------------------------------------------------
\* A step tells one event more or none, and the end of a struct meets that struct.
LEMMA StructSteps ==
    ToldInv /\ [ToldNext]_vars =>
       (Len(told') > Len(told) /\ Last(told').ev = "struct_end" => Top(DeferredPop(Heap)).kind = "struct")
<1> SUFFICES ASSUME ToldInv, [ToldNext]_vars, Len(told') > Len(told), Last(told').ev = "struct_end"
             PROVE  Top(DeferredPop(Heap)).kind = "struct"
  OBVIOUS
<1>1. told \in Seq(EventSet) /\ Len(told) \in Nat
  BY DEF ToldInv
<1>2. told' # told
  BY <1>1
<1>3. ASSUME NEW e, told' = IF outcome' = "reading" THEN Append(told, e) ELSE told
      PROVE  e.ev = "struct_end"
  <2>1. told' = Append(told, e)
    BY <1>2, <1>3
  <2>2. Last(Append(told, e)) = e
    <3>1. Len(Append(told, e)) = Len(told) + 1 /\ Append(told, e)[Len(told) + 1] = e
      BY <1>1
    <3> QED BY <3>1 DEF Last
  <2> QED BY <2>1, <2>2
<1>4. TellStructEnd
  <2> USE DEF Tell, Event
  <2>1. ~TellStart /\ ~TellRowEnd /\ ~TellOctetsStart /\ ~ReaderFails /\ ~Destroy /\ ~UNCHANGED vars
    BY <1>2, <1>3 DEF TellStart, TellRowEnd, TellOctetsStart, ReaderFails, Destroy, vars
  <2>2. ~TellAssignment /\ ~TellOctets /\ ~TellData
    <3>1. ASSUME NEW k, told' = IF outcome' = "reading" THEN Append(told, [ev |-> "assignment_start", key |-> k]) ELSE told
          PROVE  FALSE
      BY <1>3, <3>1
    <3>2. ASSUME NEW c, told' = IF outcome' = "reading" THEN Append(told, [ev |-> "octets", chunk |-> c]) ELSE told
          PROVE  FALSE
      BY <1>3, <3>2
    <3>3. ASSUME NEW k, told' = IF outcome' = "reading" THEN Append(told, [ev |-> "data", kind |-> k]) ELSE told
          PROVE  FALSE
      BY <1>3, <3>3
    <3> QED BY <3>1, <3>2, <3>3 DEF TellAssignment, TellOctets, TellData
  <2>3. ~TellStruct /\ ~TellRow /\ ~TellSlash /\ ~TellOctetsEnd
    BY <1>3 DEF TellStruct, TellRow, TellSlash, TellOctetsEnd
  <2>4. ~\E checked \in Reports : TellEnd(checked)
    BY <1>2 DEF TellEnd
  <2> QED BY <2>1, <2>2, <2>3, <2>4 DEF ToldNext, Tells
<1>5. StructEnd /\ Stream!Say(Stream!Mark("struct_end"))
  BY <1>4 DEF TellStructEnd, Tell, Event
<1>6. Telling
  BY <1>5 DEF StructEnd, Answer, ToldInv
<1> QED BY <1>5, <1>6, StructEndAnswered

(* However the document goes, ToldInv holds: the tree, the scopes and the  *)
(* fields that remember what the next event has to finish are those of the *)
(* events told so far.                                                     *)
THEOREM ToldInvariance == ToldSpec => []ToldInv
<1> QED BY ToldStarts, ToldKept, PTL DEF ToldSpec

(* The tree is the document told so far, at every event, whatever nests in *)
(* whatever: an array is left only by the event after its last row, and no *)
(* value is attached meanwhile to the wrong container (deferred_pop and    *)
(* builder_attach in bovnar_dom.c).                                        *)
THEOREM TreeIsTheDocument == ToldSpec => []TreeMirrorsEvents
<1> QED BY ToldInvariance, ToldShown, PTL

(* on_struct_end pops the scope of the struct that ends and no other, the  *)
(* array that was waiting to be popped being gone.                         *)
THEOREM StructsEndThemselves == ToldSpec => StructEndsItself
<1>1. ToldInv /\ [ToldNext]_vars =>
        [Len(told') > Len(told) /\ Last(told').ev = "struct_end" => Top(DeferredPop(Heap)).kind = "struct"]_vars
  BY StructSteps
<1> QED BY <1>1, ToldInvariance, PTL DEF ToldSpec, StructEndsItself

(* A reader that keeps to EventStream calls the builder only as BuilderSpec *)
(* allows, whatever unit is in force where an array or an octet stream      *)
(* stands (bvn_on_verified's value_unit); what is proved of the builder     *)
(* alone -- its blocks counted and given back, containers' ones included -- *)
(* holds of it with its reader.                                             *)
THEOREM ReaderCallsBuilder == ToldSpec => BuilderSpec
<1>1. DomInit => Init
  BY DEF DomInit
<1> QED BY <1>1, ToldInvariance, BuilderSteps, PTL DEF ToldSpec, BuilderSpec

(* A document read to its end without an error, whose structs have no key  *)
(* twice: every value is found under the path a reader of the document     *)
(* would write (bvn_dom_lookup and bvn_dom_apply_indices in bovnar_dom.c), *)
(* through arrays of arrays and past the rows whose widths are recorded -- *)
(* as long as no key of the path has more indices after it than idx[] has  *)
(* room for.  Every value deeper than that is found under its path by no   *)
(* look-up, and no other value in its place.  segment[] cuts no path of a  *)
(* document short: the reader refuses the keys it has no room for.         *)
THEOREM ValuesFoundByPath == ToldSpec => []PathsFindValues
<1> QED BY ToldInvariance, ToldFound, PTL
=============================================================================

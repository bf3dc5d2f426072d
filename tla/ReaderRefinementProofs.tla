------------------------ MODULE ReaderRefinementProofs ------------------------
(***************************************************************************)
(* The reader says what EventStream allows, for every set of types and     *)
(* every limit: whatever a byte makes it do, the events of that step lead  *)
(* a consumer from what it knew of the document to what is so after it.    *)
(***************************************************************************)
EXTENDS ReaderProofs, WellFoundedInduction

-----------------------------------------------------------------------------
(* The event stream.  A batch leads a consumer from view to view.          *)

\* Sets of naturals have a least element.
LEMMA LeastNatural ==
    ASSUME NEW T, T \subseteq Nat, NEW x \in T
    PROVE  \E m \in T : \A k \in T : m <= k
<1> DEFINE R == {p \in Nat \X Nat : p[1] < p[2]}
<1>1. IsWellFoundedOn(R, Nat)
  BY NatLessThanWellFounded DEF OpToRel
<1> HIDE DEF R
<1>2. PICK m \in T : \A k \in T : ~(<<k, m>> \in R)
  BY <1>1, WFMin
<1>3. \A j, k \in Nat : ~(<<k, j>> \in R) => j <= k
  BY DEF R
<1> QED BY <1>2, <1>3

\* f says, for every k up to n, what the first k events of evs can leave behind.
Heard(f, evs, n) ==
    f = [k \in 0..n |-> IF k = 0 THEN {ES!Current} ELSE UNION {ES!After(c, evs[k]) : c \in f[k - 1]}]

\* The recursive function of EventStream is the one its equation describes.
LEMMA HeardDefined ==
    ASSUME NEW evs, Len(evs) \in Nat
    PROVE  Heard(ES!Heard(evs), evs, Len(evs))
<1> DEFINE None == {n \in Nat : ~\E f : Heard(f, evs, n)}
<1>1. ASSUME NEW n \in None PROVE FALSE
  <2>1. PICK m \in None : \A k \in None : m <= k
    BY LeastNatural
  <2>2. m \in Nat /\ ~\E f : Heard(f, evs, m)
    OBVIOUS
  <2>3. CASE m = 0
    <3>1. Heard([k \in 0..0 |-> {ES!Current}], evs, 0)
      BY DEF Heard
    <3> QED BY <2>2, <2>3, <3>1
  <2>4. CASE m # 0
    <3>1. m - 1 \in Nat /\ ~(m <= m - 1)
      BY <2>2, <2>4
    <3>2. PICK f : Heard(f, evs, m - 1)
      BY <2>1, <3>1
    <3> DEFINE step(h, k) == IF k = 0 THEN {ES!Current} ELSE UNION {ES!After(c, evs[k]) : c \in h[k - 1]}
               g == [k \in 0..m |-> step(f, k)]
    <3>3. f = [k \in 0..(m - 1) |-> step(f, k)]
      BY <3>2 DEF Heard
    <3>4. ASSUME NEW k \in 0..m, k # 0 PROVE g[k - 1] = f[k - 1]
      <4>1. k - 1 \in 0..(m - 1) /\ k - 1 \in 0..m
        BY <2>2, <3>4
      <4> HIDE DEF step
      <4> QED BY <3>3, <4>1
    <3>5. ASSUME NEW k \in 0..m PROVE step(g, k) = step(f, k)
      <4> HIDE DEF g
      <4> QED BY <3>4
    <3>6. g = [k \in 0..m |-> step(g, k)]
      <4> HIDE DEF step
      <4> QED BY <3>5
    <3>7. Heard(g, evs, m)
      BY <3>6 DEF Heard
    <3> QED BY <2>2, <3>7
  <2> QED BY <2>3, <2>4
<1>2. \E f : Heard(f, evs, Len(evs))
  BY <1>1
<1>3. ES!Heard(evs) = CHOOSE f : Heard(f, evs, Len(evs))
  BY DEF ES!Heard, Heard
<1> QED BY <1>2, <1>3

\* A consumer whose view is c can be told evs and then have the view d: it has
\* a view after each of them.
Leads(c, evs, d) ==
    /\ Len(evs) \in Nat
    /\ \E w : /\ w[0] = c /\ w[Len(evs)] = d
              /\ \A k \in 1..Len(evs) : w[k] \in ES!After(w[k - 1], evs[k])

\* A walk is one whatever names it.
LEMMA LeadsIf ==
    ASSUME NEW c, NEW evs, NEW d, NEW w, Len(evs) \in Nat, w[0] = c, w[Len(evs)] = d,
           \A k \in 1..Len(evs) : w[k] \in ES!After(w[k - 1], evs[k])
    PROVE  Leads(c, evs, d)
BY DEF Leads

\* Then evs is a legal batch, and so is whatever it begins with.
LEMMA LeadsDelivers ==
    ASSUME NEW evs, NEW d, Leads(ES!Current, evs, d)
    PROVE  d \in ES!Delivered(evs)
<1>1. PICK w : /\ w[0] = ES!Current /\ w[Len(evs)] = d
               /\ \A k \in 1..Len(evs) : w[k] \in ES!After(w[k - 1], evs[k])
  BY DEF Leads
<1>2. Len(evs) \in Nat
  BY DEF Leads
<1> DEFINE h == ES!Heard(evs)
           Out == {k \in 0..Len(evs) : w[k] \notin h[k]}
<1>3. h = [k \in 0..Len(evs) |-> IF k = 0 THEN {ES!Current} ELSE UNION {ES!After(c, evs[k]) : c \in h[k - 1]}]
  BY <1>2, HeardDefined DEF Heard
<1> HIDE DEF h
<1>4. h[0] = {ES!Current} /\ \A k \in 1..Len(evs) : h[k] = UNION {ES!After(c, evs[k]) : c \in h[k - 1]}
  <2> DEFINE next(k) == UNION {ES!After(c, evs[k]) : c \in h[k - 1]}
  <2>1. h = [k \in 0..Len(evs) |-> IF k = 0 THEN {ES!Current} ELSE next(k)]
    BY <1>3
  <2>2. h[0] = {ES!Current} /\ \A k \in 1..Len(evs) : h[k] = next(k)
    <3> HIDE DEF next
    <3> QED BY <1>2, <2>1
  <2> QED BY <2>2
<1>5. ASSUME NEW k \in Out PROVE FALSE
  <2>1. PICK m \in Out : \A j \in Out : m <= j
    <3>1. Out \subseteq Nat /\ k \in Out
      BY <1>2, <1>5
    <3> HIDE DEF Out
    <3> QED BY <3>1, LeastNatural
  <2>2. m # 0
    BY <1>1, <1>4
  <2>3. m \in 1..Len(evs) /\ m - 1 \in 0..Len(evs) /\ m - 1 \notin Out
    BY <1>2, <2>1, <2>2
  <2>4. w[m - 1] \in h[m - 1] /\ w[m] \in ES!After(w[m - 1], evs[m])
    BY <1>1, <2>3
  <2> QED BY <1>4, <2>1, <2>3, <2>4
<1>6. d \in h[Len(evs)]
  BY <1>1, <1>2, <1>5
<1> QED BY <1>6 DEF ES!Delivered, h

\* A batch that leads somewhere leads somewhere at each of its events.
LEMMA LeadsThrough ==
    ASSUME NEW evs \in Seq(AnyEvent), NEW c, NEW d, Leads(c, evs, d), NEW k \in 0..Len(evs)
    PROVE  \E e : Leads(c, SubSeq(evs, 1, k), e)
<1>1. PICK w : /\ w[0] = c /\ \A j \in 1..Len(evs) : w[j] \in ES!After(w[j - 1], evs[j])
  BY DEF Leads
<1>2. /\ Len(SubSeq(evs, 1, k)) = k /\ k \in Nat
      /\ \A j \in 1..k : j \in 1..Len(evs) /\ SubSeq(evs, 1, k)[j] = evs[j]
  OBVIOUS
<1>3. Leads(c, SubSeq(evs, 1, k), w[k])
  BY <1>1, <1>2 DEF Leads
<1> QED BY <1>3

\* No event leads nowhere, one event where it leads, and two batches on from
\* one to the other.
LEMMA LeadsNowhere == ASSUME NEW c PROVE Leads(c, <<>>, c)
<1> DEFINE w == [k \in {0} |-> c]
<1>1. w[0] = c /\ Len(<<>>) = 0 /\ 1..0 = {}
  OBVIOUS
<1> HIDE DEF w
<1>2. \A k \in 1..Len(<<>>) : w[k] \in ES!After(w[k - 1], <<>>[k])
  BY <1>1
<1>3. Len(<<>>) \in Nat /\ w[Len(<<>>)] = c
  BY <1>1
<1> QED BY <1>1, <1>2, <1>3, LeadsIf

\* One event.
LEMMA LeadsByOne ==
    ASSUME NEW c, NEW e, NEW d \in ES!After(c, e)
    PROVE  Leads(c, <<e>>, d)
<1> DEFINE w == [k \in 0..1 |-> IF k = 0 THEN c ELSE d]
<1>1. w[0] = c /\ w[1] = d /\ Len(<<e>>) = 1 /\ <<e>>[1] = e
  OBVIOUS
<1> HIDE DEF w
<1>2. \A k \in 1..Len(<<e>>) : w[k] \in ES!After(w[k - 1], <<e>>[k])
  BY <1>1
<1> QED BY <1>1, <1>2 DEF Leads

\* Batch after batch.
LEMMA LeadsOn ==
    ASSUME NEW a \in Seq(AnyEvent), NEW b \in Seq(AnyEvent), NEW c, NEW d, NEW e, Leads(c, a, d), Leads(d, b, e)
    PROVE  Leads(c, a \o b, e)
<1>1. PICK w1 : /\ w1[0] = c /\ w1[Len(a)] = d
                /\ \A k \in 1..Len(a) : w1[k] \in ES!After(w1[k - 1], a[k])
  BY DEF Leads
<1>2. PICK w2 : /\ w2[0] = d /\ w2[Len(b)] = e
                /\ \A k \in 1..Len(b) : w2[k] \in ES!After(w2[k - 1], b[k])
  BY DEF Leads
<1> DEFINE w == [k \in 0..(Len(a) + Len(b)) |-> IF k <= Len(a) THEN w1[k] ELSE w2[k - Len(a)]]
<1>3. /\ Len(a) \in Nat /\ Len(b) \in Nat /\ Len(a \o b) = Len(a) + Len(b)
      /\ \A k \in 1..Len(a) : (a \o b)[k] = a[k]
      /\ \A k \in 1..Len(b) : (a \o b)[Len(a) + k] = b[k]
  OBVIOUS
<1>4. /\ \A k \in 0..Len(a) : w[k] = w1[k]
      /\ \A k \in 0..Len(b) : w[Len(a) + k] = w2[k]
  <2>1. ASSUME NEW k \in 0..Len(b) PROVE w[Len(a) + k] = w2[k]
    <3>1. CASE k = 0
      BY <1>1, <1>2, <1>3, <3>1
    <3>2. CASE k # 0
      BY <1>3, <3>2
    <3> QED BY <3>1, <3>2
  <2> QED BY <1>3, <2>1
<1> HIDE DEF w
<1>5. w[0] = c /\ w[Len(a \o b)] = e
  BY <1>1, <1>2, <1>3, <1>4
<1>6. ASSUME NEW k \in 1..Len(a \o b) PROVE w[k] \in ES!After(w[k - 1], (a \o b)[k])
  <2>1. CASE k \in 1..Len(a)
    <3>1. k - 1 \in 0..Len(a) /\ k \in 0..Len(a)
      BY <1>3, <2>1
    <3> QED BY <1>1, <1>3, <1>4, <2>1, <3>1
  <2>2. CASE k \notin 1..Len(a)
    <3> DEFINE j == k - Len(a)
    <3>1. j \in 1..Len(b) /\ j - 1 \in 0..Len(b) /\ j \in 0..Len(b) /\ k = Len(a) + j /\ k - 1 = Len(a) + (j - 1)
      BY <1>3, <2>2
    <3> HIDE DEF j
    <3> QED BY <1>2, <1>3, <1>4, <3>1
  <2> QED BY <2>1, <2>2
<1>7. Len(a \o b) \in Nat
  BY <1>3
<1> QED BY <1>5, <1>6, <1>7, LeadsIf

\* The alternatives of After, for provers that know no CASE.
LEMMA AfterCases ==
    ASSUME NEW c, NEW t
    PROVE  /\ ES!After(c, Mark("stream_start")) = IF c.expect = "start" THEN {ES!View(<<>>, "key", Plain)} ELSE {}
           /\ ES!After(c, Mark("assignment_start")) =
                IF ES!Resting(c).expect = "key" THEN {ES!View(ES!Resting(c).open, "value", Plain)} ELSE {}
           /\ ES!After(c, Event("annotation", t)) =
                IF ES!WantsValue(ES!Resting(c)) THEN {ES!View(ES!Resting(c).open, ES!Resting(c).expect, t)} ELSE {}
           /\ ES!After(c, Event("data", t)) =
                IF ES!WantsValue(ES!Resting(c)) /\ t = ES!Resting(c).force THEN {ES!Settled(ES!Resting(c))} ELSE {}
           /\ ES!After(c, Mark("struct_start")) =
                IF ES!WantsValue(ES!Resting(c)) /\ ES!Resting(c).force = Plain
                THEN {ES!Opened(ES!Resting(c), "struct", "key", Plain)} ELSE {}
           /\ ES!After(c, Mark("struct_end")) =
                IF ES!Resting(c).expect = "key" /\ ES!InStruct(ES!Resting(c))
                THEN {ES!Settled(ES!Closed(ES!Resting(c)))} ELSE {}
           /\ ES!After(c, Event("row_start", t)) =
                IF (ES!WantsValue(ES!Resting(c)) \/ c.expect = "row") /\ t = ES!Resting(c).force
                THEN {ES!Opened(ES!Resting(c), ES!Resting(c).force, "item", ES!Resting(c).force)} ELSE {}
           /\ ES!After(c, Mark("row_end")) =
                IF ES!Resting(c).expect = "item"
                THEN {ES!View(ES!Front(ES!Resting(c).open), "row_done", ES!Last(ES!Resting(c).open))} ELSE {}
           /\ ES!After(c, Mark("dim_start")) =
                IF c.expect = "row_done" THEN {ES!View(c.open, "row", c.force)} ELSE {}
           /\ ES!After(c, Mark("octets_start")) =
                IF ES!WantsValue(ES!Resting(c))
                THEN {ES!View(ES!Resting(c).open, "octets", ES!Resting(c).force)} ELSE {}
           /\ ES!After(c, Mark("octets")) = IF c.expect = "octets" THEN {c} ELSE {}
           /\ ES!After(c, Mark("octets_end")) = IF c.expect = "octets" THEN {ES!Settled(c)} ELSE {}
           /\ ES!After(c, Mark("stream_end")) =
                IF ES!Resting(c).expect = "key" /\ ES!Resting(c).open = <<>> THEN {ES!View(<<>>, "end", Plain)} ELSE {}
           /\ ES!After(c, Error) = IF c.expect \in {"start", "end", "stopped"} THEN {} ELSE {ES!Settled(c)}
           /\ ES!After(c, CommentError) = IF c.expect \in {"start", "end", "stopped"} THEN {} ELSE {c}
<1>1. ES!After(c, Mark("stream_start")) = IF c.expect = "start" THEN {ES!View(<<>>, "key", Plain)} ELSE {}
  BY DEF ES!After, ES!Struct, Event, Mark, Error, CommentError
<1>2. ES!After(c, Mark("assignment_start")) =
                IF ES!Resting(c).expect = "key" THEN {ES!View(ES!Resting(c).open, "value", Plain)} ELSE {}
  BY DEF ES!After, ES!Struct, Event, Mark, Error, CommentError
<1>3. ES!After(c, Event("annotation", t)) =
                IF ES!WantsValue(ES!Resting(c)) THEN {ES!View(ES!Resting(c).open, ES!Resting(c).expect, t)} ELSE {}
  BY DEF ES!After, ES!Struct, Event, Mark, Error, CommentError
<1>4. ES!After(c, Event("data", t)) =
                IF ES!WantsValue(ES!Resting(c)) /\ t = ES!Resting(c).force THEN {ES!Settled(ES!Resting(c))} ELSE {}
  BY DEF ES!After, ES!Struct, Event, Mark, Error, CommentError
<1>5. ES!After(c, Mark("struct_start")) =
                IF ES!WantsValue(ES!Resting(c)) /\ ES!Resting(c).force = Plain
                THEN {ES!Opened(ES!Resting(c), "struct", "key", Plain)} ELSE {}
  BY DEF ES!After, ES!Struct, Event, Mark, Error, CommentError
<1>6. ES!After(c, Mark("struct_end")) =
                IF ES!Resting(c).expect = "key" /\ ES!InStruct(ES!Resting(c))
                THEN {ES!Settled(ES!Closed(ES!Resting(c)))} ELSE {}
  BY DEF ES!After, ES!Struct, Event, Mark, Error, CommentError
<1>7. ES!After(c, Event("row_start", t)) =
                IF (ES!WantsValue(ES!Resting(c)) \/ c.expect = "row") /\ t = ES!Resting(c).force
                THEN {ES!Opened(ES!Resting(c), ES!Resting(c).force, "item", ES!Resting(c).force)} ELSE {}
  BY DEF ES!After, ES!Struct, Event, Mark, Error, CommentError
<1>8. ES!After(c, Mark("row_end")) =
                IF ES!Resting(c).expect = "item"
                THEN {ES!View(ES!Front(ES!Resting(c).open), "row_done", ES!Last(ES!Resting(c).open))} ELSE {}
  BY DEF ES!After, ES!Struct, Event, Mark, Error, CommentError
<1>9. ES!After(c, Mark("dim_start")) =
                IF c.expect = "row_done" THEN {ES!View(c.open, "row", c.force)} ELSE {}
  BY DEF ES!After, ES!Struct, Event, Mark, Error, CommentError
<1>10. ES!After(c, Mark("octets_start")) =
                IF ES!WantsValue(ES!Resting(c))
                THEN {ES!View(ES!Resting(c).open, "octets", ES!Resting(c).force)} ELSE {}
  BY DEF ES!After, ES!Struct, Event, Mark, Error, CommentError
<1>11. ES!After(c, Mark("octets")) = IF c.expect = "octets" THEN {c} ELSE {}
  BY DEF ES!After, ES!Struct, Event, Mark, Error, CommentError
<1>12. ES!After(c, Mark("octets_end")) = IF c.expect = "octets" THEN {ES!Settled(c)} ELSE {}
  BY DEF ES!After, ES!Struct, Event, Mark, Error, CommentError
<1>13. ES!After(c, Mark("stream_end")) =
                IF ES!Resting(c).expect = "key" /\ ES!Resting(c).open = <<>> THEN {ES!View(<<>>, "end", Plain)} ELSE {}
  BY DEF ES!After, ES!Struct, Event, Mark, Error, CommentError
<1>14. ES!After(c, Error) = IF c.expect \in {"start", "end", "stopped"} THEN {} ELSE {ES!Settled(c)}
  BY DEF ES!After, ES!Struct, Event, Mark, Error, CommentError
<1>15. ES!After(c, CommentError) = IF c.expect \in {"start", "end", "stopped"} THEN {} ELSE {c}
  BY DEF ES!After, ES!Struct, Event, Mark, Error, CommentError
<1> QED BY <1>1, <1>2, <1>3, <1>4, <1>5, <1>6, <1>7, <1>8, <1>9, <1>10, <1>11, <1>12, <1>13, <1>14, <1>15

-----------------------------------------------------------------------------
(* The stack of containers that the frames stand for.                      *)

\* What may be open: structs, and arrays by the type of their elements.
Containers == Types \cup {"struct"}

\* What the frames make of it: array i stands above the structs that were open
\* when it was opened, and all else are structs.
StackRight ==
    /\ struct_nesting_level \in Nat /\ array_nesting_level \in Nat
    /\ Stack \in Seq(Containers) /\ Len(Stack) = struct_nesting_level + array_nesting_level
    /\ \A i \in 1..array_nesting_level :
          /\ OpenLevel(i) \in 0..struct_nesting_level
          /\ Stack[i + OpenLevel(i)] = arr_frames[i - 1].saved_vtype
          /\ arr_frames[i - 1].saved_vtype \in Types
    /\ \A i, j \in 1..array_nesting_level : i <= j => OpenLevel(i) <= OpenLevel(j)
    /\ \A p \in 1..Len(Stack) :
          (\A i \in 1..array_nesting_level : i + OpenLevel(i) # p) => Stack[p] = "struct"

\* Where each container stands is settled by the levels the frames remember.
LEMMA StackIsRight == Nested => StackRight
<1> SUFFICES ASSUME Nested PROVE StackRight
  OBVIOUS
<1> DEFINE s == struct_nesting_level
           n == array_nesting_level
<1>1. s \in Nat /\ n \in Levels /\ n \in Nat /\ arr_frames \in [Levels -> Frame] /\ max_array_nesting \in Nat
  BY LimitsAssumption DEF Nested, NestingTypeOK, Levels
<1>2. ASSUME NEW i \in 1..n PROVE OpenLevel(i) \in 0..s /\ arr_frames[i - 1].saved_vtype \in Types
  <2>1. i \in Levels /\ i - 1 \in Levels
    BY <1>1 DEF Levels
  <2>2. arr_frames[i] \in Frame /\ arr_frames[i - 1] \in Frame
    BY <1>1, <2>1
  <2> QED BY <1>1, <1>2, <2>2 DEF Frame, OpenLevel, Nested, FramesOrdered
<1>3. \A i, j \in 1..n : i <= j => OpenLevel(i) <= OpenLevel(j)
  BY DEF Nested, FramesOrdered
<1>4. ASSUME NEW i \in 1..n PROVE StackedAt(i + OpenLevel(i)) = arr_frames[i - 1].saved_vtype
  <2> DEFINE here == {j \in 1..n : j + OpenLevel(j) = i + OpenLevel(i)}
  <2>1. ASSUME NEW j \in here PROVE j = i
    <3>1. CASE j <= i
      BY <1>1, <1>2, <1>3, <3>1
    <3>2. CASE ~(j <= i)
      BY <1>1, <1>2, <1>3, <3>2
    <3> QED BY <3>1, <3>2
  <2>2. here = {i}
    BY <2>1
  <2> HIDE DEF here
  <2>3. here # {} /\ (CHOOSE j \in here : TRUE) = i
    BY <2>2
  <2> QED BY <2>3 DEF StackedAt, here
<1>5. ASSUME NEW p, \A i \in 1..n : i + OpenLevel(i) # p PROVE StackedAt(p) = "struct"
  <2>1. {i \in 1..n : i + OpenLevel(i) = p} = {}
    BY <1>5
  <2> QED BY <2>1 DEF StackedAt
<1>6. \A p \in 1..(s + n) : StackedAt(p) \in Containers
  BY <1>2, <1>4, <1>5 DEF Containers
<1> HIDE DEF s, n
<1>7. Stack = [p \in 1..(s + n) |-> StackedAt(p)] /\ s + n \in Nat
  BY <1>1 DEF Stack, s, n
<1>8. Stack \in Seq(Containers) /\ Len(Stack) = s + n /\ \A p \in 1..(s + n) : Stack[p] = StackedAt(p)
  BY <1>6, <1>7
<1>9. \A i \in 1..n : i + OpenLevel(i) \in 1..(s + n)
  BY <1>1, <1>2
<1> QED BY <1>1, <1>2, <1>3, <1>4, <1>5, <1>8, <1>9 DEF s, n, StackRight

\* The same after a step.
LEMMA StackIsRightNext == Nested' => StackRight'
BY StackIsRight, PTL

\* Two stacks with the same arrays in the same places are one.
LEMMA StackWith ==
    ASSUME Nested', NEW st \in Seq(Containers), Len(st) = struct_nesting_level' + array_nesting_level',
           \A i \in 1..array_nesting_level' : st[i + arr_frames'[i].open_struct_level] = arr_frames'[i - 1].saved_vtype,
           \A p \in 1..Len(st) :
              (\A i \in 1..array_nesting_level' : i + arr_frames'[i].open_struct_level # p) => st[p] = "struct"
    PROVE  Stack' = st
<1>1. StackRight'
  BY StackIsRightNext
<1>2. Len(Stack') = Len(st) /\ Stack' \in Seq(Containers)
  BY <1>1 DEF StackRight
<1>3. ASSUME NEW p \in 1..Len(st) PROVE Stack'[p] = st[p]
  <2>1. CASE \E i \in 1..array_nesting_level' : i + arr_frames'[i].open_struct_level = p
    BY <1>1, <2>1 DEF StackRight, OpenLevel
  <2>2. CASE \A i \in 1..array_nesting_level' : i + arr_frames'[i].open_struct_level # p
    BY <1>1, <1>2, <2>2 DEF StackRight, OpenLevel
  <2> QED BY <2>1, <2>2
<1> HIDE DEF Stack
<1> QED BY <1>2, <1>3

\* What is closed is what stands above it.
LEMMA StackCut ==
    ASSUME Nested, Nested',
           array_nesting_level' <= array_nesting_level, struct_nesting_level' <= struct_nesting_level,
           \A i \in 1..array_nesting_level' :
              /\ arr_frames'[i].open_struct_level = OpenLevel(i)
              /\ arr_frames'[i - 1].saved_vtype = arr_frames[i - 1].saved_vtype,
           \A i \in 1..array_nesting_level :
              i > array_nesting_level' => i + OpenLevel(i) > struct_nesting_level' + array_nesting_level'
    PROVE  Stack' = SubSeq(Stack, 1, struct_nesting_level' + array_nesting_level')
<1> DEFINE top == struct_nesting_level' + array_nesting_level'
           st  == SubSeq(Stack, 1, top)
<1>1. StackRight /\ StackRight'
  BY StackIsRight, StackIsRightNext
<1>2. top \in 0..Len(Stack) /\ Stack \in Seq(Containers) /\ array_nesting_level' \in Nat /\ array_nesting_level \in Nat
  <2>1. /\ Stack \in Seq(Containers) /\ Len(Stack) = struct_nesting_level + array_nesting_level
        /\ array_nesting_level' \in Nat /\ array_nesting_level \in Nat
        /\ struct_nesting_level' \in Nat /\ struct_nesting_level \in Nat
    BY <1>1 DEF StackRight
  <2>2. struct_nesting_level' + array_nesting_level' \in 0..(struct_nesting_level + array_nesting_level)
    <3>1. \A a, b, c, d \in Nat : c <= a /\ d <= b => c + d \in 0..(a + b)
      BY SMT
    <3> QED BY <2>1, <3>1, Zenon
  <2> QED BY <2>1, <2>2
<1> HIDE DEF top
<1>3. st \in Seq(Containers) /\ Len(st) = top /\ \A p \in 1..top : st[p] = Stack[p] /\ p \in 1..Len(Stack)
  <2> HIDE DEF Stack
  <2> QED BY <1>2
<1> HIDE DEF st
<1>4. ASSUME NEW i \in 1..array_nesting_level'
      PROVE  st[i + arr_frames'[i].open_struct_level] = arr_frames'[i - 1].saved_vtype
  <2>1. i \in 1..array_nesting_level
    BY <1>2
  <2>2. i + arr_frames'[i].open_struct_level \in 1..top
    <3> DEFINE level(j) == arr_frames'[j].open_struct_level
    <3>1. \A j \in 1..array_nesting_level' : level(j) \in 0..struct_nesting_level'
      BY <1>1 DEF StackRight, OpenLevel
    <3>2. struct_nesting_level' \in Nat /\ array_nesting_level' \in Nat
      BY <1>1 DEF StackRight
    <3> HIDE DEF level
    <3>3. i + level(i) \in 1..top
      BY <3>1, <3>2 DEF top
    <3> QED BY <3>3 DEF level
  <2> QED BY <1>1, <1>3, <2>1, <2>2 DEF StackRight
<1>5. ASSUME NEW p \in 1..Len(st), \A i \in 1..array_nesting_level' : i + arr_frames'[i].open_struct_level # p
      PROVE  st[p] = "struct"
  <2>1. ASSUME NEW i \in 1..array_nesting_level PROVE i + OpenLevel(i) # p
    <3>1. CASE i <= array_nesting_level'
      <4>1. i \in 1..array_nesting_level'
        BY <1>2, <3>1
      <4>2. arr_frames'[i].open_struct_level = OpenLevel(i)
        BY <4>1
      <4> QED BY <1>5, <4>1, <4>2
    <3>2. CASE ~(i <= array_nesting_level')
      <4>1. i > array_nesting_level'
        BY <1>2, <3>2
      <4>2. i + OpenLevel(i) > top
        BY <4>1 DEF top
      <4> QED BY <1>2, <1>3, <4>2
    <3> QED BY <3>1, <3>2
  <2>2. Stack[p] = "struct"
    BY <1>1, <1>3, <2>1 DEF StackRight
  <2> QED BY <1>3, <2>2
<1>6. Stack' = st
  BY <1>3, <1>4, <1>5, StackWith DEF top
<1> QED BY <1>6 DEF st, top

\* Levels and element types are all the stack depends on.
LEMMA StackKept ==
    ASSUME Nested, Nested', UNCHANGED <<struct_nesting_level, array_nesting_level>>,
           \A i \in 1..array_nesting_level :
              /\ arr_frames'[i].open_struct_level = OpenLevel(i)
              /\ arr_frames'[i - 1].saved_vtype = arr_frames[i - 1].saved_vtype
    PROVE  Stack' = Stack
<1>1. StackRight
  BY StackIsRight
<1>2. Stack' = SubSeq(Stack, 1, struct_nesting_level + array_nesting_level)
  BY <1>1, StackCut DEF StackRight
<1>3. Stack \in Seq(Containers) /\ Len(Stack) = struct_nesting_level + array_nesting_level
  BY <1>1 DEF StackRight
<1> HIDE DEF Stack
<1> QED BY <1>2, <1>3

\* Frames that do not change stand for the same containers.
LEMMA StackUnchanged ==
    ASSUME UNCHANGED <<struct_nesting_level, array_nesting_level, arr_frames>>
    PROVE  Stack' = Stack
BY DEF Stack, StackedAt, OpenLevel

\* What is opened stands on top.
LEMMA StackStruct ==
    ASSUME Nested, Nested', struct_nesting_level' = struct_nesting_level + 1,
           UNCHANGED <<array_nesting_level, arr_frames>>
    PROVE  Stack' = Append(Stack, "struct")
<1>1. StackRight /\ StackRight'
  BY StackIsRight, StackIsRightNext
<1> DEFINE st == Append(Stack, "struct")
<1>2. /\ st \in Seq(Containers) /\ Len(st) = Len(Stack) + 1 /\ Len(Stack) \in Nat
      /\ st[Len(Stack) + 1] = "struct" /\ \A p \in 1..Len(Stack) : st[p] = Stack[p]
  <2>1. Stack \in Seq(Containers) /\ "struct" \in Containers
    BY <1>1 DEF StackRight, Containers
  <2> HIDE DEF Stack
  <2> QED BY <2>1
<1> HIDE DEF st
<1>3. ASSUME NEW i \in 1..array_nesting_level'
      PROVE  st[i + arr_frames'[i].open_struct_level] = arr_frames'[i - 1].saved_vtype
  <2>1. i + OpenLevel(i) \in 1..Len(Stack)
    BY <1>1 DEF StackRight
  <2> QED BY <1>1, <1>2, <2>1 DEF StackRight, OpenLevel
<1>4. ASSUME NEW p \in 1..Len(st), \A i \in 1..array_nesting_level' : i + arr_frames'[i].open_struct_level # p
      PROVE  st[p] = "struct"
  <2>1. CASE p \in 1..Len(Stack)
    BY <1>1, <1>2, <1>4, <2>1 DEF StackRight, OpenLevel
  <2>2. CASE p \notin 1..Len(Stack)
    BY <1>2, <2>2
  <2> QED BY <2>1, <2>2
<1>5. Len(st) = struct_nesting_level' + array_nesting_level'
  BY <1>1, <1>2 DEF StackRight
<1> QED BY <1>2, <1>3, <1>4, <1>5, StackWith DEF st

\* An array opens over the structs that are open.
LEMMA StackArray ==
    ASSUME Nested, Nested', array_nesting_level' = array_nesting_level + 1, UNCHANGED struct_nesting_level,
           \A i \in 1..array_nesting_level :
              /\ arr_frames'[i].open_struct_level = OpenLevel(i)
              /\ arr_frames'[i - 1].saved_vtype = arr_frames[i - 1].saved_vtype,
           arr_frames'[array_nesting_level + 1].open_struct_level = struct_nesting_level
    PROVE  Stack' = Append(Stack, arr_frames'[array_nesting_level].saved_vtype)
<1>1. StackRight /\ StackRight'
  BY StackIsRight, StackIsRightNext
<1> DEFINE n  == array_nesting_level
           st == Append(Stack, arr_frames'[n].saved_vtype)
<1>2. n \in Nat /\ n + 1 \in 1..array_nesting_level' /\ Len(Stack) = struct_nesting_level + n /\ struct_nesting_level \in Nat
  BY <1>1 DEF StackRight
<1>3. arr_frames'[n].saved_vtype \in Types
  <2>1. arr_frames'[n + 1 - 1].saved_vtype \in Types
    BY <1>1, <1>2 DEF StackRight
  <2> QED BY <1>2, <2>1
<1>4. /\ st \in Seq(Containers) /\ Len(st) = Len(Stack) + 1
      /\ st[Len(Stack) + 1] = arr_frames'[n].saved_vtype /\ \A p \in 1..Len(Stack) : st[p] = Stack[p]
  <2>1. Stack \in Seq(Containers) /\ arr_frames'[n].saved_vtype \in Containers
    BY <1>1, <1>3 DEF StackRight, Containers
  <2> HIDE DEF Stack
  <2> QED BY <2>1
<1> HIDE DEF st
<1>5. ASSUME NEW i \in 1..array_nesting_level'
      PROVE  st[i + arr_frames'[i].open_struct_level] = arr_frames'[i - 1].saved_vtype
  <2>1. CASE i \in 1..n
    <3>1. i + OpenLevel(i) \in 1..Len(Stack)
      BY <1>1, <2>1 DEF StackRight
    <3> QED BY <1>1, <1>4, <2>1, <3>1 DEF StackRight
  <2>2. CASE i \notin 1..n
    <3>1. i = n + 1 /\ i - 1 = n
      BY <1>2, <2>2
    <3> QED BY <1>2, <1>4, <3>1
  <2> QED BY <2>1, <2>2
<1>6. ASSUME NEW p \in 1..Len(st), \A i \in 1..array_nesting_level' : i + arr_frames'[i].open_struct_level # p
      PROVE  st[p] = "struct"
  <2>1. p \in 1..Len(Stack)
    <3>1. n + 1 + struct_nesting_level # p
      BY <1>2, <1>6
    <3> QED BY <1>2, <1>4, <3>1
  <2>2. ASSUME NEW i \in 1..n PROVE i + OpenLevel(i) # p
    BY <1>2, <1>6
  <2> QED BY <1>1, <1>4, <2>1, <2>2 DEF StackRight
<1>7. Len(st) = struct_nesting_level' + array_nesting_level'
  BY <1>2, <1>4
<1> QED BY <1>4, <1>5, <1>6, <1>7, StackWith DEF st

\* The rows that recovery closes are the top of the stack; below them is a struct.
LEMMA RowsAbove ==
    ASSUME Nested, NEW base \in 0..array_nesting_level, OwnBase(base, struct_nesting_level)
    PROVE  /\ \A p \in 1..Len(Stack) : p > struct_nesting_level + base => Stack[p] \in Types
           /\ struct_nesting_level > 0 => Stack[struct_nesting_level + base] = "struct"
           /\ struct_nesting_level = 0 => base = 0
           /\ \A i \in 1..base : OpenLevel(i) < struct_nesting_level
<1>1. StackRight
  BY StackIsRight
<1> DEFINE s == struct_nesting_level
           n == array_nesting_level
<1>2. /\ s \in Nat /\ n \in Nat /\ base \in Nat /\ base <= n /\ Len(Stack) = s + n
      /\ \A i \in 1..n : OpenLevel(i) \in 0..s
      /\ \A i, j \in 1..n : i <= j => OpenLevel(i) <= OpenLevel(j)
  BY <1>1 DEF StackRight
<1>3. \A i \in (base + 1)..n : OpenLevel(i) = s
  BY DEF OwnBase, OpenLevel
<1>4. base = 0 \/ OpenLevel(base) # s
  BY DEF OwnBase, OpenLevel
<1>5. \A i \in 1..base : OpenLevel(i) < s
  <2>1. ASSUME NEW i \in 1..base PROVE OpenLevel(i) < s
    <3>1. i \in 1..n /\ base \in 1..n /\ base # 0
      BY <1>2, <2>1
    <3>2. OpenLevel(i) <= OpenLevel(base) /\ OpenLevel(i) \in 0..s /\ OpenLevel(base) \in 0..s
      BY <1>2, <3>1
    <3> QED BY <1>2, <1>4, <3>1, <3>2
  <2> QED BY <2>1
<1>6. ASSUME NEW p \in 1..Len(Stack), p > s + base PROVE Stack[p] \in Types
  <2> DEFINE i == p - s
  <2>1. i \in (base + 1)..n /\ i \in 1..n /\ p = i + s
    BY <1>2, <1>6
  <2> HIDE DEF i
  <2>2. p = i + OpenLevel(i)
    BY <1>3, <2>1
  <2> QED BY <1>1, <2>1, <2>2 DEF StackRight
<1>7. ASSUME s > 0 PROVE Stack[s + base] = "struct"
  <2>1. ASSUME NEW i \in 1..n PROVE i + OpenLevel(i) # s + base
    <3>1. CASE i <= base
      BY <1>2, <1>5, <3>1
    <3>2. CASE ~(i <= base)
      BY <1>2, <1>3, <3>2
    <3> QED BY <3>1, <3>2
  <2>2. s + base \in 1..Len(Stack)
    BY <1>2, <1>7
  <2> QED BY <1>1, <2>1, <2>2 DEF StackRight
<1>8. s = 0 => base = 0
  <2>1. ASSUME s = 0, base # 0 PROVE FALSE
    <3>1. base \in 1..base /\ base \in 1..n
      BY <1>2, <2>1
    <3>2. OpenLevel(base) < s /\ OpenLevel(base) \in 0..s
      BY <1>2, <1>5, <3>1
    <3> QED BY <2>1, <3>2
  <2> QED BY <2>1
<1> QED BY <1>5, <1>6, <1>7, <1>8

\* The innermost container, by what the reader takes it for.
LEMMA TopArray ==
    ASSUME Nested, InnermostIsArray
    PROVE  /\ Len(Stack) > 0 /\ Stack[Len(Stack)] = arr_frames[array_nesting_level - 1].saved_vtype
           /\ Stack[Len(Stack)] \in Types /\ Stack[Len(Stack)] # "struct"
<1>1. StackRight
  BY StackIsRight
<1>2. /\ array_nesting_level \in 1..array_nesting_level /\ struct_nesting_level \in Nat
      /\ Len(Stack) = array_nesting_level + OpenLevel(array_nesting_level)
  BY <1>1 DEF StackRight, InnermostIsArray
<1>3. /\ Stack[array_nesting_level + OpenLevel(array_nesting_level)] = arr_frames[array_nesting_level - 1].saved_vtype
      /\ arr_frames[array_nesting_level - 1].saved_vtype \in Types
      /\ OpenLevel(array_nesting_level) \in Nat
  BY <1>1, <1>2 DEF StackRight
<1> QED BY <1>2, <1>3, StructAssumption

\* No array is innermost: nothing is open, or a struct is.
LEMMA TopStruct ==
    ASSUME Nested, ~InnermostIsArray
    PROVE  Stack = <<>> \/ (Len(Stack) > 0 /\ Stack[Len(Stack)] = "struct")
<1>1. StackRight
  BY StackIsRight
<1>2. array_nesting_level \in Nat /\ struct_nesting_level \in Nat /\ Stack \in Seq(Containers)
      /\ Len(Stack) = struct_nesting_level + array_nesting_level
  BY <1>1 DEF StackRight
<1>3. OwnBase(array_nesting_level, struct_nesting_level) /\ array_nesting_level \in 0..array_nesting_level
  BY <1>2 DEF InnermostIsArray, OwnBase, OpenLevel
<1>4. /\ struct_nesting_level > 0 => Stack[struct_nesting_level + array_nesting_level] = "struct"
      /\ struct_nesting_level = 0 => array_nesting_level = 0
  BY <1>3, RowsAbove
<1> HIDE DEF Stack
<1> QED BY <1>2, <1>4

-----------------------------------------------------------------------------
(* The consumer's view, by the place of the reader.                        *)

\* Between two values, or two elements.
Rest(st) == ES!Settled(ES!View(st, "key", Plain))

\* In an array an element follows, elsewhere a key.
LEMMA RestIs ==
    ASSUME NEW st \in Seq(Containers)
    PROVE  /\ st # <<>> /\ st[Len(st)] # "struct" => Rest(st) = ES!View(st, "item", st[Len(st)])
           /\ st = <<>> \/ st[Len(st)] = "struct" => Rest(st) = ES!View(st, "key", Plain)
           /\ ES!Resting(Rest(st)) = Rest(st)
           /\ \A e, f : ES!Settled(ES!View(st, e, f)) = Rest(st)
           /\ \A t : ES!Resting(ES!View(st, "row_done", t)) = Rest(st)
BY DEF Rest, ES!Settled, ES!Resting, ES!InArray, ES!View, ES!Last, ES!Struct

\* By the place of the reader, what the consumer knows.
Shown ==
    status = "running" =>
        /\ Place \in BoundaryPlaces => ES!Current = ES!View(Stack, "key", Plain) /\ ES!Current = Rest(Stack)
        /\ Place \in ElementStates => ES!Current = ES!View(Stack, "item", value_type)
        /\ Place \in TextPlaces \ ElementStates =>
             ES!Current = ES!View(Stack, IF InnermostIsArray THEN "item" ELSE "value", value_type)
        /\ Place = "array_outro" => ES!Current = ES!View(Stack, "row_done", value_type)
        /\ Place = "array_dim_sep" => ES!Current = ES!View(Stack, "row", value_type)
        /\ Place = "octet_stream_intro" => ES!Current = ES!View(Stack, "octets", value_type)
        /\ Place \in ResyncStates \cup {"octet_stream_outro", "struct_outro"} => ES!Current = Rest(Stack)

\* The place is a state of the lexer, whatever comment hides it.
LEMMA PlaceIs == Nested => Place \in States
BY DEF Nested, LexTypeOK, Place, States, CommentStates, KeyStates

\* The view is the one the place shows.
LEMMA ViewShown == Nested => Shown
<1> SUFFICES ASSUME Nested, status = "running" PROVE Shown
  BY DEF Shown
<1>1. Stack \in Seq(Containers)
  BY StackIsRight DEF StackRight
<1>2. Innermost # "struct" <=> InnermostIsArray
  BY InnermostContainer
<1>3. ES!Current = ES!View(Stack, Expect, ForcedType)
  BY DEF ES!Current
<1>4. Innermost = IF Stack = <<>> THEN "struct" ELSE Stack[Len(Stack)]
  BY DEF Innermost
<1> USE DEF ElementStates, ValuePlaces, StringStates, KeyStates
<1>5. ASSUME Place \in BoundaryPlaces
      PROVE  ES!Current = ES!View(Stack, "key", Plain) /\ ES!Current = Rest(Stack)
  <2>1. Innermost = "struct"
    BY <1>2, <1>5 DEF Nested, BoundaryOutsideArrays
  <2>2. Expect = "key"
    BY <1>5 DEF Expect, BoundaryPlaces
  <2>3. ForcedType = Plain
    BY <1>5, <2>1 DEF ForcedType, BoundaryPlaces
  <2> HIDE DEF Stack
  <2> QED BY <1>1, <1>3, <1>4, <2>1, <2>2, <2>3, RestIs
<1>6. ASSUME Place \in ElementStates PROVE ES!Current = ES!View(Stack, "item", value_type)
  BY <1>3, <1>6 DEF Expect, ForcedType
<1>7. ASSUME Place \in TextPlaces \ ElementStates
      PROVE  ES!Current = ES!View(Stack, IF InnermostIsArray THEN "item" ELSE "value", value_type)
  <2>1. Place \in ValuePlaces
    BY <1>7 DEF TextPlaces, ValueStates, LiteralStates
  <2>2. Expect = IF InnermostIsArray THEN "item" ELSE "value"
    BY <1>2, <2>1 DEF Expect
  <2>3. ForcedType = value_type
    BY <2>1 DEF ForcedType
  <2> QED BY <1>3, <2>2, <2>3
<1>8. Place = "array_outro" => ES!Current = ES!View(Stack, "row_done", value_type)
  BY <1>3 DEF Expect, ForcedType
<1>9. Place = "array_dim_sep" => ES!Current = ES!View(Stack, "row", value_type)
  BY <1>3 DEF Expect, ForcedType
<1>10. Place = "octet_stream_intro" => ES!Current = ES!View(Stack, "octets", value_type)
  BY <1>3 DEF Expect, ForcedType
<1>11. ASSUME Place \in ResyncStates \cup {"octet_stream_outro", "struct_outro"} PROVE ES!Current = Rest(Stack)
  <2>1. Expect = IF Innermost = "struct" THEN "key" ELSE "item"
    BY <1>11 DEF Expect, ResyncStates
  <2>2. ForcedType = IF Innermost = "struct" THEN Plain ELSE Innermost
    BY <1>11 DEF ForcedType, ResyncStates
  <2> HIDE DEF Stack
  <2> QED BY <1>1, <1>3, <1>4, <2>1, <2>2, RestIs
<1> QED BY <1>5, <1>6, <1>7, <1>8, <1>9, <1>10, <1>11 DEF Shown

\* The same after a step.
LEMMA ViewShownNext == Nested' => Shown'
BY ViewShown, PTL

\* The read has not ended: something may still be told.
LEMMA NotOver ==
    ASSUME status \in {"opened", "running"}
    PROVE  /\ Expect \notin {"end", "stopped"}
           /\ status = "running" => Expect # "start"
           /\ status = "opened" => ES!Current = ES!View(<<>>, "start", Plain)
BY DEF Expect, ForcedType, ES!Current

-----------------------------------------------------------------------------
(* A step that emits a batch the consumer's grammar allows, and reaches    *)
(* the view it leaves behind, is a step of the event stream.               *)

\* The step goes on from where the batch leads.
LEMMA BatchDelivers ==
    ASSUME status \in {"opened", "running"}, NEW c, Leads(ES!Current, sent', c),
           ES!Current' = c \/ ES!Current' = ES!Resting(c)
    PROVE  ES!Next
<1>1. Expect \notin {"end", "stopped"}
  BY NotOver
<1>2. c \in ES!Delivered(sent')
  BY LeadsDelivers
<1>3. PICK d \in {c, ES!Resting(c)} : ES!Current' = d
  OBVIOUS
<1>4. ES!Deliver
  <2>1. <<IF status = "running" THEN Stack ELSE <<>>, Expect, ForcedType>>' = <<d.open, d.expect, d.force>>
    BY <1>3 DEF ES!Current, ES!View
  <2> QED BY <1>2, <2>1 DEF ES!Deliver
<1> QED BY <1>1, <1>4 DEF ES!Next

\* The step ends the read, whatever the batch led to.
LEMMA EndStops ==
    ASSUME status \in {"opened", "running"}, status' = "failed", NEW c, Leads(ES!Current, sent', c)
    PROVE  ES!Next
<1>1. Expect \notin {"end", "stopped"}
  BY NotOver
<1>2. ES!Delivered(sent') # {}
  BY LeadsDelivers
<1>3. Expect' = "stopped" /\ ForcedType' = Plain /\ (IF status = "running" THEN Stack ELSE <<>>)' = <<>>
  BY DEF Expect, ForcedType
<1>4. ES!Stop
  BY <1>1, <1>2, <1>3 DEF ES!Stop
<1> QED BY <1>1, <1>4 DEF ES!Next

\* A callback that refuses stops the read at the event it refused.
LEMMA EmitDelivers ==
    ASSUME status \in {"opened", "running"}, NEW evs \in Seq(AnyEvent), NEW c, Leads(ES!Current, evs, c), Emit(evs),
           status' = "running" => ES!Current' = c \/ ES!Current' = ES!Resting(c)
    PROVE  ES!Next
<1>1. CASE sent' = evs /\ status' = "running"
  BY <1>1, BatchDelivers
<1>2. CASE ~(sent' = evs /\ status' = "running")
  <2>1. PICK k \in 1..Len(evs) : sent' = SubSeq(evs, 1, k)
    BY <1>2 DEF Emit
  <2>2. status' = "failed"
    BY <1>2 DEF Emit
  <2>3. k \in 0..Len(evs)
    BY <2>1
  <2>4. PICK e : Leads(ES!Current, sent', e)
    BY <2>1, <2>3, LeadsThrough
  <2> QED BY <2>2, <2>4, EndStops
<1> QED BY <1>1, <1>2

\* A step that tells nothing and shows nothing new.
LEMMA QuietDelivers ==
    ASSUME status \in {"opened", "running"}, Quiet, ES!Current' = ES!Current \/ ES!Current' = ES!Resting(ES!Current)
    PROVE  ES!Next
BY LeadsNowhere, BatchDelivers DEF Quiet

\* What may still be told something.
Listening(c) == c.expect \notin {"start", "end", "stopped"}

\* A read that runs may still tell an error.
LEMMA NowListening ==
    ASSUME status = "running"
    PROVE  Listening(ES!Current)
BY NotOver DEF Listening, ES!Current, ES!View

\* The two events that tell of an error are events.
LEMMA ErrorEvents == Error \in AnyEvent /\ CommentError \in AnyEvent
BY DEF Error, CommentError, Mark, Event, AnyEvent, EventNames, Types

\* An error may follow whatever was told, and ends the value it was told in.
LEMMA ErrorLeads ==
    ASSUME NEW evs \in Seq(AnyEvent), NEW c, Leads(ES!Current, evs, c), Listening(c)
    PROVE  evs \o <<Error>> \in Seq(AnyEvent) /\ Leads(ES!Current, evs \o <<Error>>, ES!Settled(c))
<1>1. ES!Settled(c) \in ES!After(c, Error)
  BY AfterCases DEF Listening
<1>2. Leads(c, <<Error>>, ES!Settled(c))
  BY <1>1, LeadsByOne
<1>3. <<Error>> \in Seq(AnyEvent)
  BY ErrorEvents
<1>4. evs \o <<Error>> \in Seq(AnyEvent)
  BY <1>3
<1> QED BY <1>2, <1>3, <1>4, LeadsOn

\* So a failure after a legal batch is a step of the event stream.
LEMMA FailDelivers ==
    ASSUME status = "running", NEW evs \in Seq(AnyEvent), NEW c, Leads(ES!Current, evs, c), Listening(c), Fail(evs)
    PROVE  ES!Next
BY ErrorLeads, EndStops DEF Fail

\* The ends of rows that recovery tells close the arrays it closes.
LEMMA RowEndsLead ==
    ASSUME Nested, NEW base \in 0..array_nesting_level, OwnBase(base, struct_nesting_level),
           NEW c, ES!Resting(c) = Rest(Stack)
    PROVE  /\ RowEnds(base) \in Seq(AnyEvent)
           /\ SubSeq(Stack, 1, struct_nesting_level + base) \in Seq(Containers)
           /\ \E d : /\ Leads(c, RowEnds(base), d)
                     /\ ES!Resting(d) = Rest(SubSeq(Stack, 1, struct_nesting_level + base))
                     /\ base = array_nesting_level => d = c
<1> DEFINE top   == Len(Stack)
           n     == array_nesting_level - base
           st(j) == SubSeq(Stack, 1, top - j)
           w     == [j \in 0..n |-> IF j = 0 THEN c ELSE ES!View(st(j), "row_done", Stack[top - j + 1])]
<1>1. /\ Stack \in Seq(Containers) /\ top = struct_nesting_level + array_nesting_level
      /\ struct_nesting_level \in Nat /\ array_nesting_level \in Nat
  BY StackIsRight DEF StackRight
<1>2. \A p \in 1..top : p > struct_nesting_level + base => Stack[p] \in Types
  BY RowsAbove
<1> HIDE DEF Stack
<1>3. n \in Nat /\ n <= top /\ top \in Nat /\ top - n = struct_nesting_level + base
  BY <1>1
<1>4. /\ \A j \in 0..n : st(j) \in Seq(Containers) /\ Len(st(j)) = top - j
      /\ \A j \in 0..n : \A p \in 1..(top - j) : st(j)[p] = Stack[p]
      /\ \A j \in 1..n : st(j) = ES!Front(st(j - 1))
      /\ st(0) = Stack
  <2>1. \A j \in 0..n : /\ st(j) \in Seq(Containers) /\ Len(st(j)) = top - j
                        /\ \A p \in 1..(top - j) : st(j)[p] = Stack[p]
    BY <1>1, <1>3
  <2>2. st(0) = Stack
    BY <1>1
  <2>3. ASSUME NEW j \in 1..n PROVE st(j) = ES!Front(st(j - 1))
    <3>1. j \in 0..n /\ j - 1 \in 0..n
      BY <1>3
    <3>2. Len(st(j - 1)) - 1 = top - j
      BY <1>3, <2>1, <3>1
    <3>3. SubSeq(SubSeq(Stack, 1, top - (j - 1)), 1, top - j) = SubSeq(Stack, 1, top - j)
      BY <1>1, <1>3
    <3> QED BY <3>2, <3>3 DEF ES!Front
  <2> QED BY <2>1, <2>2, <2>3
<1>5. ASSUME NEW j \in 0..n PROVE ES!Resting(w[j]) = Rest(st(j))
  <2>1. CASE j = 0
    BY <1>4, <2>1
  <2>2. CASE j # 0
    <3>1. w[j] = ES!View(st(j), "row_done", Stack[top - j + 1])
      BY <2>2
    <3>2. st(j) \in Seq(Containers)
      BY <1>4
    <3> HIDE DEF st, w
    <3> QED BY <3>1, <3>2, RestIs
  <2> QED BY <2>1, <2>2
<1>6. Len(RowEnds(base)) = n /\ RowEnds(base) \in Seq(AnyEvent) /\ \A j \in 1..n : RowEnds(base)[j] = Mark("row_end")
  <2>1. Mark("row_end") \in AnyEvent
    BY DEF Mark, Event, AnyEvent, EventNames, Types
  <2> HIDE DEF n
  <2>2. Marks("row_end", n) \in Seq(AnyEvent) /\ Len(Marks("row_end", n)) = n
        /\ \A j \in 1..n : Marks("row_end", n)[j] = Mark("row_end")
    BY <1>3, <2>1 DEF Marks
  <2> QED BY <2>2 DEF RowEnds, n
<1>7. ASSUME NEW j \in 1..n PROVE w[j] \in ES!After(w[j - 1], RowEnds(base)[j])
  <2>1. j \in 0..n /\ j - 1 \in 0..n /\ j # 0
    BY <1>3
  <2>2. ES!Resting(w[j - 1]) = Rest(st(j - 1)) /\ st(j - 1) \in Seq(Containers)
    BY <1>4, <1>5, <2>1
  <2>3. Len(st(j - 1)) = top - j + 1 /\ top - j + 1 \in 1..top /\ top - j + 1 > struct_nesting_level + base
    BY <1>1, <1>3, <1>4, <2>1
  <2>4. st(j - 1)[Len(st(j - 1))] = Stack[top - j + 1] /\ st(j - 1) # <<>>
    <3>1. top - (j - 1) = top - j + 1 /\ top - j + 1 \in 1..(top - (j - 1))
      BY <1>3, <2>3
    <3>2. st(j - 1)[top - j + 1] = Stack[top - j + 1]
      BY <1>4, <2>1, <3>1
    <3>3. Len(st(j - 1)) # 0
      BY <2>3
    <3> HIDE DEF st, top
    <3> QED BY <2>3, <3>2, <3>3
  <2>5. Stack[top - j + 1] \in Types /\ Stack[top - j + 1] # "struct"
    BY <1>2, <2>3, StructAssumption
  <2>6. Rest(st(j - 1)) = ES!View(st(j - 1), "item", Stack[top - j + 1])
    <3> HIDE DEF st, top
    <3> QED BY <2>2, <2>4, <2>5, RestIs
  <2>7. w[j] = ES!View(ES!Front(st(j - 1)), "row_done", ES!Last(st(j - 1)))
    BY <1>4, <2>1, <2>4 DEF ES!Last
  <2>8. RowEnds(base)[j] = Mark("row_end")
    BY <1>6
  <2> HIDE DEF w, st, top
  <2>9. /\ ES!Resting(w[j - 1]).expect = "item" /\ ES!Resting(w[j - 1]).open = st(j - 1)
    BY <2>2, <2>6 DEF ES!View
  <2>10. ES!After(w[j - 1], Mark("row_end"))
           = IF ES!Resting(w[j - 1]).expect = "item"
             THEN {ES!View(ES!Front(ES!Resting(w[j - 1]).open), "row_done", ES!Last(ES!Resting(w[j - 1]).open))} ELSE {}
    BY AfterCases
  <2> QED BY <2>7, <2>8, <2>9, <2>10
<1>8. w[0] = c
  BY <1>3
<1>9. Leads(c, RowEnds(base), w[n])
  <2>1. w[Len(RowEnds(base))] = w[n] /\ Len(RowEnds(base)) \in Nat
    BY <1>3, <1>6
  <2> HIDE DEF w
  <2> QED BY <1>6, <1>7, <1>8, <2>1, LeadsIf
<1>10. n \in 0..n /\ st(n) = SubSeq(Stack, 1, struct_nesting_level + base)
  BY <1>3
<1>11. base = array_nesting_level => w[n] = c
  BY <1>1, <1>8
<1>12. ES!Resting(w[n]) = Rest(SubSeq(Stack, 1, struct_nesting_level + base))
  BY <1>5, <1>10
<1>13. SubSeq(Stack, 1, struct_nesting_level + base) \in Seq(Containers)
  BY <1>4, <1>10
<1> HIDE DEF w
<1> QED BY <1>6, <1>9, <1>11, <1>12, <1>13

\* Where a consumer rests after a step.
LEMMA RestsNext ==
    ASSUME Nested', status' = "running",
           next_state' \in ResyncStates \cup {"value_outro", "identifier", "octet_stream_outro", "struct_outro"}
    PROVE  ES!Current' = Rest(Stack')
<1>1. Shown'
  BY ViewShownNext
<1>2. Place' = next_state'
  BY DEF Place, CommentStates, ResyncStates
<1>3. next_state' \in BoundaryPlaces \cup ResyncStates \cup {"octet_stream_outro", "struct_outro"}
  BY DEF BoundaryPlaces, KeyStates
<1> QED BY <1>1, <1>2, <1>3 DEF Shown

\* What a wiped frame below the ones wiped remembers.
LEMMA WipedBelow ==
    ASSUME NestingTypeOK, NEW base \in Levels, NEW i \in 1..base
    PROVE  /\ Wiped(base)[i].open_struct_level = OpenLevel(i)
           /\ Wiped(base)[i - 1].saved_vtype = arr_frames[i - 1].saved_vtype
<1>1. i \in Levels /\ i <= base /\ i - 1 \in Levels /\ ~(base <= i - 1)
  BY LimitsAssumption DEF Levels
<1>2. Wiped(base)[i - 1] = arr_frames[i - 1]
  BY <1>1 DEF Wiped
<1> QED BY <1>1, <1>2, WipedFrames

\* The rows of the struct that is open go, and so may the struct.
LEMMA ClosedStack ==
    ASSUME Nested, Nested', NEW base \in 0..array_nesting_level, OwnBase(base, struct_nesting_level),
           NEW items, CloseArraysTo(base, items),
           struct_nesting_level' = struct_nesting_level \/ struct_nesting_level' = struct_nesting_level - 1
    PROVE  Stack' = SubSeq(Stack, 1, struct_nesting_level' + base)
<1>1. array_nesting_level' = base /\ arr_frames' = Wiped(base)
  BY DEF CloseArraysTo
<1>2. base \in Levels /\ base \in Nat /\ base <= array_nesting_level /\ array_nesting_level \in Nat
      /\ struct_nesting_level \in Nat /\ NestingTypeOK
  <2>1. NestingTypeOK
    BY DEF Nested
  <2>2. array_nesting_level \in 0..max_array_nesting /\ struct_nesting_level \in 0..max_struct_nesting
    BY <2>1 DEF NestingTypeOK, Levels
  <2> QED BY <2>1, <2>2, LimitsAssumption DEF Levels
<1>3. \A i \in 1..base : /\ arr_frames'[i].open_struct_level = OpenLevel(i)
                         /\ arr_frames'[i - 1].saved_vtype = arr_frames[i - 1].saved_vtype
  BY <1>1, <1>2, WipedBelow
<1>4. ASSUME NEW i \in 1..array_nesting_level, i > base
      PROVE  i + OpenLevel(i) > struct_nesting_level' + base
  <2>1. i \in (base + 1)..array_nesting_level
    BY <1>2, <1>4
  <2>2. OpenLevel(i) = struct_nesting_level
    BY <2>1 DEF OwnBase, OpenLevel
  <2> QED BY <1>2, <1>4, <2>2
<1>5. struct_nesting_level' <= struct_nesting_level
  BY <1>2
<1> QED BY <1>1, <1>2, <1>3, <1>4, <1>5, StackCut

\* A struct that is over leaves what stood below it.
LEMMA StructEndLeads ==
    ASSUME NEW st \in Seq(Containers), st # <<>>, st[Len(st)] = "struct", NEW c, ES!Resting(c) = Rest(st)
    PROVE  Leads(c, <<Mark("struct_end")>>, Rest(SubSeq(st, 1, Len(st) - 1)))
<1>1. Rest(st) = ES!View(st, "key", Plain)
  BY RestIs
<1>2. SubSeq(st, 1, Len(st) - 1) \in Seq(Containers)
  OBVIOUS
<1>3. ES!Settled(ES!Closed(Rest(st))) = Rest(SubSeq(st, 1, Len(st) - 1))
  <2>1. ES!Closed(Rest(st)) = ES!View(SubSeq(st, 1, Len(st) - 1), "key", Plain)
    BY <1>1 DEF ES!Closed, ES!View, ES!Front
  <2> QED BY <1>2, <2>1, RestIs
<1>4. ES!Resting(c).expect = "key" /\ ES!InStruct(ES!Resting(c))
  BY <1>1 DEF ES!View, ES!InStruct, ES!Last, ES!Struct
<1>5. ES!After(c, Mark("struct_end"))
        = IF ES!Resting(c).expect = "key" /\ ES!InStruct(ES!Resting(c))
          THEN {ES!Settled(ES!Closed(ES!Resting(c)))} ELSE {}
  BY AfterCases
<1> QED BY <1>3, <1>4, <1>5, LeadsByOne

\* An error, and the ends of the rows that recovery closes.
LEMMA ErrorRowsLead ==
    ASSUME Nested, NEW evs \in Seq(AnyEvent), NEW c, Leads(ES!Current, evs, c), Listening(c), c.open = Stack,
           NEW base \in 0..array_nesting_level, OwnBase(base, struct_nesting_level)
    PROVE  /\ evs \o <<Error>> \o RowEnds(base) \in Seq(AnyEvent)
           /\ \E d : /\ Leads(ES!Current, evs \o <<Error>> \o RowEnds(base), d)
                     /\ ES!Resting(d) = Rest(SubSeq(Stack, 1, struct_nesting_level + base))
<1> DEFINE batch == evs \o <<Error>>
<1>1. batch \in Seq(AnyEvent) /\ Leads(ES!Current, batch, ES!Settled(c))
  BY ErrorLeads
<1>2. Stack \in Seq(Containers)
  BY StackIsRight DEF StackRight
<1>3. ES!Settled(c) = Rest(Stack)
  BY DEF Rest, ES!Settled, ES!InArray, ES!View
<1>4. ES!Resting(ES!Settled(c)) = Rest(Stack)
  BY <1>2, <1>3, RestIs
<1>5. PICK d : /\ Leads(ES!Settled(c), RowEnds(base), d)
               /\ ES!Resting(d) = Rest(SubSeq(Stack, 1, struct_nesting_level + base))
  BY <1>4, RowEndsLead
<1>6. RowEnds(base) \in Seq(AnyEvent)
  BY <1>4, RowEndsLead
<1>7. batch \o RowEnds(base) \in Seq(AnyEvent)
  <2> HIDE DEF batch, RowEnds
  <2> QED BY <1>1, <1>6
<1>8. Leads(ES!Current, batch \o RowEnds(base), d)
  BY <1>1, <1>5, <1>6, LeadsOn
<1> QED BY <1>5, <1>7, <1>8

\* Where a struct is closed with its rows, its end follows theirs.
LEMMA ClosedStructLeads ==
    ASSUME Nested, Nested', NEW base \in 0..array_nesting_level, OwnBase(base, struct_nesting_level),
           NEW items, CloseArraysTo(base, items),
           struct_nesting_level > 0, struct_nesting_level' = struct_nesting_level - 1,
           NEW d, ES!Resting(d) = Rest(SubSeq(Stack, 1, struct_nesting_level + base))
    PROVE  Leads(d, <<Mark("struct_end")>>, Rest(Stack'))
<1> DEFINE rows == SubSeq(Stack, 1, struct_nesting_level + base)
<1>1. /\ Stack \in Seq(Containers) /\ Len(Stack) = struct_nesting_level + array_nesting_level
      /\ struct_nesting_level \in Nat /\ array_nesting_level \in Nat
  BY StackIsRight DEF StackRight
<1>2. Stack[struct_nesting_level + base] = "struct"
  BY RowsAbove
<1>3. Stack' = SubSeq(Stack, 1, struct_nesting_level' + base)
  BY ClosedStack
<1> HIDE DEF Stack
<1>4. /\ rows \in Seq(Containers) /\ Len(rows) = struct_nesting_level + base /\ rows # <<>>
      /\ rows[Len(rows)] = Stack[struct_nesting_level + base]
  BY <1>1
<1>5. SubSeq(rows, 1, Len(rows) - 1) = SubSeq(Stack, 1, struct_nesting_level - 1 + base)
  BY <1>1
<1>6. Stack' = SubSeq(rows, 1, Len(rows) - 1)
  BY <1>3, <1>5
<1>7. ES!Resting(d) = Rest(rows)
  OBVIOUS
<1> HIDE DEF rows
<1> QED BY <1>2, <1>4, <1>6, <1>7, StructEndLeads

\* An error, wherever a handler finds it, and the recovery from it are told in
\* order: the statement under way is abandoned, and what it opened is closed.
LEMMA ErrorDelivers ==
    ASSUME Nested, Nested', status = "running", NEW b, NEW items, NEW evs \in Seq(AnyEvent), NEW c,
           Leads(ES!Current, evs, c), Listening(c), c.open = Stack, ErrorOn(b, evs, items)
    PROVE  ES!Next
<1>1. CASE Fail(evs)
  BY <1>1, FailDelivers
<1>2. CASE ~Fail(evs)
  <2> DEFINE plain  == ResyncTarget(b) = "resync"
             closes == plain /\ b = "rcb" /\ struct_nesting_level > 0
             last   == IF closes THEN <<Mark("struct_end")>> ELSE <<>>
  <2>1. PICK base \in 0..array_nesting_level :
          /\ OwnBase(base, struct_nesting_level) /\ CloseArraysTo(base, items)
          /\ next_state' = IF plain /\ b = "semi" THEN "value_outro" ELSE ResyncTarget(b)
          /\ struct_nesting_level' = IF closes THEN struct_nesting_level - 1 ELSE struct_nesting_level
          /\ Emit(evs \o <<Error>> \o RowEnds(base) \o last)
    BY <1>2 DEF ErrorOn, EnterResync
  <2> DEFINE batch == evs \o <<Error>> \o RowEnds(base)
             rows == SubSeq(Stack, 1, struct_nesting_level + base)
  <2>2. batch \in Seq(AnyEvent)
    BY <2>1, ErrorRowsLead
  <2>3. PICK d : Leads(ES!Current, batch, d) /\ ES!Resting(d) = Rest(rows)
    BY <2>1, ErrorRowsLead
  <2>4. struct_nesting_level' = struct_nesting_level \/ struct_nesting_level' = struct_nesting_level - 1
    BY <2>1
  <2>5. Stack' = SubSeq(Stack, 1, struct_nesting_level' + base)
    BY <2>1, <2>4, ClosedStack
  <2>6. ResyncTarget(b) \in ResyncStates
    BY TargetCases DEF ResyncStates, StringStates
  <2>7. status' = "running" => ES!Current' = Rest(Stack')
    BY <2>1, <2>6, RestsNext
  <2>8. CASE ~closes
    <3>1. Stack' = rows
      BY <2>1, <2>5, <2>8
    <3>2. batch \o last = batch
      <4> HIDE DEF batch, closes
      <4> QED BY <2>2, <2>8
    <3>3. Emit(batch)
      BY <2>1, <3>2
    <3> QED BY <2>2, <2>3, <2>7, <3>1, <3>3, EmitDelivers
  <2>9. CASE closes
    <3>1. Leads(d, <<Mark("struct_end")>>, Rest(Stack'))
      BY <2>1, <2>3, <2>9, ClosedStructLeads
    <3>2. <<Mark("struct_end")>> \in Seq(AnyEvent)
      BY PlainMarks DEF Uncounted
    <3>3. Leads(ES!Current, batch \o <<Mark("struct_end")>>, Rest(Stack'))
      BY <2>2, <2>3, <3>1, <3>2, LeadsOn
    <3>4. batch \o <<Mark("struct_end")>> \in Seq(AnyEvent)
      <4> HIDE DEF batch
      <4> QED BY <2>2, <3>2
    <3>5. Emit(batch \o <<Mark("struct_end")>>)
      BY <2>1, <2>9
    <3> QED BY <2>7, <3>3, <3>4, <3>5, EmitDelivers
  <2> QED BY <2>8, <2>9
<1> QED BY <1>1, <1>2

-----------------------------------------------------------------------------
(* Where a value may be over, what finalising it tells is known: null or a *)
(* literal in these places, and nothing in those of TokenOver.             *)
TokenPlaces == {"value_intro", "reference_index", "inline_unit"} \cup ElementStates \cup LiteralStates \cup StringStates
TokenUnder  == Place \in TokenPlaces => token_type \in {"null", "value"}

\* A step that leaves the token alone and reaches no new place of these.
LEMMA SameToken ==
    ASSUME TokenUnder, UNCHANGED token_type, Place' \in TokenPlaces => Place \in TokenPlaces
    PROVE  TokenUnder'
BY DEF TokenUnder

\* An error drops the token or ends the read.
LEMMA ErrorToken ==
    ASSUME TokenUnder, NEW b, NEW evs, NEW items, ErrorOn(b, evs, items)
    PROVE  TokenUnder'
<1>1. CASE Fail(evs)
  BY <1>1, SameToken DEF Fail, lexing, Place
<1>2. CASE ~Fail(evs)
  <2>1. next_state' = "value_outro" \/ next_state' = ResyncTarget(b)
    BY <1>2 DEF ErrorOn
  <2>2. next_state' \in {"value_outro"} \cup ResyncStates
    BY <2>1, TargetCases DEF ResyncStates, StringStates
  <2>3. Place' \notin TokenPlaces
    BY <2>2 DEF Place, CommentStates, ResyncStates, TokenPlaces, ElementStates, LiteralStates, StringStates
  <2> QED BY <2>3 DEF TokenUnder
<1> QED BY <1>1, <1>2

\* A comment hides a place and gives it back.
LEMMA CommentToken ==
    ASSUME Nested, TokenUnder, NEW b \in Bytes,
           \/ CommentErrorOn \/ CommentIntro(b) \/ CommentByte(b) \/ CommentOutro(b) \/ FirstCommentOutro(b)
           \/ MalformedComment(b)
    PROVE  TokenUnder'
<1>1. CASE FirstCommentOutro(b) /\ ErrorOn(b, <<>>, array_items)
  BY <1>1, ErrorToken
<1>2. CASE Fail(<<>>)
  BY <1>2, SameToken DEF Fail, lexing, Place
<1>3. CASE ~(FirstCommentOutro(b) /\ ErrorOn(b, <<>>, array_items)) /\ ~Fail(<<>>)
  <2>1. token_type' = token_type /\ Place' = Place
    BY <1>3 DEF CommentErrorOn, CommentIntro, CommentByte, CommentOutro, FirstCommentOutro, MalformedComment, Moves,
                Place, CommentStates, Nested, LexTypeOK
  <2> QED BY <2>1, SameToken
<1> QED BY <1>1, <1>2, <1>3

\* A move within a literal, or out of one.
LEMMA MoveToken ==
    ASSUME Nested, TokenUnder, NEW b \in Bytes,
           \/ Blank(b) \/ ByteOrderMark(b) \/ CopyByte(b) \/ StringStep(b) \/ ReferenceIndex(b) \/ InlineUnitIntro(b)
           \/ ResyncSkips(b) \/ SkipMalformed(b)
    PROVE  TokenUnder'
<1> USE DEF Place, CommentStates, ResyncStates, TokenPlaces, ElementStates, LiteralStates, StringStates, Moves
<1>1. CASE Blank(b) \/ CopyByte(b)
  BY <1>1, CopyCases, SameToken DEF Blank
<1>2. CASE ByteOrderMark(b) \/ StringStep(b) \/ ReferenceIndex(b) \/ InlineUnitIntro(b)
  BY <1>2, SameToken DEF ByteOrderMark, StringStep, ReferenceIndex, InlineUnitIntro
<1>3. CASE ResyncSkips(b) \/ SkipMalformed(b)
  <2>1. next_state' \in ResyncStates
    BY <1>3 DEF ResyncSkips, SkipMalformed
  <2> QED BY <2>1 DEF TokenUnder
<1> QED BY <1>1, <1>2, <1>3

\* The handlers of keys, types, literals and strings.
LEMMA ValueToken ==
    ASSUME Nested, TokenUnder, NEW b \in Bytes,
           \/ IdentifierIntro(b) \/ TypeIntro(b) \/ ScalarIntro(b) \/ StringIntro(b)
           \/ ValueIntro(b) \/ TypeOutro(b) \/ ValueOutro(b) \/ NewArrayValue(b) \/ ArrayOutro(b)
    PROVE  TokenUnder'
<1> USE DEF Place, CommentStates, TokenPlaces, ElementStates, LiteralStates, StringStates
<1>1. CASE IdentifierIntro(b) \/ TypeIntro(b) \/ ScalarIntro(b) \/ StringIntro(b) \/ ValueIntro(b) \/ TypeOutro(b)
  BY <1>1 DEF TokenUnder, IdentifierIntro, TypeIntro, ScalarIntro, StringIntro, ValueIntro, TypeOutro, Begins
<1>2. CASE \E evs, items : ErrorOn(b, evs, items)
  BY <1>2, ErrorToken
<1>3. CASE (ValueOutro(b) \/ NewArrayValue(b) \/ ArrayOutro(b)) /\ ~\E evs, items : ErrorOn(b, evs, items)
  BY <1>3 DEF TokenUnder, ValueOutro, NewArrayValue, ArrayOutro, FinalizeFails
<1> QED BY <1>1, <1>2, <1>3

\* The handlers that open and close containers.
LEMMA ContainerToken ==
    ASSUME Nested, TokenUnder, NEW b \in Bytes,
           \/ ArrayIntro(b) \/ ArrayDimSep(b) \/ StructIntro(b) \/ StructOutro(b) \/ OctetStreamIntro(b)
    PROVE  TokenUnder'
<1> USE DEF Place, CommentStates, TokenPlaces, ElementStates, LiteralStates, StringStates
<1>1. CASE ErrorOn(b, <<>>, array_items)
  BY <1>1, ErrorToken
<1>2. CASE Fail(<<>>)
  BY <1>2, SameToken DEF Fail, lexing
<1>3. CASE ~ErrorOn(b, <<>>, array_items) /\ ~Fail(<<>>)
  BY <1>3 DEF TokenUnder, ArrayIntro, ArrayDimSep, StructIntro, StructOutro, OctetStreamIntro
<1> QED BY <1>1, <1>2, <1>3

\* The handlers of recovery.
LEMMA SkipToken ==
    ASSUME Nested, TokenUnder, NEW b \in Bytes,
           \/ ResyncOpenBracket(b) \/ ResyncCloseArray(b) \/ ResyncCloseStruct(b)
           \/ ResyncSemicolon(b) \/ ResyncResumeIdentifier(b) \/ MalformedText(b)
    PROVE  TokenUnder'
<1>1. CASE Fail(<<>>)
  BY <1>1, SameToken DEF Fail, lexing, Place
<1>2. CASE ~Fail(<<>>)
  <2>1. next_state' \in ResyncStates \cup {"value_outro", "identifier"}
    BY <1>2, TargetCases DEF ResyncOpenBracket, ResyncCloseArray, ResyncCloseStruct, ResyncSemicolon,
                             ResyncResumeIdentifier, Resume, MalformedText, ResyncStates, StringStates
  <2> QED BY <2>1 DEF TokenUnder, Place, CommentStates, ResyncStates, TokenPlaces, ElementStates, LiteralStates, StringStates
<1> QED BY <1>1, <1>2

\* Every step of the reader.
LEMMA TokenUnderKept == Nested /\ TokenUnder /\ Next => TokenUnder'
<1> SUFFICES ASSUME Nested, TokenUnder, Next PROVE TokenUnder'
  OBVIOUS
<1>1. ASSUME NEW b \in Bytes, Dispatch(b) PROVE TokenUnder'
  <2>1. CASE Reject(b)
    BY <2>1, CommentToken, ErrorToken DEF Reject
  <2> QED BY <1>1, <2>1, CommentToken, MoveToken, ValueToken, ContainerToken, SkipToken DEF Dispatch
<1>2. ASSUME NEW b \in Bytes, Byte(b) PROVE TokenUnder'
  BY <1>1, <1>2, CommentToken, MoveToken, SkipToken DEF Byte
<1>3. CASE BeginRead \/ OctetChunk \/ EndOfInput \/ InputFails
  <2>1. UNCHANGED lexing
    BY <1>3 DEF BeginRead, OctetChunk, EndOfInput, InputFails, Fail
  <2> QED BY <2>1, SameToken DEF lexing, Place
<1>4. CASE OctetStreamEnd
  BY <1>4 DEF OctetStreamEnd, TokenUnder, Place, CommentStates, TokenPlaces, ElementStates, LiteralStates, StringStates
<1> QED BY <1>2, <1>3, <1>4 DEF Next

\* Both hold of a reader just created.
LEMMA TokensStart == Init => TokenUnder /\ TokenOver
BY DEF Init, TokenUnder, TokenOver, Place, CommentStates, TokenPlaces, ElementStates, LiteralStates, StringStates

-----------------------------------------------------------------------------
(* The handlers.  Each step tells what the event stream allows.            *)

\* A value or an element is being read: the two are told apart by the frames.
TextShown ==
    status = "running" /\ Place \in TextPlaces =>
        ES!Current = ES!View(Stack, IF InnermostIsArray THEN "item" ELSE "value", value_type)

\* So the frames settle what is shown there.
LEMMA TextIsShown == Nested => TextShown
BY ViewShown DEF TextShown, Shown, Nested, RowsInsideArrays, TextPlaces, ValueStates

\* The same after a step.
LEMMA TextIsShownNext == Nested' => TextShown'
BY TextIsShown, PTL

\* What the consumer takes for open is the stack.
LEMMA OpenNow == ASSUME status = "running" PROVE ES!Current.open = Stack
BY DEF ES!Current, ES!View

\* Between two values anything may be told.
LEMMA RestListens == ASSUME NEW st PROVE Listening(Rest(st)) /\ Rest(st).open = st
BY DEF Listening, Rest, ES!Settled, ES!View

\* What does not open or close anything, nor ends a value, is not seen.
LEMMA SameView ==
    ASSUME Nested, Nested', status = "running", status' = "running",
           UNCHANGED <<struct_nesting_level, array_nesting_level, arr_frames, value_type>>,
           \/ Place' = Place
           \/ {Place, Place'} \subseteq BoundaryPlaces
           \/ {Place, Place'} \subseteq TextPlaces
           \/ {Place, Place'} \subseteq ResyncStates
    PROVE  ES!Current' = ES!Current
<1>1. Stack' = Stack /\ (InnermostIsArray' <=> InnermostIsArray)
  BY StackUnchanged DEF InnermostIsArray, OpenLevel
<1>2. CASE Place' = Place
  <2>1. Innermost' = Innermost
    BY <1>1 DEF Innermost
  <2>2. Expect' = Expect
    BY <1>2, <2>1 DEF Expect
  <2>3. ForcedType' = ForcedType
    BY <1>2, <2>1 DEF ForcedType
  <2> QED BY <1>1, <2>2, <2>3 DEF ES!Current
<1>3. CASE {Place, Place'} \subseteq BoundaryPlaces
  <2>1. Shown /\ Shown'
    BY ViewShown, ViewShownNext
  <2>2. ES!Current' = ES!View(Stack', "key", Plain) /\ ES!Current = ES!View(Stack, "key", Plain)
    BY <1>3, <2>1 DEF Shown
  <2> HIDE DEF Stack
  <2> QED BY <1>1, <2>2
<1>4. CASE {Place, Place'} \subseteq TextPlaces
  BY <1>1, <1>4, TextIsShown, TextIsShownNext DEF TextShown
<1>5. CASE {Place, Place'} \subseteq ResyncStates
  <2>1. Shown /\ Shown'
    BY ViewShown, ViewShownNext
  <2>2. ES!Current' = Rest(Stack') /\ ES!Current = Rest(Stack)
    BY <1>5, <2>1 DEF Shown
  <2> HIDE DEF Stack
  <2> QED BY <1>1, <2>2
<1> QED BY <1>2, <1>3, <1>4, <1>5

\* Nor is what moves the reader between places that look alike.
LEMMA UnseenDelivers ==
    ASSUME Nested, Nested', status = "running", Quiet,
           UNCHANGED <<struct_nesting_level, array_nesting_level, arr_frames, value_type>>,
           \/ Place' = Place
           \/ {Place, Place'} \subseteq BoundaryPlaces
           \/ {Place, Place'} \subseteq TextPlaces
           \/ {Place, Place'} \subseteq ResyncStates
    PROVE  ES!Next
BY SameView, QuietDelivers DEF Quiet

\* A step that tells one event the consumer expects.
LEMMA OneDelivers ==
    ASSUME status \in {"opened", "running"}, NEW e \in AnyEvent, NEW d \in ES!After(ES!Current, e), Emit(<<e>>),
           status' = "running" => ES!Current' = d \/ ES!Current' = ES!Resting(d)
    PROVE  ES!Next
<1>1. <<e>> \in Seq(AnyEvent)
  OBVIOUS
<1> QED BY <1>1, LeadsByOne, EmitDelivers

\* A failure or an error that tells of no value before it.
LEMMA FailNow == ASSUME status = "running", Fail(<<>>) PROVE ES!Next
<1>1. <<>> \in Seq(AnyEvent)
  OBVIOUS
<1> QED BY <1>1, LeadsNowhere, NowListening, FailDelivers

\* With recovery, or without.
LEMMA ErrorNow ==
    ASSUME Nested, Nested', status = "running", NEW b, NEW items, ErrorOn(b, <<>>, items)
    PROVE  ES!Next
<1>1. <<>> \in Seq(AnyEvent)
  OBVIOUS
<1> QED BY <1>1, LeadsNowhere, NowListening, OpenNow, ErrorDelivers

\* A comment error abandons nothing.
LEMMA CommentErrorDelivers ==
    ASSUME Nested, Nested', status = "running", Emit(<<CommentError>>), Place' = Place,
           UNCHANGED <<struct_nesting_level, array_nesting_level, arr_frames, value_type>>
    PROVE  ES!Next
<1>1. ES!Current \in ES!After(ES!Current, CommentError)
  <2>1. ES!After(ES!Current, CommentError)
          = IF ES!Current.expect \in {"start", "end", "stopped"} THEN {} ELSE {ES!Current}
    BY AfterCases
  <2> QED BY <2>1, NowListening DEF Listening
<1> QED BY <1>1, ErrorEvents, SameView, OneDelivers

\* A move of the lexer alone: within a key, a value, a comment, a skip.
LEMMA MoveDelivers ==
    ASSUME Nested, Nested', status = "running", NEW b \in Bytes,
           \/ Blank(b) \/ ByteOrderMark(b) \/ IdentifierIntro(b) \/ CopyByte(b)
           \/ TypeIntro(b) \/ ScalarIntro(b) \/ StringIntro(b) \/ StringStep(b) \/ ReferenceIndex(b) \/ InlineUnitIntro(b)
           \/ ResyncSkips(b) \/ ResyncOpenBracket(b) \/ SkipMalformed(b)
    PROVE  ES!Next
<1> USE DEF Place, CommentStates, Moves, Begins, Unnested, arrays
<1>1. CASE Blank(b) \/ CopyByte(b)
  BY <1>1, CopyCases, UnseenDelivers DEF Blank
<1>2. CASE ByteOrderMark(b) \/ IdentifierIntro(b)
  BY <1>2, UnseenDelivers DEF ByteOrderMark, IdentifierIntro, BoundaryPlaces, KeyStates
<1>3. CASE TypeIntro(b) \/ ScalarIntro(b) \/ StringIntro(b) \/ StringStep(b) \/ ReferenceIndex(b) \/ InlineUnitIntro(b)
  <2>1. next_state \in TextPlaces /\ next_state' \in TextPlaces
    BY <1>3 DEF TypeIntro, ScalarIntro, StringIntro, StringStep, ReferenceIndex, InlineUnitIntro,
                TextPlaces, ValueStates, ElementStates, LiteralStates, StringStates
  <2>2. Quiet /\ UNCHANGED <<struct_nesting_level, array_nesting_level, arr_frames, value_type>>
    BY <1>3 DEF TypeIntro, ScalarIntro, StringIntro, StringStep, ReferenceIndex, InlineUnitIntro
  <2>3. {Place, Place'} \subseteq TextPlaces
    BY <2>1 DEF TextPlaces, ValueStates, ElementStates, LiteralStates, StringStates
  <2> QED BY <2>2, <2>3, UnseenDelivers
<1>4. CASE ResyncSkips(b) \/ ResyncOpenBracket(b) \/ SkipMalformed(b)
  <2>1. next_state \in ResyncStates /\ next_state' \in ResyncStates
    BY <1>4 DEF ResyncSkips, ResyncOpenBracket, SkipMalformed, ResyncStates
  <2>2. Quiet /\ UNCHANGED <<struct_nesting_level, array_nesting_level, arr_frames, value_type>>
    BY <1>4 DEF ResyncSkips, ResyncOpenBracket, SkipMalformed
  <2>3. {Place, Place'} \subseteq ResyncStates
    BY <2>1 DEF ResyncStates
  <2> QED BY <2>2, <2>3, UnseenDelivers
<1> QED BY <1>1, <1>2, <1>3, <1>4

\* Comments are not seen, their errors are.
LEMMA CommentDelivers ==
    ASSUME Nested, Nested', status = "running", NEW b \in Bytes,
           \/ CommentIntro(b) \/ CommentByte(b) \/ CommentOutro(b) \/ FirstCommentOutro(b)
           \/ CommentErrorOn \/ MalformedComment(b)
    PROVE  ES!Next
<1>1. CASE FirstCommentOutro(b) /\ ErrorOn(b, <<>>, array_items)
  BY <1>1, ErrorNow
<1>2. CASE Fail(<<>>)
  BY <1>2, FailNow
<1>3. CASE ~(FirstCommentOutro(b) /\ ErrorOn(b, <<>>, array_items)) /\ ~Fail(<<>>)
  <2>1. Place' = Place /\ UNCHANGED <<struct_nesting_level, array_nesting_level, arr_frames, value_type>>
    BY <1>3 DEF CommentErrorOn, CommentIntro, CommentByte, CommentOutro, FirstCommentOutro, MalformedComment, Moves,
                Unnested, arrays, Place, CommentStates, Nested, LexTypeOK
  <2>2. Quiet \/ Emit(<<CommentError>>)
    BY <1>3 DEF CommentErrorOn, CommentIntro, CommentByte, CommentOutro, FirstCommentOutro, MalformedComment, Moves
  <2> QED BY <2>1, <2>2, UnseenDelivers, CommentErrorDelivers
<1> QED BY <1>1, <1>2, <1>3

\* A byte no handler takes.
LEMMA RejectDelivers ==
    ASSUME Nested, Nested', status = "running", NEW b \in Bytes, Reject(b)
    PROVE  ES!Next
BY CommentDelivers, ErrorNow DEF Reject

\* '=' tells that an assignment starts.
LEMMA ValueIntroDelivers ==
    ASSUME Nested, Nested', status = "running", NEW b \in Bytes, ValueIntro(b)
    PROVE  ES!Next
<1>1. Place = "identifier" /\ Place' = "value_intro"
  BY DEF ValueIntro, Place, CommentStates
<1>2. ES!Current = ES!View(Stack, "key", Plain)
  BY <1>1, ViewShown DEF Shown, BoundaryPlaces
<1> DEFINE d == ES!View(Stack, "value", Plain)
<1>3. d \in ES!After(ES!Current, Mark("assignment_start"))
  <2>1. ES!Resting(ES!Current) = ES!Current
    BY <1>2 DEF ES!Resting, ES!View
  <2>2. ES!After(ES!Current, Mark("assignment_start"))
          = IF ES!Resting(ES!Current).expect = "key" THEN {ES!View(ES!Resting(ES!Current).open, "value", Plain)} ELSE {}
    BY AfterCases
  <2> HIDE DEF Stack
  <2> QED BY <1>2, <2>1, <2>2 DEF ES!View
<1>4. ASSUME status' = "running" PROVE ES!Current' = d
  <2>1. Stack' = Stack
    BY StackUnchanged DEF ValueIntro
  <2>2. Place' \in TextPlaces
    BY <1>1 DEF TextPlaces, ValueStates
  <2>3. ~InnermostIsArray'
    BY <2>2 DEF ValueIntro, Nested, InlineUnitsOutsideArrays
  <2>4. ES!Current' = ES!View(Stack', IF InnermostIsArray' THEN "item" ELSE "value", value_type')
    BY <1>4, <2>2, TextIsShownNext DEF TextShown
  <2> QED BY <2>1, <2>3, <2>4 DEF ValueIntro
<1>5. Mark("assignment_start") \in AnyEvent
  BY DEF Mark, Event, AnyEvent, EventNames, Types
<1> QED BY <1>3, <1>4, <1>5, OneDelivers DEF ValueIntro

\* '>' tells the annotation.
LEMMA TypeOutroDelivers ==
    ASSUME Nested, Nested', status = "running", NEW b \in Bytes, TypeOutro(b)
    PROVE  ES!Next
<1>1. PICK t \in ValueTypes : value_type' = t /\ Emit(<<Event("annotation", t)>>)
  BY DEF TypeOutro
<1>2. Place \in TextPlaces /\ Place' \in TextPlaces
  BY DEF TypeOutro, Place, CommentStates, TextPlaces, ValueStates
<1> DEFINE wants == IF InnermostIsArray THEN "item" ELSE "value"
           d     == ES!View(Stack, wants, t)
<1>3. ES!Current = ES!View(Stack, wants, value_type)
  BY <1>2, TextIsShown DEF TextShown
<1>4. d \in ES!After(ES!Current, Event("annotation", t))
  <2>1. ES!Resting(ES!Current) = ES!Current
    BY <1>3 DEF ES!Resting, ES!View
  <2>2. ES!After(ES!Current, Event("annotation", t))
          = IF ES!WantsValue(ES!Resting(ES!Current))
            THEN {ES!View(ES!Resting(ES!Current).open, ES!Resting(ES!Current).expect, t)} ELSE {}
    BY AfterCases
  <2> HIDE DEF Stack
  <2> QED BY <1>3, <2>1, <2>2 DEF ES!View, ES!WantsValue
<1>5. ASSUME status' = "running" PROVE ES!Current' = d
  <2>1. Stack' = Stack /\ (InnermostIsArray' <=> InnermostIsArray)
    BY StackUnchanged DEF TypeOutro, arrays, InnermostIsArray, OpenLevel
  <2> QED BY <1>1, <1>2, <1>5, <2>1, TextIsShownNext DEF TextShown
<1>6. Event("annotation", t) \in AnyEvent
  BY DEF Event, AnyEvent, EventNames, Types
<1> QED BY <1>1, <1>4, <1>5, <1>6, OneDelivers

\* The end of a value.
LEMMA DataLeads ==
    ASSUME Nested, status = "running", Place \in TextPlaces
    PROVE  <<Data>> \in Seq(AnyEvent) /\ Leads(ES!Current, <<Data>>, Rest(Stack))
<1> DEFINE wants == IF InnermostIsArray THEN "item" ELSE "value"
<1>1. ES!Current = ES!View(Stack, wants, value_type)
  BY TextIsShown DEF TextShown
<1>2. ES!Resting(ES!Current) = ES!Current
  BY <1>1 DEF ES!Resting, ES!View
<1>3. ES!Settled(ES!Current) = Rest(Stack)
  <2>1. Stack \in Seq(Containers)
    BY StackIsRight DEF StackRight
  <2> HIDE DEF Stack
  <2> QED BY <1>1, <2>1, RestIs
<1>4. ES!WantsValue(ES!Current) /\ ES!Current.force = value_type
  BY <1>1 DEF ES!WantsValue, ES!View
<1>5. ES!After(ES!Current, Event("data", value_type))
        = IF ES!WantsValue(ES!Resting(ES!Current)) /\ value_type = ES!Resting(ES!Current).force
          THEN {ES!Settled(ES!Resting(ES!Current))} ELSE {}
  BY AfterCases
<1>6. Rest(Stack) \in ES!After(ES!Current, Data)
  BY <1>2, <1>3, <1>4, <1>5 DEF Data
<1>7. Data \in AnyEvent
  BY TypesNow DEF Data, Event, AnyEvent, EventNames
<1>8. <<Data>> \in Seq(AnyEvent)
  <2> HIDE DEF Data
  <2> QED BY <1>7
<1> QED BY <1>6, <1>8, LeadsByOne

\* No event is a batch.
LEMMA NoEvents == <<>> \in Seq(AnyEvent)
OBVIOUS

\* What the end of a value tells before it looks at where it is, and in all.
LEMMA EndLeads ==
    ASSUME Nested, TokenOver, TokenUnder, status = "running", NEW b \in Bytes, Ends(b) \/ next_state = "inline_unit"
    PROVE  /\ Finalized \in Seq(AnyEvent) /\ NullIfTyped \in Seq(AnyEvent)
           /\ \E c : /\ Leads(ES!Current, Finalized, c) /\ Listening(c) /\ c.open = Stack
                     /\ ES!Resting(c) = Rest(Stack)
           /\ \E c : Leads(ES!Current, NullIfTyped, c) /\ Listening(c) /\ c.open = Stack
<1>1. next_state \in ValueStates \cup LiteralStates \cup OutroStates \cup {"inline_unit"}
  BY DEF Ends
<1>2. Place = next_state
  BY <1>1 DEF Place, CommentStates, ValueStates, ElementStates, LiteralStates, OutroStates
<1>3. Stack \in Seq(Containers)
  BY StackIsRight DEF StackRight
<1>4. ES!Resting(Rest(Stack)) = Rest(Stack)
  BY <1>3, RestIs
<1>5. Leads(ES!Current, <<>>, ES!Current) /\ Listening(ES!Current) /\ ES!Current.open = Stack
  BY LeadsNowhere, NowListening, OpenNow
<1>6. CASE next_state \in OutroStates
  <2>1. Finalized = <<>> /\ NullIfTyped = <<>>
    BY <1>2, <1>6 DEF Finalized, NullIfTyped, TokenOver, QuietPlaces, OutroStates
  <2>2. ES!Resting(ES!Current) = Rest(Stack)
    <3>1. CASE next_state = "array_outro"
      <4>1. ES!Current = ES!View(Stack, "row_done", value_type)
        BY <1>2, <3>1, ViewShown DEF Shown
      <4> HIDE DEF Stack
      <4> QED BY <1>3, <4>1, RestIs
    <3>2. CASE next_state # "array_outro"
      <4>1. ES!Current = Rest(Stack)
        BY <1>2, <1>6, <3>2, ViewShown DEF Shown, OutroStates
      <4> QED BY <1>4, <4>1
    <3> QED BY <3>1, <3>2
  <2> QED BY <1>5, <2>1, <2>2, NoEvents
<1>7. CASE next_state \notin OutroStates
  <2>1. Place \in TextPlaces
    BY <1>1, <1>2, <1>7 DEF TextPlaces
  <2>2. Finalized = <<Data>>
    <3>1. next_state = "type_outro" \/ Place \in TokenPlaces
      BY <1>1, <1>2, <1>7 DEF ValueStates, TokenPlaces
    <3> QED BY <3>1 DEF Finalized, TokenUnder
  <2>3. NullIfTyped = <<>> \/ NullIfTyped = <<Data>>
    BY DEF NullIfTyped
  <2> QED BY <1>4, <1>5, <2>1, <2>2, <2>3, DataLeads, NoEvents, RestListens
<1> QED BY <1>6, <1>7

\* Frames that differ in what the stack does not show.
LEMMA FrameExcept ==
    ASSUME Nested, NEW k \in Levels,
           \/ \E v : arr_frames' = [arr_frames EXCEPT ![k].in_dim_seq = v]
           \/ \E v : arr_frames' = [arr_frames EXCEPT ![k].dim_row_size = v]
    PROVE  \A i \in Levels : /\ arr_frames'[i].open_struct_level = OpenLevel(i)
                             /\ arr_frames'[i].saved_vtype = arr_frames[i].saved_vtype
<1>1. arr_frames \in [Levels -> Frame]
  BY DEF Nested, NestingTypeOK
<1>2. arr_frames[k] \in Frame
  BY <1>1
<1>3. CASE \E v : arr_frames' = [arr_frames EXCEPT ![k].in_dim_seq = v]
  <2>1. PICK v : arr_frames' = [arr_frames EXCEPT ![k] = [arr_frames[k] EXCEPT !.in_dim_seq = v]]
    BY <1>3
  <2>2. /\ [arr_frames[k] EXCEPT !.in_dim_seq = v].open_struct_level = arr_frames[k].open_struct_level
        /\ [arr_frames[k] EXCEPT !.in_dim_seq = v].saved_vtype = arr_frames[k].saved_vtype
    BY <1>2 DEF Frame
  <2> QED BY <1>1, <2>1, <2>2 DEF OpenLevel
<1>4. CASE \E v : arr_frames' = [arr_frames EXCEPT ![k].dim_row_size = v]
  <2>1. PICK v : arr_frames' = [arr_frames EXCEPT ![k] = [arr_frames[k] EXCEPT !.dim_row_size = v]]
    BY <1>4
  <2>2. /\ [arr_frames[k] EXCEPT !.dim_row_size = v].open_struct_level = arr_frames[k].open_struct_level
        /\ [arr_frames[k] EXCEPT !.dim_row_size = v].saved_vtype = arr_frames[k].saved_vtype
    BY <1>2 DEF Frame
  <2> QED BY <1>1, <2>1, <2>2 DEF OpenLevel
<1> QED BY <1>3, <1>4

\* Levels are what the frames are indexed by.
LEMMA LevelsNow ==
    ASSUME Nested
    PROVE  /\ array_nesting_level \in Levels /\ array_nesting_level \in Nat /\ struct_nesting_level \in Nat
           /\ \A i \in 1..array_nesting_level : i \in Levels /\ i - 1 \in Levels
BY LimitsAssumption DEF Nested, NestingTypeOK, Levels

\* Nothing is open at top level outside arrays.
LEMMA TopLevel ==
    ASSUME Nested, ~InnermostIsArray, struct_nesting_level = 0
    PROVE  array_nesting_level = 0
<1>1. OwnBase(array_nesting_level, struct_nesting_level) /\ array_nesting_level \in 0..array_nesting_level
  BY LevelsNow DEF InnermostIsArray, OwnBase, OpenLevel
<1> QED BY <1>1, RowsAbove

\* ';' ends a value, and wipes the frame it was in.
LEMMA ValueOutroDelivers ==
    ASSUME Nested, Nested', TokenOver, TokenUnder, status = "running", NEW b \in Bytes, ValueOutro(b)
    PROVE  ES!Next
<1>1. Ends(b) \/ next_state = "inline_unit"
  BY DEF ValueOutro
<1>2. CASE ErrorOn(b, NullIfTyped, array_items)
  BY <1>1, <1>2, EndLeads, ErrorDelivers
<1>3. CASE ErrorOn(b, <<>>, array_items)
  BY <1>3, ErrorNow
<1>4. CASE ~ErrorOn(b, NullIfTyped, array_items) /\ ~ErrorOn(b, <<>>, array_items)
  <2>1. /\ ~OwnsArray /\ Emit(Finalized) /\ arr_frames' = Wiped(array_nesting_level)
        /\ array_nesting_level' = (IF struct_nesting_level = 0 THEN 0 ELSE array_nesting_level)
        /\ next_state' = "value_outro" /\ UNCHANGED struct_nesting_level
    BY <1>4 DEF ValueOutro, FinalizeFails, Unterminated
  <2>2. array_nesting_level' = array_nesting_level
    BY <2>1, TopLevel DEF OwnsArray, InnermostIsArray, OpenLevel
  <2>3. \A i \in 1..array_nesting_level : /\ arr_frames'[i].open_struct_level = OpenLevel(i)
                                          /\ arr_frames'[i - 1].saved_vtype = arr_frames[i - 1].saved_vtype
    BY <2>1, LevelsNow, WipedBelow DEF Nested
  <2>4. Stack' = Stack
    BY <2>1, <2>2, <2>3, StackKept
  <2>5. PICK c : Leads(ES!Current, Finalized, c) /\ ES!Resting(c) = Rest(Stack)
    BY <1>1, EndLeads
  <2>6. status' = "running" => ES!Current' = Rest(Stack')
    BY <2>1, RestsNext
  <2>7. Finalized \in Seq(AnyEvent)
    BY <1>1, EndLeads
  <2> HIDE DEF Stack
  <2> QED BY <2>1, <2>4, <2>5, <2>6, <2>7, EmitDelivers
<1> QED BY <1>2, <1>3, <1>4

\* ',' ends an element.
LEMMA NewArrayValueDelivers ==
    ASSUME Nested, Nested', TokenOver, TokenUnder, status = "running", NEW b \in Bytes, NewArrayValue(b)
    PROVE  ES!Next
<1>1. Ends(b)
  BY DEF NewArrayValue
<1>2. CASE \E items : ErrorOn(b, NullIfTyped, items) \/ ErrorOn(b, Finalized, items)
  BY <1>1, <1>2, EndLeads, ErrorDelivers
<1>3. CASE ErrorOn(b, <<>>, array_items)
  BY <1>3, ErrorNow
<1>4. CASE ~(\E items : ErrorOn(b, NullIfTyped, items) \/ ErrorOn(b, Finalized, items)) /\ ~ErrorOn(b, <<>>, array_items)
  <2>1. /\ OwnsArray /\ Emit(Finalized)
        /\ arr_frames' = [arr_frames EXCEPT ![array_nesting_level].in_dim_seq = FALSE]
        /\ value_type' = arr_frames[array_nesting_level - 1].saved_vtype
        /\ next_state' = "new_array_value" /\ UNCHANGED <<struct_nesting_level, array_nesting_level>>
    BY <1>4 DEF NewArrayValue, FinalizeFails
  <2>2. Stack' = Stack
    BY <2>1, LevelsNow, FrameExcept, StackKept
  <2>3. InnermostIsArray
    BY <2>1 DEF OwnsArray, InnermostIsArray, OpenLevel
  <2>4. Rest(Stack) = ES!View(Stack, "item", value_type')
    <3>1. Stack \in Seq(Containers)
      BY StackIsRight DEF StackRight
    <3>2. Stack # <<>> /\ Stack[Len(Stack)] = value_type' /\ Stack[Len(Stack)] # "struct"
      <4>1. Len(Stack) > 0 /\ Stack[Len(Stack)] = value_type' /\ Stack[Len(Stack)] # "struct"
        BY <2>1, <2>3, TopArray
      <4> HIDE DEF Stack
      <4> QED BY <4>1
    <3> HIDE DEF Stack
    <3> QED BY <3>1, <3>2, RestIs
  <2>5. PICK c : Leads(ES!Current, Finalized, c) /\ ES!Resting(c) = Rest(Stack)
    BY <1>1, EndLeads
  <2>6. status' = "running" => ES!Current' = ES!View(Stack', "item", value_type')
    <3>1. Place' \in ElementStates
      BY <2>1 DEF Place, CommentStates, ElementStates
    <3> QED BY <3>1, ViewShownNext DEF Shown
  <2>7. Finalized \in Seq(AnyEvent)
    BY <1>1, EndLeads
  <2> HIDE DEF Stack
  <2> QED BY <2>1, <2>2, <2>4, <2>5, <2>6, <2>7, EmitDelivers
<1> QED BY <1>2, <1>3, <1>4

\* The end of the innermost row.
LEMMA RowEndLeads ==
    ASSUME Nested, NEW c, ES!Resting(c).expect = "item", ES!Resting(c).open = Stack
    PROVE  /\ <<Mark("row_end")>> \in Seq(AnyEvent)
           /\ Leads(c, <<Mark("row_end")>>, ES!View(ES!Front(Stack), "row_done", ES!Last(Stack)))
<1>1. ES!After(c, Mark("row_end"))
        = IF ES!Resting(c).expect = "item"
          THEN {ES!View(ES!Front(ES!Resting(c).open), "row_done", ES!Last(ES!Resting(c).open))} ELSE {}
  BY AfterCases
<1>2. Mark("row_end") \in AnyEvent
  BY DEF Mark, Event, AnyEvent, EventNames, Types
<1>3. <<Mark("row_end")>> \in Seq(AnyEvent)
  <2> HIDE DEF Mark
  <2> QED BY <1>2
<1> QED BY <1>1, <1>3, LeadsByOne

\* Its frame goes, and with it the top of the stack.
LEMMA PoppedStack ==
    ASSUME Nested, Nested', InnermostIsArray, NEW width, PopFrame(width), UNCHANGED struct_nesting_level
    PROVE  /\ Stack' = ES!Front(Stack) /\ value_type' = ES!Last(Stack) /\ Stack' \in Seq(Containers)
           /\ Rest(Stack) = ES!View(Stack, "item", ES!Last(Stack))
<1>1. /\ array_nesting_level' = array_nesting_level - 1 /\ array_nesting_level > 0
      /\ OpenLevel(array_nesting_level) = struct_nesting_level
      /\ arr_frames' = [arr_frames EXCEPT ![array_nesting_level - 1].dim_row_size = width]
      /\ value_type' = arr_frames[array_nesting_level - 1].saved_vtype
  BY DEF PopFrame, InnermostIsArray
<1>2. array_nesting_level - 1 \in Levels /\ array_nesting_level \in Nat /\ struct_nesting_level \in Nat
  BY <1>1, LevelsNow
<1>3. \A i \in Levels : /\ arr_frames'[i].open_struct_level = OpenLevel(i)
                        /\ arr_frames'[i].saved_vtype = arr_frames[i].saved_vtype
  BY <1>1, <1>2, FrameExcept
<1>4. \A i \in 1..array_nesting_level' : i \in Levels /\ i - 1 \in Levels
  BY <1>1, LevelsNow
<1>5. \A i \in 1..array_nesting_level : i > array_nesting_level' => i + OpenLevel(i) > struct_nesting_level' + array_nesting_level'
  BY <1>1, <1>2
<1>6. Stack' = SubSeq(Stack, 1, struct_nesting_level' + array_nesting_level')
  BY <1>1, <1>2, <1>3, <1>4, <1>5, StackCut
<1>7. Stack \in Seq(Containers) /\ Len(Stack) = struct_nesting_level + array_nesting_level
  BY StackIsRight DEF StackRight
<1>8. Stack' = ES!Front(Stack)
  <2>1. struct_nesting_level' + array_nesting_level' = Len(Stack) - 1
    BY <1>1, <1>2, <1>7
  <2> HIDE DEF Stack
  <2> QED BY <1>6, <2>1 DEF ES!Front
<1>9. /\ Len(Stack) > 0 /\ Stack[Len(Stack)] # "struct" /\ ES!Last(Stack) = Stack[Len(Stack)]
      /\ Stack[Len(Stack)] = value_type'
  BY <1>1, TopArray DEF ES!Last
<1>10. Stack' \in Seq(Containers)
  BY StackIsRightNext DEF StackRight
<1>11. Rest(Stack) = ES!View(Stack, "item", ES!Last(Stack))
  <2> HIDE DEF Stack
  <2>1. Stack # <<>>
    BY <1>7, <1>9
  <2> QED BY <1>7, <1>9, <2>1, RestIs
<1> HIDE DEF Stack
<1> QED BY <1>8, <1>9, <1>10, <1>11

\* ']' ends the last element and its row.
LEMMA ArrayOutroDelivers ==
    ASSUME Nested, Nested', TokenOver, TokenUnder, status = "running", NEW b \in Bytes, ArrayOutro(b)
    PROVE  ES!Next
<1> DEFINE empty == next_state = "array_intro"
           last  == IF empty THEN <<>> ELSE Finalized
<1>1. Ends(b)
  BY DEF ArrayOutro
<1>2. CASE \E items : ErrorOn(b, NullIfTyped, items) \/ ErrorOn(b, Finalized, items)
  BY <1>1, <1>2, EndLeads, ErrorDelivers
<1>3. CASE ErrorOn(b, <<>>, array_items)
  BY <1>3, ErrorNow
<1>4. CASE ~(\E items : ErrorOn(b, NullIfTyped, items) \/ ErrorOn(b, Finalized, items)) /\ ~ErrorOn(b, <<>>, array_items)
  <2>1. /\ OwnsArray /\ Emit(Append(last, Mark("row_end"))) /\ \E width : PopFrame(width)
        /\ next_state' = "array_outro" /\ UNCHANGED struct_nesting_level
    BY <1>4 DEF ArrayOutro, FinalizeFails
  <2>2. InnermostIsArray
    BY <2>1 DEF OwnsArray, InnermostIsArray, OpenLevel
  <2>3. /\ Stack' = ES!Front(Stack) /\ value_type' = ES!Last(Stack)
        /\ Rest(Stack) = ES!View(Stack, "item", ES!Last(Stack))
    BY <2>1, <2>2, PoppedStack
  <2>4. PICK c : Leads(ES!Current, last, c) /\ ES!Resting(c).expect = "item" /\ ES!Resting(c).open = Stack
    <3>1. CASE empty
      <4>1. ES!Current = ES!View(Stack, "item", value_type)
        <5>1. Place \in ElementStates
          BY <3>1 DEF Place, CommentStates, ElementStates
        <5> QED BY <5>1, ViewShown DEF Shown
      <4>2. ES!Resting(ES!Current) = ES!Current
        BY <4>1 DEF ES!Resting, ES!View
      <4> HIDE DEF Stack
      <4> QED BY <3>1, <4>1, <4>2, LeadsNowhere DEF ES!View
    <3>2. CASE ~empty
      <4>1. PICK c : Leads(ES!Current, Finalized, c) /\ ES!Resting(c) = Rest(Stack)
        BY <1>1, EndLeads
      <4> HIDE DEF Stack
      <4> QED BY <2>3, <3>2, <4>1 DEF ES!View
    <3> QED BY <3>1, <3>2
  <2>5. last \in Seq(AnyEvent)
    BY <1>1, EndLeads, NoEvents
  <2> DEFINE d == ES!View(ES!Front(Stack), "row_done", ES!Last(Stack))
  <2>6. <<Mark("row_end")>> \in Seq(AnyEvent) /\ Leads(c, <<Mark("row_end")>>, d)
    BY <2>4, RowEndLeads
  <2> HIDE DEF last, Stack
  <2>7. Leads(ES!Current, last \o <<Mark("row_end")>>, d)
    BY <2>4, <2>5, <2>6, LeadsOn
  <2>8. last \o <<Mark("row_end")>> \in Seq(AnyEvent) /\ Append(last, Mark("row_end")) = last \o <<Mark("row_end")>>
    BY <2>5, <2>6
  <2>9. ASSUME status' = "running" PROVE ES!Current' = d
    <3>1. Place' = "array_outro"
      BY <2>1 DEF Place, CommentStates
    <3>2. ES!Current' = ES!View(Stack', "row_done", value_type')
      BY <2>9, <3>1, ViewShownNext DEF Shown
    <3> QED BY <2>3, <3>2
  <2>10. Emit(last \o <<Mark("row_end")>>)
    BY <2>1, <2>8
  <2> QED BY <2>7, <2>8, <2>9, <2>10, EmitDelivers
<1> QED BY <1>2, <1>3, <1>4

\* What opening an array writes into its frames.
LEMMA OpenedFrames ==
    ASSUME Nested, array_nesting_level # max_array_nesting, NEW curr, NEW row,
           arr_frames' =
             [arr_frames EXCEPT
                ![array_nesting_level] = [@ EXCEPT !.saved_curr = curr, !.saved_row = row, !.saved_vtype = value_type],
                ![array_nesting_level + 1] = [@ EXCEPT !.in_dim_seq = FALSE,
                                                       !.dim_row_size = 0,
                                                       !.open_struct_level = struct_nesting_level]]
    PROVE  /\ \A i \in 1..array_nesting_level :
                 /\ arr_frames'[i].open_struct_level = OpenLevel(i)
                 /\ arr_frames'[i - 1].saved_vtype = arr_frames[i - 1].saved_vtype
           /\ arr_frames'[array_nesting_level + 1].open_struct_level = struct_nesting_level
           /\ arr_frames'[array_nesting_level].saved_vtype = value_type
<1> DEFINE n     == array_nesting_level
           below == [arr_frames[n] EXCEPT !.saved_curr = curr, !.saved_row = row, !.saved_vtype = value_type]
           above == [arr_frames[n + 1] EXCEPT !.in_dim_seq = FALSE, !.dim_row_size = 0,
                                              !.open_struct_level = struct_nesting_level]
<1>1. n \in Levels /\ n + 1 \in Levels /\ n \in Nat /\ arr_frames \in [Levels -> Frame]
  BY LimitsAssumption DEF Nested, NestingTypeOK, Levels
<1>2. arr_frames[n] \in Frame /\ arr_frames[n + 1] \in Frame
  BY <1>1
<1>3. /\ below.open_struct_level = arr_frames[n].open_struct_level /\ below.saved_vtype = value_type
      /\ above.open_struct_level = struct_nesting_level
  BY <1>2 DEF Frame
<1>4. arr_frames' = [arr_frames EXCEPT ![n] = below, ![n + 1] = above]
  <2>1. n # n + 1
    BY <1>1
  <2> QED BY <1>1, <2>1
<1> HIDE DEF below, above
<1>5. \A i \in Levels : arr_frames'[i] = IF i = n + 1 THEN above ELSE IF i = n THEN below ELSE arr_frames[i]
  BY <1>1, <1>4
<1>6. \A i \in 1..n : i \in Levels /\ i - 1 \in Levels /\ i # n + 1 /\ i - 1 # n + 1 /\ i - 1 # n
  BY <1>1, LevelsNow
<1>7. n # n + 1
  BY <1>1
<1> QED BY <1>1, <1>3, <1>5, <1>6, <1>7 DEF OpenLevel

\* '[' opens a row: that of the value, or one inside the row that is open.
LEMMA ArrayIntroDelivers ==
    ASSUME Nested, Nested', status = "running", NEW b \in Bytes, ArrayIntro(b)
    PROVE  ES!Next
<1>1. CASE ErrorOn(b, <<>>, array_items)
  BY <1>1, ErrorNow
<1>2. CASE ~ErrorOn(b, <<>>, array_items)
  <2>1. /\ next_state \in ValueStates \cup {"array_dim_sep"} /\ array_nesting_level # max_array_nesting
        /\ Emit(<<Event("row_start", value_type)>>)
        /\ array_nesting_level' = array_nesting_level + 1 /\ next_state' = "array_intro"
        /\ UNCHANGED <<struct_nesting_level, value_type>>
    BY <1>2 DEF ArrayIntro
  <2>2. /\ \A i \in 1..array_nesting_level :
              /\ arr_frames'[i].open_struct_level = OpenLevel(i)
              /\ arr_frames'[i - 1].saved_vtype = arr_frames[i - 1].saved_vtype
        /\ arr_frames'[array_nesting_level + 1].open_struct_level = struct_nesting_level
        /\ arr_frames'[array_nesting_level].saved_vtype = value_type
    BY <1>2, <2>1, OpenedFrames DEF ArrayIntro
  <2>3. Stack' = Append(Stack, value_type)
    BY <2>1, <2>2, StackArray
  <2> DEFINE d == ES!View(Append(Stack, value_type), "item", value_type)
  <2>4. \E e \in {"value", "item", "row"} : ES!Current = ES!View(Stack, e, value_type)
    <3>1. Place = next_state
      BY <2>1 DEF Place, CommentStates, ValueStates, ElementStates
    <3>2. CASE next_state = "array_dim_sep"
      BY <3>1, <3>2, ViewShown DEF Shown
    <3>3. CASE next_state \in ValueStates
      <4>1. Place \in TextPlaces
        BY <3>1, <3>3 DEF TextPlaces
      <4> QED BY <4>1, TextIsShown DEF TextShown
    <3> QED BY <2>1, <3>2, <3>3
  <2>5. d \in ES!After(ES!Current, Event("row_start", value_type))
    <3>1. ES!After(ES!Current, Event("row_start", value_type))
            = IF (ES!WantsValue(ES!Resting(ES!Current)) \/ ES!Current.expect = "row")
                 /\ value_type = ES!Resting(ES!Current).force
              THEN {ES!Opened(ES!Resting(ES!Current), ES!Resting(ES!Current).force, "item", ES!Resting(ES!Current).force)}
              ELSE {}
      BY AfterCases
    <3>2. ES!Resting(ES!Current) = ES!Current
      BY <2>4 DEF ES!Resting, ES!View
    <3>3. ES!Current.open = Stack /\ ES!Current.force = value_type /\ ES!Current.expect \in {"value", "item", "row"}
      BY <2>4 DEF ES!View
    <3> HIDE DEF Stack
    <3> QED BY <3>1, <3>2, <3>3 DEF ES!WantsValue, ES!Opened
  <2>6. ASSUME status' = "running" PROVE ES!Current' = d
    <3>1. Place' \in ElementStates
      BY <2>1 DEF Place, CommentStates, ElementStates
    <3>2. ES!Current' = ES!View(Stack', "item", value_type')
      BY <2>6, <3>1, ViewShownNext DEF Shown
    <3> QED BY <2>1, <2>3, <3>2
  <2>7. Event("row_start", value_type) \in AnyEvent
    BY TypesNow DEF Event, AnyEvent, EventNames
  <2> QED BY <2>1, <2>5, <2>6, <2>7, OneDelivers
<1> QED BY <1>1, <1>2

\* '/' goes on to the next row.
LEMMA ArrayDimSepDelivers ==
    ASSUME Nested, Nested', status = "running", NEW b \in Bytes, ArrayDimSep(b)
    PROVE  ES!Next
<1>1. Place = "array_outro" /\ Place' = "array_dim_sep"
  BY DEF ArrayDimSep, Place, CommentStates
<1>2. ES!Current = ES!View(Stack, "row_done", value_type)
  BY <1>1, ViewShown DEF Shown
<1>3. Stack' = Stack
  BY LevelsNow, FrameExcept, StackKept DEF ArrayDimSep
<1> DEFINE d == ES!View(Stack, "row", value_type)
<1>4. d \in ES!After(ES!Current, Mark("dim_start"))
  <2>1. ES!After(ES!Current, Mark("dim_start"))
          = IF ES!Current.expect = "row_done" THEN {ES!View(ES!Current.open, "row", ES!Current.force)} ELSE {}
    BY AfterCases
  <2> HIDE DEF Stack
  <2> QED BY <1>2, <2>1 DEF ES!View
<1>5. ASSUME status' = "running" PROVE ES!Current' = d
  <2>1. ES!Current' = ES!View(Stack', "row", value_type')
    BY <1>1, <1>5, ViewShownNext DEF Shown
  <2> QED BY <1>3, <2>1 DEF ArrayDimSep
<1>6. Mark("dim_start") \in AnyEvent
  BY DEF Mark, Event, AnyEvent, EventNames, Types
<1> QED BY <1>4, <1>5, <1>6, OneDelivers DEF ArrayDimSep

\* '{' opens a struct.
LEMMA StructIntroDelivers ==
    ASSUME Nested, Nested', status = "running", NEW b \in Bytes, StructIntro(b)
    PROVE  ES!Next
<1>1. CASE ErrorOn(b, <<>>, array_items)
  BY <1>1, ErrorNow
<1>2. CASE ~ErrorOn(b, <<>>, array_items)
  <2>1. /\ next_state \in ValueStates /\ value_type = Plain /\ Emit(<<Mark("struct_start")>>)
        /\ struct_nesting_level' = struct_nesting_level + 1 /\ next_state' = "struct_intro"
        /\ UNCHANGED <<array_nesting_level, arr_frames>>
    BY <1>2 DEF StructIntro, arrays
  <2>2. Stack' = Append(Stack, "struct")
    BY <2>1, StackStruct
  <2> DEFINE d == ES!View(Append(Stack, "struct"), "key", Plain)
  <2>3. \E e \in {"value", "item"} : ES!Current = ES!View(Stack, e, Plain)
    <3>1. Place \in TextPlaces
      BY <2>1 DEF Place, CommentStates, ValueStates, ElementStates, TextPlaces
    <3> QED BY <2>1, <3>1, TextIsShown DEF TextShown
  <2>4. d \in ES!After(ES!Current, Mark("struct_start"))
    <3>1. ES!After(ES!Current, Mark("struct_start"))
            = IF ES!WantsValue(ES!Resting(ES!Current)) /\ ES!Resting(ES!Current).force = Plain
              THEN {ES!Opened(ES!Resting(ES!Current), "struct", "key", Plain)} ELSE {}
      BY AfterCases
    <3>2. ES!Resting(ES!Current) = ES!Current
      BY <2>3 DEF ES!Resting, ES!View
    <3>3. ES!Current.open = Stack /\ ES!Current.force = Plain /\ ES!Current.expect \in {"value", "item"}
      BY <2>3 DEF ES!View
    <3> HIDE DEF Stack
    <3> QED BY <3>1, <3>2, <3>3 DEF ES!WantsValue, ES!Opened
  <2>5. ASSUME status' = "running" PROVE ES!Current' = d
    <3>1. Place' \in BoundaryPlaces
      BY <2>1 DEF Place, CommentStates, BoundaryPlaces, KeyStates
    <3>2. ES!Current' = ES!View(Stack', "key", Plain)
      BY <2>5, <3>1, ViewShownNext DEF Shown
    <3> QED BY <2>2, <3>2
  <2>6. Mark("struct_start") \in AnyEvent
    BY DEF Mark, Event, AnyEvent, EventNames, Types
  <2> QED BY <2>1, <2>4, <2>5, <2>6, OneDelivers
<1> QED BY <1>1, <1>2

\* '}' closes it.
LEMMA StructOutroDelivers ==
    ASSUME Nested, Nested', status = "running", NEW b \in Bytes, StructOutro(b)
    PROVE  ES!Next
<1>1. CASE ErrorOn(b, <<>>, array_items)
  BY <1>1, ErrorNow
<1>2. CASE ~ErrorOn(b, <<>>, array_items)
  <2>1. /\ next_state \in KeyStates /\ struct_nesting_level # 0 /\ Emit(<<Mark("struct_end")>>)
        /\ struct_nesting_level' = struct_nesting_level - 1 /\ next_state' = "struct_outro"
        /\ UNCHANGED <<array_nesting_level, arr_frames>>
    BY <1>2 DEF StructOutro, arrays
  <2>2. Place \in BoundaryPlaces
    BY <2>1 DEF Place, CommentStates, BoundaryPlaces, KeyStates
  <2>3. ES!Current = Rest(Stack) /\ ~InnermostIsArray
    BY <2>2, ViewShown DEF Shown, Nested, BoundaryOutsideArrays
  <2>4. /\ Stack \in Seq(Containers) /\ Len(Stack) = struct_nesting_level + array_nesting_level
        /\ struct_nesting_level \in Nat /\ array_nesting_level \in Nat
    BY StackIsRight DEF StackRight
  <2>5. Stack' = SubSeq(Stack, 1, struct_nesting_level' + array_nesting_level')
    <3>1. \A i \in 1..array_nesting_level : arr_frames'[i].open_struct_level = OpenLevel(i)
      BY <2>1 DEF OpenLevel
    <3> QED BY <2>1, <2>4, <3>1, StackCut
  <2>6. Stack # <<>> /\ Stack[Len(Stack)] = "struct"
    <3>1. Stack = <<>> \/ (Len(Stack) > 0 /\ Stack[Len(Stack)] = "struct")
      BY <2>3, TopStruct
    <3>2. Len(Stack) # 0
      BY <2>1, <2>4
    <3> HIDE DEF Stack
    <3> QED BY <3>1, <3>2
  <2>7. ES!Resting(ES!Current) = Rest(Stack)
    <3> HIDE DEF Stack
    <3> QED BY <2>3, <2>4, RestIs
  <2>8. Stack' = SubSeq(Stack, 1, Len(Stack) - 1)
    <3>1. struct_nesting_level' + array_nesting_level' = Len(Stack) - 1
      BY <2>1, <2>4
    <3> QED BY <2>5, <3>1
  <2>9. Leads(ES!Current, <<Mark("struct_end")>>, Rest(Stack'))
    <3> HIDE DEF Stack
    <3> QED BY <2>4, <2>6, <2>7, <2>8, StructEndLeads
  <2>10. status' = "running" => ES!Current' = Rest(Stack')
    BY <2>1, RestsNext
  <2>11. <<Mark("struct_end")>> \in Seq(AnyEvent)
    BY PlainMarks DEF Uncounted
  <2> QED BY <2>1, <2>9, <2>10, <2>11, EmitDelivers
<1> QED BY <1>1, <1>2

\* NUL begins an octet stream.
LEMMA OctetStreamIntroDelivers ==
    ASSUME Nested, Nested', status = "running", NEW b \in Bytes, OctetStreamIntro(b)
    PROVE  ES!Next
<1>1. CASE Fail(<<>>)
  BY <1>1, FailNow
<1>2. CASE ~Fail(<<>>)
  <2>1. /\ next_state \in ValueStates /\ Emit(<<Mark("octets_start")>>) /\ next_state' = "octet_stream_intro"
        /\ UNCHANGED <<struct_nesting_level, array_nesting_level, arr_frames, value_type>>
    BY <1>2 DEF OctetStreamIntro, Unnested, arrays
  <2>2. Stack' = Stack
    BY <2>1, StackUnchanged
  <2> DEFINE d == ES!View(Stack, "octets", value_type)
  <2>3. \E e \in {"value", "item"} : ES!Current = ES!View(Stack, e, value_type)
    <3>1. Place \in TextPlaces
      BY <2>1 DEF Place, CommentStates, ValueStates, ElementStates, TextPlaces
    <3> QED BY <3>1, TextIsShown DEF TextShown
  <2>4. d \in ES!After(ES!Current, Mark("octets_start"))
    <3>1. ES!After(ES!Current, Mark("octets_start"))
            = IF ES!WantsValue(ES!Resting(ES!Current))
              THEN {ES!View(ES!Resting(ES!Current).open, "octets", ES!Resting(ES!Current).force)} ELSE {}
      BY AfterCases
    <3>2. ES!Resting(ES!Current) = ES!Current
      BY <2>3 DEF ES!Resting, ES!View
    <3>3. ES!Current.open = Stack /\ ES!Current.force = value_type /\ ES!Current.expect \in {"value", "item"}
      BY <2>3 DEF ES!View
    <3> HIDE DEF Stack
    <3> QED BY <3>1, <3>2, <3>3 DEF ES!WantsValue
  <2>5. ASSUME status' = "running" PROVE ES!Current' = d
    <3>1. Place' = "octet_stream_intro"
      BY <2>1 DEF Place, CommentStates
    <3>2. ES!Current' = ES!View(Stack', "octets", value_type')
      BY <2>5, <3>1, ViewShownNext DEF Shown
    <3> QED BY <2>1, <2>2, <3>2
  <2>6. Mark("octets_start") \in AnyEvent
    BY DEF Mark, Event, AnyEvent, EventNames, Types
  <2> QED BY <2>1, <2>4, <2>5, <2>6, OneDelivers
<1> QED BY <1>1, <1>2

\* Its chunks, and its end.
LEMMA OctetsDeliver ==
    ASSUME Nested, Nested', OctetChunk \/ OctetStreamEnd
    PROVE  ES!Next
<1>1. /\ status = "running" /\ next_state = "octet_stream_intro" /\ Place = "octet_stream_intro"
      /\ UNCHANGED <<struct_nesting_level, array_nesting_level, arr_frames, value_type>>
  BY DEF OctetChunk, OctetStreamEnd, Unnested, arrays, Place, CommentStates
<1>2. ES!Current = ES!View(Stack, "octets", value_type)
  BY <1>1, ViewShown DEF Shown
<1>3. CASE OctetChunk
  <2>1. ES!Current \in ES!After(ES!Current, Mark("octets"))
    <3>1. ES!After(ES!Current, Mark("octets")) = IF ES!Current.expect = "octets" THEN {ES!Current} ELSE {}
      BY AfterCases
    <3> QED BY <1>2, <3>1 DEF ES!View
  <2>2. Place' = Place /\ Emit(<<Mark("octets")>>)
    BY <1>3 DEF OctetChunk, lexing, Place
  <2>3. status' = "running" => ES!Current' = ES!Current
    BY <1>1, <2>2, SameView
  <2>4. Mark("octets") \in AnyEvent
    BY DEF Mark, Event, AnyEvent, EventNames, Types
  <2> QED BY <1>1, <2>1, <2>2, <2>3, <2>4, OneDelivers
<1>4. CASE OctetStreamEnd
  <2>1. Stack' = Stack /\ Stack \in Seq(Containers)
    BY <1>1, StackUnchanged, StackIsRight DEF StackRight
  <2>2. Rest(Stack) \in ES!After(ES!Current, Mark("octets_end"))
    <3>1. ES!After(ES!Current, Mark("octets_end")) = IF ES!Current.expect = "octets" THEN {ES!Settled(ES!Current)} ELSE {}
      BY AfterCases
    <3> HIDE DEF Stack
    <3>2. ES!Settled(ES!Current) = Rest(Stack)
      BY <1>2, <2>1, RestIs
    <3>3. ES!Current.expect = "octets"
      BY <1>2 DEF ES!View
    <3> QED BY <3>1, <3>2, <3>3
  <2>3. Emit(<<Mark("octets_end")>>) /\ next_state' = "octet_stream_outro"
    BY <1>4 DEF OctetStreamEnd
  <2>4. status' = "running" => ES!Current' = Rest(Stack)
    BY <2>1, <2>3, RestsNext
  <2>5. Mark("octets_end") \in AnyEvent
    BY DEF Mark, Event, AnyEvent, EventNames, Types
  <2> QED BY <1>1, <2>2, <2>3, <2>4, <2>5, OneDelivers
<1> QED BY <1>3, <1>4

\* While a region is skipped nothing is told but what it closes.
LEMMA SkippingRests ==
    ASSUME Nested, status = "running", next_state \in ResyncStates
    PROVE  ES!Current = Rest(Stack) /\ ES!Resting(ES!Current) = Rest(Stack) /\ Stack \in Seq(Containers)
<1>1. Place \in ResyncStates
  BY DEF Place, CommentStates, ResyncStates
<1>2. Stack \in Seq(Containers)
  BY StackIsRight DEF StackRight
<1>3. ES!Current = Rest(Stack)
  BY <1>1, ViewShown DEF Shown
<1> HIDE DEF Stack
<1> QED BY <1>2, <1>3, RestIs

\* Skipping, ']' closes the innermost array if the struct owns it.
LEMMA ResyncCloseArrayDelivers ==
    ASSUME Nested, Nested', status = "running", NEW b \in Bytes, ResyncCloseArray(b)
    PROVE  ES!Next
<1>1. next_state \in ResyncStates /\ next_state' = "resync" /\ UNCHANGED struct_nesting_level
  BY DEF ResyncCloseArray, ResyncStates
<1>2. CASE resync_array_depth = 0 /\ OwnsArray
  <2>1. Emit(<<Mark("row_end")>>) /\ PopFrame(curr_row_size) /\ InnermostIsArray
    BY <1>2 DEF ResyncCloseArray, OwnsArray, InnermostIsArray, OpenLevel
  <2>2. /\ Stack' = ES!Front(Stack) /\ Stack' \in Seq(Containers)
        /\ Rest(Stack) = ES!View(Stack, "item", ES!Last(Stack))
    BY <1>1, <2>1, PoppedStack
  <2> DEFINE d == ES!View(ES!Front(Stack), "row_done", ES!Last(Stack))
  <2>3. <<Mark("row_end")>> \in Seq(AnyEvent) /\ Leads(ES!Current, <<Mark("row_end")>>, d)
    <3>1. ES!Resting(ES!Current) = ES!View(Stack, "item", ES!Last(Stack))
      BY <1>1, <2>2, SkippingRests
    <3>2. ES!Resting(ES!Current).expect = "item" /\ ES!Resting(ES!Current).open = Stack
      BY <3>1 DEF ES!View
    <3> QED BY <3>2, RowEndLeads
  <2>4. status' = "running" => ES!Current' = Rest(Stack')
    BY <1>1, RestsNext DEF ResyncStates
  <2>5. ES!Resting(d) = Rest(Stack')
    <3> HIDE DEF Stack
    <3> QED BY <2>2, RestIs
  <2> QED BY <2>1, <2>3, <2>4, <2>5, EmitDelivers
<1>3. CASE ~(resync_array_depth = 0 /\ OwnsArray)
  <2>1. Quiet /\ UNCHANGED <<struct_nesting_level, array_nesting_level, arr_frames, value_type>>
    BY <1>1, <1>3 DEF ResyncCloseArray, arrays
  <2>2. {Place, Place'} \subseteq ResyncStates
    BY <1>1 DEF Place, CommentStates, ResyncStates
  <2> QED BY <2>1, <2>2, UnseenDelivers
<1> QED BY <1>2, <1>3

\* Skipping, '}' closes the struct and the arrays it owns.
LEMMA ResyncCloseStructDelivers ==
    ASSUME Nested, Nested', status = "running", NEW b \in Bytes, ResyncCloseStruct(b)
    PROVE  ES!Next
<1>1. next_state \in ResyncStates /\ next_state' = "resync"
  BY DEF ResyncCloseStruct, ResyncStates
<1>2. CASE resync_struct_depth = 0 /\ struct_nesting_level > 0
  <2>1. PICK base \in 0..array_nesting_level :
          /\ OwnBase(base, struct_nesting_level) /\ CloseArraysTo(base, array_items)
          /\ struct_nesting_level' = struct_nesting_level - 1
          /\ Emit(Append(RowEnds(base), Mark("struct_end")))
    BY <1>2 DEF ResyncCloseStruct
  <2>2. RowEnds(base) \in Seq(AnyEvent)
    BY <1>1, <2>1, SkippingRests, RowEndsLead
  <2>3. PICK d : /\ Leads(ES!Current, RowEnds(base), d)
                 /\ ES!Resting(d) = Rest(SubSeq(Stack, 1, struct_nesting_level + base))
    BY <1>1, <2>1, SkippingRests, RowEndsLead
  <2>4. Leads(d, <<Mark("struct_end")>>, Rest(Stack'))
    BY <1>2, <2>1, <2>3, ClosedStructLeads
  <2>5. <<Mark("struct_end")>> \in Seq(AnyEvent)
    BY PlainMarks DEF Uncounted
  <2>6. Leads(ES!Current, RowEnds(base) \o <<Mark("struct_end")>>, Rest(Stack'))
    BY <2>2, <2>3, <2>4, <2>5, LeadsOn
  <2>7. /\ RowEnds(base) \o <<Mark("struct_end")>> \in Seq(AnyEvent)
        /\ Append(RowEnds(base), Mark("struct_end")) = RowEnds(base) \o <<Mark("struct_end")>>
    BY <2>2, <2>5
  <2>8. status' = "running" => ES!Current' = Rest(Stack')
    BY <1>1, RestsNext DEF ResyncStates
  <2>9. Emit(RowEnds(base) \o <<Mark("struct_end")>>)
    BY <2>1, <2>7
  <2> QED BY <2>6, <2>7, <2>8, <2>9, EmitDelivers
<1>3. CASE ~(resync_struct_depth = 0 /\ struct_nesting_level > 0)
  <2>1. Quiet /\ UNCHANGED <<struct_nesting_level, array_nesting_level, arr_frames, value_type>>
    BY <1>3 DEF ResyncCloseStruct, arrays
  <2>2. {Place, Place'} \subseteq ResyncStates
    BY <1>1 DEF Place, CommentStates, ResyncStates
  <2> QED BY <2>1, <2>2, UnseenDelivers
<1> QED BY <1>2, <1>3

\* Where reading resumes no struct is closed: recovery never has to.
LEMMA ResumeDelivers ==
    ASSUME Nested, Nested', status = "running", next_state \in ResyncStates,
           Resume("value_outro", "unknown") \/ Resume("identifier", "identifier")
    PROVE  ES!Next
<1> DEFINE depth == IF struct_nesting_level < resync_saved_struct_nesting
                    THEN struct_nesting_level ELSE resync_saved_struct_nesting
<1>1. depth = struct_nesting_level
  BY LimitsAssumption DEF Nested, NestingTypeOK, ResumesOutward
<1>2. PICK base \in 0..array_nesting_level :
        /\ OwnBase(base, struct_nesting_level) /\ CloseArraysTo(base, array_items)
        /\ struct_nesting_level' = struct_nesting_level
        /\ Emit(Marks("struct_end", struct_nesting_level - depth) \o RowEnds(base))
  BY <1>1 DEF Resume
<1>3. next_state' \in {"value_outro", "identifier"}
  BY DEF Resume
<1>4. RowEnds(base) \in Seq(AnyEvent)
  BY <1>2, SkippingRests, RowEndsLead
<1>5. Emit(RowEnds(base))
  <2>1. struct_nesting_level - depth = 0
    BY <1>1, LevelsNow
  <2>2. Marks("struct_end", 0) \in Seq(AnyEvent)
    <3>1. "struct_end" \in EventNames /\ "struct_end" \notin ElementEvents
      BY DEF EventNames, ElementEvents
    <3> QED BY <3>1, MarksUncounted DEF Uncounted
  <2>3. Marks("struct_end", 0) = <<>>
    <3>1. Len(Marks("struct_end", 0)) = 0
      BY DEF Marks
    <3> QED BY <2>2, <3>1
  <2>4. <<>> \o RowEnds(base) = RowEnds(base)
    <3> HIDE DEF RowEnds
    <3> QED BY <1>4
  <2> QED BY <1>2, <2>1, <2>3, <2>4
<1>6. PICK d : /\ Leads(ES!Current, RowEnds(base), d)
               /\ ES!Resting(d) = Rest(SubSeq(Stack, 1, struct_nesting_level + base))
  BY <1>2, SkippingRests, RowEndsLead
<1>7. Stack' = SubSeq(Stack, 1, struct_nesting_level + base)
  BY <1>2, ClosedStack
<1>8. status' = "running" => ES!Current' = Rest(Stack')
  BY <1>3, RestsNext
<1> QED BY <1>4, <1>5, <1>6, <1>7, <1>8, EmitDelivers

\* Bytes that are no character.
LEMMA MalformedTextDelivers ==
    ASSUME Nested, Nested', status = "running", NEW b \in Bytes, MalformedText(b)
    PROVE  ES!Next
<1>1. CASE Fail(<<>>)
  BY <1>1, FailNow
<1>2. CASE ~Fail(<<>>)
  <2>1. PICK base \in 0..array_nesting_level :
          /\ OwnBase(base, struct_nesting_level) /\ CloseArraysTo(base, array_items)
          /\ next_state' = ResyncTarget(b) /\ Emit(<<Error>> \o RowEnds(base)) /\ UNCHANGED struct_nesting_level
    BY <1>2 DEF MalformedText, EnterResync
  <2>2. <<>> \o <<Error>> = <<Error>>
    OBVIOUS
  <2>3. <<Error>> \o RowEnds(base) \in Seq(AnyEvent)
    BY <2>1, <2>2, NoEvents, LeadsNowhere, NowListening, OpenNow, ErrorRowsLead
  <2>4. PICK d : /\ Leads(ES!Current, <<Error>> \o RowEnds(base), d)
                 /\ ES!Resting(d) = Rest(SubSeq(Stack, 1, struct_nesting_level + base))
    BY <2>1, <2>2, NoEvents, LeadsNowhere, NowListening, OpenNow, ErrorRowsLead
  <2>5. Stack' = SubSeq(Stack, 1, struct_nesting_level + base)
    BY <2>1, ClosedStack
  <2>6. ResyncTarget(b) \in ResyncStates
    BY TargetCases DEF ResyncStates, StringStates
  <2>7. status' = "running" => ES!Current' = Rest(Stack')
    BY <2>1, <2>6, RestsNext
  <2> QED BY <2>1, <2>3, <2>4, <2>5, <2>7, EmitDelivers
<1> QED BY <1>1, <1>2

-----------------------------------------------------------------------------
(* The run around the bytes, and the whole.                                *)

\* Before the read begins nothing is open.
Unbegun == status = "opened" => Place = "first_bom" /\ struct_nesting_level = 0 /\ array_nesting_level = 0

\* Nothing returns to before the read.
LEMMA UnbegunKept == Unbegun /\ Next => Unbegun'
<1> SUFFICES ASSUME Next PROVE status' # "opened"
  BY DEF Unbegun
<1>1. CASE BeginRead \/ OctetChunk \/ OctetStreamEnd
  BY <1>1, EmitStatus DEF BeginRead, OctetChunk, OctetStreamEnd
<1>2. CASE EndOfInput \/ InputFails
  BY <1>2 DEF EndOfInput, InputFails, Fail
<1>3. CASE \E b \in Bytes : Byte(b)
  BY <1>3, ByteStatus
<1> QED BY <1>1, <1>2, <1>3 DEF Next

\* No levels, no containers.
LEMMA EmptyStack ==
    ASSUME Nested, struct_nesting_level = 0, array_nesting_level = 0
    PROVE  Stack = <<>>
<1>1. Stack \in Seq(Containers) /\ Len(Stack) = 0
  BY StackIsRight DEF StackRight
<1> HIDE DEF Stack
<1> QED BY <1>1

\* The first event of a document.
LEMMA BeginReadDelivers ==
    ASSUME Nested, Nested', Unbegun, BeginRead
    PROVE  ES!Next
<1>1. /\ status = "opened" /\ Emit(<<Mark("stream_start")>>) /\ Place' = Place
      /\ UNCHANGED <<struct_nesting_level, array_nesting_level>>
  BY DEF BeginRead, Unnested, arrays, lexing, Place
<1>2. Place = "first_bom" /\ struct_nesting_level = 0 /\ array_nesting_level = 0
  BY <1>1 DEF Unbegun
<1> DEFINE d == ES!View(<<>>, "key", Plain)
<1>3. d \in ES!After(ES!Current, Mark("stream_start"))
  <2>1. ES!Current = ES!View(<<>>, "start", Plain)
    BY <1>1, NotOver
  <2>2. ES!After(ES!Current, Mark("stream_start"))
          = IF ES!Current.expect = "start" THEN {ES!View(<<>>, "key", Plain)} ELSE {}
    BY AfterCases
  <2> QED BY <2>1, <2>2 DEF ES!View
<1>4. ASSUME status' = "running" PROVE ES!Current' = d
  <2>1. Place' \in BoundaryPlaces
    BY <1>1, <1>2 DEF BoundaryPlaces, KeyStates
  <2>2. ES!Current' = ES!View(Stack', "key", Plain)
    BY <1>4, <2>1, ViewShownNext DEF Shown
  <2>3. Stack' = <<>>
    <3>1. StackRight'
      BY StackIsRightNext
    <3>2. Stack' \in Seq(Containers) /\ Len(Stack') = 0
      BY <1>1, <1>2, <3>1 DEF StackRight
    <3> HIDE DEF Stack
    <3> QED BY <3>2
  <2> QED BY <2>2, <2>3
<1>5. Mark("stream_start") \in AnyEvent
  BY DEF Mark, Event, AnyEvent, EventNames, Types
<1> QED BY <1>1, <1>3, <1>4, <1>5, OneDelivers

\* Errors in comments, however many, abandon nothing.
LEMMA CommentErrorsLead ==
    ASSUME NEW n \in Nat, NEW c, Listening(c)
    PROVE  Marks("comment_error", n) \in Seq(AnyEvent) /\ Leads(c, Marks("comment_error", n), c)
<1> DEFINE w == [k \in 0..n |-> c]
<1>1. Marks("comment_error", n) \in Seq(AnyEvent)
  <2>1. "comment_error" \in EventNames /\ "comment_error" \notin ElementEvents
    BY DEF EventNames, ElementEvents
  <2> QED BY <2>1, MarksUncounted DEF Uncounted
<1>2. Len(Marks("comment_error", n)) = n /\ \A k \in 1..n : Marks("comment_error", n)[k] = CommentError
  BY DEF Marks, CommentError
<1>3. c \in ES!After(c, CommentError)
  <2>1. ES!After(c, CommentError) = IF c.expect \in {"start", "end", "stopped"} THEN {} ELSE {c}
    BY AfterCases
  <2> QED BY <2>1 DEF Listening
<1>4. \A k \in 0..n : w[k] = c
  OBVIOUS
<1> HIDE DEF w
<1>5. w[0] = c /\ w[n] = c /\ \A k \in 1..n : w[k] = c /\ w[k - 1] = c
  BY <1>4
<1>6. Leads(c, Marks("comment_error", n), c)
  BY <1>2, <1>3, <1>5, LeadsIf
<1> QED BY <1>1, <1>6

\* The last, if what was read is a whole document.
LEMMA EndOfInputDelivers ==
    ASSUME IInv, Nested', EndOfInput
    PROVE  ES!Next
<1>1. status = "running" /\ Nested
  BY DEF EndOfInput, IInv
<1>2. CASE Fail(<<>>)
  BY <1>1, <1>2, FailNow
<1>3. CASE ~Fail(<<>>)
  <2>1. Acceptable /\ status' \in {"accepted", "failed"}
    BY <1>3 DEF EndOfInput
  <2>2. PICK n \in Nat : sent' = Append(Marks("comment_error", n), Mark("stream_end"))
    BY <1>3 DEF EndOfInput, IInv, TypeOK
  <2>3. Place \in BoundaryPlaces /\ struct_nesting_level = 0
    BY <2>1 DEF Acceptable, Place, CommentStates, BoundaryPlaces, KeyStates
  <2>4. ES!Current = ES!View(Stack, "key", Plain) /\ ~InnermostIsArray
    BY <1>1, <2>3, ViewShown DEF Shown, Nested, BoundaryOutsideArrays
  <2>5. Stack = <<>>
    BY <1>1, <2>3, <2>4, TopLevel, EmptyStack
  <2> DEFINE d == ES!View(<<>>, "end", Plain)
  <2>6. Leads(ES!Current, <<Mark("stream_end")>>, d)
    <3>1. ES!Current = ES!View(<<>>, "key", Plain)
      BY <2>4, <2>5
    <3>2. ES!Resting(ES!Current) = ES!Current
      BY <3>1 DEF ES!Resting, ES!View
    <3>3. ES!After(ES!Current, Mark("stream_end"))
            = IF ES!Resting(ES!Current).expect = "key" /\ ES!Resting(ES!Current).open = <<>>
              THEN {ES!View(<<>>, "end", Plain)} ELSE {}
      BY AfterCases
    <3>4. d \in ES!After(ES!Current, Mark("stream_end"))
      BY <3>1, <3>2, <3>3 DEF ES!View
    <3> QED BY <3>4, LeadsByOne
  <2>7. Marks("comment_error", n) \in Seq(AnyEvent) /\ Leads(ES!Current, Marks("comment_error", n), ES!Current)
    BY <1>1, NowListening, CommentErrorsLead
  <2>8. Mark("stream_end") \in AnyEvent
    BY DEF Mark, Event, AnyEvent, EventNames, Types
  <2>9. <<Mark("stream_end")>> \in Seq(AnyEvent)
    BY <2>8
  <2>10. sent' = Marks("comment_error", n) \o <<Mark("stream_end")>>
    BY <2>2, <2>7, <2>9
  <2>11. Leads(ES!Current, sent', d)
    BY <2>6, <2>7, <2>9, <2>10, LeadsOn
  <2>12. CASE status' = "failed"
    BY <1>1, <2>11, <2>12, EndStops
  <2>13. CASE status' = "accepted"
    <3>1. ES!Current' = d
      BY <2>13 DEF ES!Current, ES!View, Expect, ForcedType
    <3> QED BY <1>1, <2>11, <3>1, BatchDelivers
  <2> QED BY <2>1, <2>12, <2>13
<1> QED BY <1>2, <1>3

\* Whatever handler a byte reaches.
LEMMA ByteDelivers ==
    ASSUME Nested, Nested', TokenOver, TokenUnder, NEW b \in Bytes, Byte(b)
    PROVE  ES!Next
<1>1. status = "running"
  BY DEF Byte
<1>2. CASE Dispatch(b)
  <2>1. CASE ResyncSemicolon(b) \/ ResyncResumeIdentifier(b)
    <3>1. next_state \in ResyncStates /\ (Resume("value_outro", "unknown") \/ Resume("identifier", "identifier"))
      BY <2>1 DEF ResyncSemicolon, ResyncResumeIdentifier, ResyncStates
    <3> QED BY <1>1, <3>1, ResumeDelivers
  <2>2. CASE Reject(b) \/ CommentIntro(b) \/ CommentByte(b) \/ CommentOutro(b) \/ FirstCommentOutro(b)
    BY <1>1, <2>2, RejectDelivers, CommentDelivers
  <2>3. CASE \/ Blank(b) \/ ByteOrderMark(b) \/ IdentifierIntro(b) \/ CopyByte(b)
             \/ TypeIntro(b) \/ ScalarIntro(b) \/ StringIntro(b) \/ StringStep(b) \/ ReferenceIndex(b) \/ InlineUnitIntro(b)
             \/ ResyncSkips(b) \/ ResyncOpenBracket(b)
    BY <1>1, <2>3, MoveDelivers
  <2>4. CASE ValueIntro(b) \/ TypeOutro(b) \/ ValueOutro(b) \/ NewArrayValue(b) \/ ArrayOutro(b)
    BY <1>1, <2>4, ValueIntroDelivers, TypeOutroDelivers, ValueOutroDelivers, NewArrayValueDelivers, ArrayOutroDelivers
  <2>5. CASE ArrayIntro(b) \/ ArrayDimSep(b) \/ StructIntro(b) \/ StructOutro(b) \/ OctetStreamIntro(b)
    BY <1>1, <2>5, ArrayIntroDelivers, ArrayDimSepDelivers, StructIntroDelivers, StructOutroDelivers,
       OctetStreamIntroDelivers
  <2>6. CASE ResyncCloseArray(b) \/ ResyncCloseStruct(b)
    BY <1>1, <2>6, ResyncCloseArrayDelivers, ResyncCloseStructDelivers
  <2> QED BY <1>2, <2>1, <2>2, <2>3, <2>4, <2>5, <2>6 DEF Dispatch
<1>3. CASE SkipMalformed(b) \/ MalformedComment(b) \/ MalformedText(b)
  BY <1>1, <1>3, MoveDelivers, CommentDelivers, MalformedTextDelivers
<1> QED BY <1>2, <1>3 DEF Byte

\* Every step of the reader is a step of the event stream.
LEMMA StepDelivers ==
    ASSUME IInv, IInv', TokenOver, TokenUnder, Unbegun, Next
    PROVE  ES!Next
<1>1. Nested /\ Nested'
  BY DEF IInv
<1>2. CASE InputFails
  BY <1>2, FailNow DEF InputFails
<1> QED BY <1>1, <1>2, ByteDelivers, BeginReadDelivers, OctetsDeliver, EndOfInputDelivers DEF Next

\* The reader delivers what a consumer is promised: every batch of events, with
\* and without errors and recovery, is one the grammar of EventStream allows
\* where it is told, nested as the document is and with the type in force.
THEOREM EventsDelivered == Spec => DeliversEventStream
<1> DEFINE DInv == IInv /\ TokenOver /\ TokenUnder /\ Unbegun
<1>1. Init => DInv
  BY InitIInv, TokensStart DEF Init, Unbegun, Place, CommentStates
<1>2. Init => ES!Init
  BY DEF Init, ES!Init, Expect, ForcedType
<1>3. UNCHANGED vars => UNCHANGED ES!vars
  BY StackUnchanged DEF vars, lexing, arrays, ES!vars, Expect, ForcedType, Innermost, Place
<1>4. DInv /\ [Next]_vars => DInv' /\ [ES!Next]_(ES!vars)
  <2>1. CASE UNCHANGED vars
    BY <1>3, <2>1, NextIInv DEF vars, lexing, arrays, TokenOver, TokenUnder, Unbegun, Place
  <2>2. ASSUME DInv, Next PROVE DInv' /\ ES!Next
    <3>1. IInv' /\ Nested /\ Nested'
      BY <2>2, NextIInv DEF IInv
    <3>2. TokenOver'
      BY <2>2, <3>1, StepPays DEF Pays
    <3>3. TokenUnder' /\ Unbegun'
      BY <2>2, <3>1, TokenUnderKept, UnbegunKept
    <3>4. ES!Next
      BY <2>2, <3>1, StepDelivers
    <3> QED BY <3>1, <3>2, <3>3, <3>4
  <2> QED BY <2>1, <2>2
<1> QED BY <1>1, <1>2, <1>4, PTL DEF Spec, DeliversEventStream, ES!Spec
=============================================================================

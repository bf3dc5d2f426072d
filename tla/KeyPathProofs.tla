---------------------------- MODULE KeyPathProofs ----------------------------
(***************************************************************************)
(* What KeyPath promises for every set of keys and every value of the      *)
(* limits, from its inductive invariant IInv.                              *)
(***************************************************************************)
EXTENDS KeyPath, SequenceTheorems, WellFoundedInduction, TLAPS

\* No document is open: nothing is recorded and nothing is lost.
LEMMA InitIInv == Init => IInv
<1> SUFFICES ASSUME Init PROVE IInv
  OBVIOUS
<1> USE PathAssumption DEF Init, bvn_path_reset
<1>1. TypeOK
  <2>1. <<>> \in Seq(Opened) /\ <<>> \in Seq(Components)
    OBVIOUS
  <2> QED
    BY <2>1 DEF TypeOK, Places, KeyOrNone
<1>2. PushesBalance /\ OuterKeysRight /\ KeyInFlight /\ AllRecorded
  BY DEF PushesBalance, OuterKeysRight, KeyInFlight, AllRecorded
<1> QED
  BY <1>1, <1>2 DEF IInv

\* An assignment puts its key in flight, or loses it; no struct changes.
LEMMA AssignmentKeeps == IInv /\ Assignment => IInv'
<1> SUFFICES ASSUME IInv, Assignment PROVE IInv'
  OBVIOUS
<1> USE PathAssumption DEF IInv
<1>1. PICK k \in Keys :
          /\ key' = k
          /\ bvn_path_set_key(k)
          /\ lossless' = (lossless /\ Representable(k))
  BY DEF Assignment
<1>2. at = "boundary" /\ at' \in {"value", "elements"} /\ open' = open
  BY DEF Assignment
<1>3. /\ components' = components
      /\ len' = len
      /\ lost' = lost
      /\ pending' = IF Representable(k) THEN k ELSE NoKey
      /\ pending_lost' = ~Representable(k)
  BY <1>1 DEF bvn_path_set_key
<1>4. TypeOK'
  <2>1. pending' \in KeyOrNone /\ key' \in Keys
    BY <1>1, <1>3 DEF KeyOrNone
  <2>2. pending_lost' \in BOOLEAN /\ lossless' \in BOOLEAN
    BY <1>1, <1>3, Zenon DEF TypeOK, Representable
  <2> QED
    BY <1>2, <1>3, <2>1, <2>2 DEF TypeOK, Places, KeyOrNone
<1>5. PushesBalance'
  BY <1>2, <1>3 DEF PushesBalance
<1>6. OuterKeysRight'
  BY <1>2, <1>3 DEF OuterKeysRight
<1>7. KeyInFlight'
  BY <1>1, <1>3 DEF KeyInFlight
<1>8. AllRecorded'
  BY <1>1, <1>2, <1>3 DEF AllRecorded
<1> QED
  BY <1>4, <1>5, <1>6, <1>7, <1>8

\* A struct that opens is recorded under the key in flight, or lost.
LEMMA StructStartKeeps == IInv /\ StructStart => IInv'
<1> SUFFICES ASSUME IInv, StructStart PROVE IInv'
  OBVIOUS
<1> USE PathAssumption DEF IInv
<1> DEFINE opened == [key |-> key, within |-> at]
<1>1. /\ at \in {"value", "elements"}
      /\ open' = Append(open, opened)
      /\ at' = "boundary"
      /\ key' = key
      /\ lossless' = (lossless /\ ~PushLost)
      /\ bvn_path_push
  BY DEF StructStart
<1>2. opened \in Opened
  BY <1>1 DEF TypeOK, Opened
<1>3. /\ open' \in Seq(Opened)
      /\ Len(open') = Len(open) + 1
      /\ \A i \in 1 .. Len(open) : open'[i] = open[i]
      /\ open'[Len(open) + 1] = opened
  BY <1>1, <1>2 DEF TypeOK
<1> HIDE DEF opened
<1>4. CASE PushLost
  <2>1. /\ components' = components
        /\ len' = len
        /\ pending' = pending
        /\ pending_lost' = TRUE
        /\ lost' = lost + 1
        /\ ~lossless'
    BY <1>1, <1>4 DEF bvn_path_push, LosePush
  <2>2. TypeOK'
    <3>1. lossless' \in BOOLEAN
      BY <2>1, <1>1, <1>4
    <3> QED
      BY <1>1, <1>3, <2>1, <3>1 DEF TypeOK, Places
  <2>3. PushesBalance'
    BY <1>3, <2>1 DEF PushesBalance, TypeOK
  <2>4. OuterKeysRight'
    <3> SUFFICES ASSUME NEW i \in DOMAIN components',
                        \A j \in 1 .. i : open'[j].within = "value"
                 PROVE  components'[i].key = open'[i].key
      BY DEF OuterKeysRight
    <3>1. /\ i \in DOMAIN components
          /\ components'[i] = components[i]
          /\ open'[i] = open[i]
          /\ \A j \in 1 .. i : open'[j] = open[j]
      BY <1>3, <2>1 DEF PushesBalance, TypeOK
    <3> QED
      BY <3>1 DEF OuterKeysRight
  <2>5. KeyInFlight' /\ AllRecorded'
    BY <1>1, <2>1 DEF KeyInFlight, AllRecorded
  <2> QED
    BY <2>2, <2>3, <2>4, <2>5
<1>5. CASE ~PushLost
  <2> DEFINE pushed == [key |-> pending, mark |-> len]
  <2>1. /\ components' = Append(components, pushed)
        /\ len' = len + 1 + Bytes(pending)
        /\ pending' = NoKey
        /\ pending_lost' = FALSE
        /\ lost' = lost
        /\ lossless' = lossless
    <3>1. lossless' = lossless
      BY <1>1, <1>5, Zenon DEF TypeOK
    <3> QED
      BY <1>1, <1>5, <3>1 DEF bvn_path_push, RecordPush
  <2>2. pushed \in Components
    BY DEF TypeOK, Components
  <2>3. /\ components' \in Seq(Components)
        /\ Len(components') = Len(components) + 1
        /\ \A i \in 1 .. Len(components) : components'[i] = components[i]
        /\ components'[Len(components) + 1].key = pending
    BY <2>1, <2>2 DEF TypeOK
  <2> HIDE DEF pushed
  <2>4. lost = 0 /\ pending_lost = FALSE
    BY <1>5 DEF PushLost, TypeOK
  <2>5. Len(components) = Len(open)
    BY <2>4 DEF PushesBalance, TypeOK
  <2>6. TypeOK'
    <3>1. Bytes(pending) \in Nat
      BY DEF Bytes, TypeOK, KeyOrNone
    <3>2. len' \in Nat
      BY <2>1, <3>1 DEF TypeOK
    <3> QED
      BY <1>1, <1>3, <2>1, <2>3, <3>2 DEF TypeOK, Places, KeyOrNone
  <2>7. PushesBalance'
    BY <1>3, <2>1, <2>3, <2>4, <2>5 DEF PushesBalance, TypeOK
  <2>8. open'[Len(open) + 1].key = key /\ open'[Len(open) + 1].within = at
    BY <1>3 DEF opened
  <2>9. OuterKeysRight'
    <3> SUFFICES ASSUME NEW i \in DOMAIN components',
                        \A j \in 1 .. i : open'[j].within = "value"
                 PROVE  components'[i].key = open'[i].key
      BY DEF OuterKeysRight
    <3>1. i \in 1 .. Len(components) \/ i = Len(components) + 1
      BY <2>3 DEF TypeOK
    <3>2. CASE i \in 1 .. Len(components)
      <4>1. \A j \in 1 .. i : open[j].within = "value"
        BY <1>3, <2>5, <3>2 DEF TypeOK
      <4> QED
        BY <1>3, <2>3, <2>5, <3>2, <4>1 DEF OuterKeysRight, TypeOK
    <3>3. CASE i = Len(components) + 1
      <4>1. at = "value"
        BY <2>5, <2>8, <3>3 DEF TypeOK
      <4> QED
        BY <2>3, <2>4, <2>5, <2>8, <3>3, <4>1 DEF KeyInFlight
    <3> QED
      BY <3>1, <3>2, <3>3
  <2>10. KeyInFlight'
    BY <1>1 DEF KeyInFlight
  <2>11. AllRecorded'
    <3> SUFFICES ASSUME lossless,
                        NEW i \in DOMAIN components'
                 PROVE  components'[i].key = open'[i].key
      BY <1>1, <2>1, <2>4 DEF AllRecorded
    <3>1. i \in 1 .. Len(components) \/ i = Len(components) + 1
      BY <2>3 DEF TypeOK
    <3>2. CASE i \in 1 .. Len(components)
      BY <1>3, <2>3, <2>5, <3>2 DEF AllRecorded, TypeOK
    <3>3. CASE i = Len(components) + 1
      BY <1>1, <2>3, <2>5, <2>8, <3>3 DEF AllRecorded
    <3> QED
      BY <3>1, <3>2, <3>3
  <2> QED
    BY <2>6, <2>7, <2>9, <2>10, <2>11
<1> QED
  BY <1>4, <1>5

\* A struct that closes gives back the key it was recorded under.
LEMMA StructEndKeeps == IInv /\ StructEnd => IInv'
<1> SUFFICES ASSUME IInv, StructEnd PROVE IInv'
  OBVIOUS
<1> USE PathAssumption DEF IInv
<1> DEFINE closed == open[Len(open)]
<1>1. /\ open # <<>>
      /\ open' = SubSeq(open, 1, Len(open) - 1)
      /\ key' = closed.key
      /\ at' = IF closed.within = "elements" THEN "elements" ELSE "boundary"
      /\ lossless' = lossless
      /\ bvn_path_pop
  BY DEF StructEnd
<1>2. /\ Len(open) \in Nat \ {0}
      /\ closed \in Opened
      /\ open' \in Seq(Opened)
      /\ Len(open') = Len(open) - 1
      /\ \A i \in 1 .. Len(open') : open'[i] = open[i]
  <2>1. open \in Seq(Opened)
    BY DEF TypeOK
  <2>2. Len(open) \in Nat \ {0}
    BY <1>1, <2>1
  <2>3. closed \in Opened
    BY <2>1, <2>2
  <2>4. open' \in Seq(Opened) /\ Len(open') = Len(open) - 1
    <3> DEFINE front == SubSeq(open, 1, Len(open) - 1)
    <3>1. \A i \in 1 .. Len(open) - 1 : open[i] \in Opened
      BY <2>1, <2>2
    <3>2. Len(open) - 1 \in Int
      BY <2>2
    <3>3. /\ front \in Seq(Opened)
          /\ Len(front) = IF 1 <= Len(open) - 1 THEN (Len(open) - 1) - 1 + 1 ELSE 0
      BY <3>1, <3>2, SubSeqProperties
    <3>4. open' = front
      BY <1>1
    <3> HIDE DEF front
    <3> QED
      BY <2>2, <3>3, <3>4
  <2>5. \A i \in 1 .. Len(open') : open'[i] = open[i]
    BY <1>1, <2>1, <2>2, <2>4
  <2> QED
    BY <2>2, <2>3, <2>4, <2>5
<1>3. key' \in Keys /\ at' \in Places /\ at' # "value"
  BY <1>1, <1>2 DEF Opened, Places
<1>4. KeyInFlight'
  BY <1>3 DEF KeyInFlight
<1>5. CASE lost > 0
  <2>1. /\ components' = components
        /\ len' = len
        /\ pending' = pending
        /\ pending_lost' = pending_lost
        /\ lost' = lost - 1
    BY <1>1, <1>5 DEF bvn_path_pop, ForgetLost
  <2>2. TypeOK'
    BY <1>1, <1>2, <1>3, <1>5, <2>1 DEF TypeOK, KeyOrNone
  <2>3. PushesBalance'
    BY <1>2, <1>5, <2>1 DEF PushesBalance, TypeOK
  <2>4. \A i \in DOMAIN components : i \in 1 .. Len(open')
    BY <1>2, <1>5 DEF PushesBalance, TypeOK
  <2>5. OuterKeysRight'
    <3> SUFFICES ASSUME NEW i \in DOMAIN components',
                        \A j \in 1 .. i : open'[j].within = "value"
                 PROVE  components'[i].key = open'[i].key
      BY DEF OuterKeysRight
    <3>1. /\ i \in DOMAIN components
          /\ components'[i] = components[i]
          /\ open'[i] = open[i]
          /\ \A j \in 1 .. i : open'[j] = open[j]
      BY <1>2, <2>1, <2>4 DEF TypeOK
    <3> QED
      BY <3>1 DEF OuterKeysRight
  <2>6. AllRecorded'
    BY <1>1, <1>5, <2>1 DEF AllRecorded, TypeOK
  <2> QED
    BY <1>4, <2>2, <2>3, <2>5, <2>6
<1>6. CASE ~(lost > 0)
  <2>1. lost = 0 /\ Len(components) = Len(open)
    BY <1>6 DEF PushesBalance, TypeOK
  <2>2. components # <<>>
    BY <1>2, <2>1
  <2>3. /\ components' = SubSeq(components, 1, Len(components) - 1)
        /\ len' = Last.mark
        /\ pending' = Last.key
        /\ pending_lost' = FALSE
        /\ lost' = lost
    BY <1>1, <1>6, <2>2 DEF bvn_path_pop, RestoreKey
  <2>4. /\ Last \in Components
        /\ components' \in Seq(Components)
        /\ Len(components') = Len(open')
        /\ \A i \in 1 .. Len(components') : components'[i] = components[i]
    BY <1>2, <2>1, <2>3 DEF TypeOK, Last
  <2>5. TypeOK'
    BY <1>1, <1>2, <1>3, <2>3, <2>4 DEF TypeOK, Components, KeyOrNone
  <2>6. PushesBalance'
    BY <1>2, <2>1, <2>3, <2>4 DEF PushesBalance
  <2>7. OuterKeysRight'
    <3> SUFFICES ASSUME NEW i \in DOMAIN components',
                        \A j \in 1 .. i : open'[j].within = "value"
                 PROVE  components'[i].key = open'[i].key
      BY DEF OuterKeysRight
    <3>1. /\ i \in DOMAIN components
          /\ components'[i] = components[i]
          /\ open'[i] = open[i]
          /\ \A j \in 1 .. i : open'[j] = open[j]
      BY <1>2, <2>1, <2>4 DEF TypeOK
    <3> QED
      BY <3>1 DEF OuterKeysRight
  <2>8. AllRecorded'
    <3> SUFFICES ASSUME lossless
                 PROVE  /\ \A i \in DOMAIN components' :
                               components'[i].key = open'[i].key
                        /\ pending' = key'
      BY <1>1, <2>1, <2>3 DEF AllRecorded
    <3>1. \A i \in DOMAIN components : components[i].key = open[i].key
      BY DEF AllRecorded
    <3>2. pending' = key'
      BY <1>1, <1>2, <2>1, <2>3, <3>1 DEF Last, TypeOK
    <3> QED
      BY <1>2, <2>1, <2>4, <3>1, <3>2 DEF TypeOK
  <2> QED
    BY <1>4, <2>5, <2>6, <2>7, <2>8
<1> QED
  BY <1>5, <1>6

\* The end of an assignment leaves the path as it is.
LEMMA AssignmentEndKeeps == IInv /\ AssignmentEnd => IInv'
<1> SUFFICES ASSUME IInv, AssignmentEnd PROVE IInv'
  OBVIOUS
<1>1. at' = "boundary" /\ UNCHANGED <<open, key, lossless, path>>
  BY DEF AssignmentEnd
<1>2. TypeOK'
  BY <1>1 DEF IInv, TypeOK, Places, path
<1>3. PushesBalance' /\ OuterKeysRight' /\ KeyInFlight' /\ AllRecorded'
  BY <1>1 DEF IInv, PushesBalance, OuterKeysRight, KeyInFlight, AllRecorded, path
<1> QED
  BY <1>2, <1>3 DEF IInv

\* The invariant holds in every reachable state, for every document.
THEOREM PathInvariance == Spec => []IInv
<1>1. IInv /\ [Next]_vars => IInv'
  <2> SUFFICES ASSUME IInv, [Next]_vars PROVE IInv'
    OBVIOUS
  <2>1. CASE UNCHANGED vars
    BY <2>1 DEF IInv, TypeOK, PushesBalance, OuterKeysRight, KeyInFlight,
                AllRecorded, vars
  <2> QED
    BY <2>1, AssignmentKeeps, StructStartKeeps, StructEndKeeps,
       AssignmentEndKeeps DEF Next
<1> QED
  BY <1>1, InitIInv, PTL DEF Spec

\* The validator's path fields keep their types (bvn_key_path_t).
THEOREM PathTypeCorrect == Spec => []TypeOK
<1>1. IInv => TypeOK
  BY DEF IInv
<1> QED
  BY <1>1, PathInvariance, PTL

\* Outside arrays the path that bvn_path_current reports is the path of the
\* value, whatever was lost before: no rule matches another field's value.
THEOREM PathRightOutsideTables == Spec => []RightOutsideTables
<1>1. IInv => RightOutsideTables
  <2> SUFFICES ASSUME IInv, OutsideTables, Known PROVE Reported = Sits
    BY DEF RightOutsideTables
  <2> USE DEF IInv
  <2>1. Len(components) = Len(open)
    BY DEF Known, PushesBalance, TypeOK
  <2>2. pending = key
    BY DEF Known, OutsideTables, KeyInFlight
  <2>3. DOMAIN components = DOMAIN open
    BY <2>1 DEF TypeOK
  <2>4. \A i \in DOMAIN components : components[i].key = open[i].key
    BY <2>1 DEF OuterKeysRight, OutsideTables, TypeOK
  <2>5. [i \in DOMAIN components |-> components[i].key]
          = [i \in DOMAIN open |-> open[i].key]
    BY <2>3, <2>4
  <2> QED
    BY <2>2, <2>5 DEF Reported, Sits
<1> QED
  BY <1>1, PathInvariance, PTL

\* Where nothing has outrun the limits every value has its path, the elements
\* of an array of structs too (bvn_path_pop).
THEOREM PathRightWhenLossless == Spec => []RightWhenLossless
<1>1. IInv => RightWhenLossless
  <2> SUFFICES ASSUME IInv, lossless, at # "boundary"
               PROVE  Known /\ Reported = Sits
    BY DEF RightWhenLossless
  <2> USE DEF IInv
  <2>1. lost = 0 /\ ~pending_lost /\ pending = key
    BY DEF AllRecorded
  <2>2. Known
    BY <2>1, PathAssumption DEF Known, TypeOK
  <2>3. DOMAIN components = DOMAIN open
    BY <2>1 DEF PushesBalance, TypeOK
  <2>4. [i \in DOMAIN components |-> components[i].key]
          = [i \in DOMAIN open |-> open[i].key]
    BY <2>3 DEF AllRecorded
  <2> QED
    BY <2>1, <2>2, <2>4 DEF Reported, Sits
<1> QED
  BY <1>1, PathInvariance, PTL

-----------------------------------------------------------------------------
(* What the keys of the first structs take.                                *)

\* Every set of numbers that is not empty has a least element.
LEMMA LeastNumber ==
    ASSUME NEW T, T \subseteq Nat, NEW x \in T
    PROVE  \E m \in T : \A k \in T : m <= k
<1> DEFINE R == {p \in Nat \X Nat : p[1] < p[2]}
<1>1. IsWellFoundedOn(R, Nat)
  BY NatLessThanWellFounded DEF OpToRel
<1> HIDE DEF R
<1>2. PICK m \in T : \A k \in T : ~(<<k, m>> \in R)
  BY <1>1, WFMin
<1>3. \A j, k \in Nat : ~(<<k, j>> \in R) => j <= k
  BY DEF R
<1> QED BY <1>2, <1>3

\* The recursive definition has a solution, however many structs are open.
LEMMA PrefixDefined ==
    ASSUME NEW s \in Seq(Opened)
    PROVE  PrefixLengths(s) = [n \in 0 .. Len(s) |->
               IF n = 0 THEN 0 ELSE PrefixLengths(s)[n - 1] + 1 + Length[s[n].key]]
<1> DEFINE Is(f, m) == f = [n \in 0 .. m |-> IF n = 0 THEN 0 ELSE f[n - 1] + 1 + Length[s[n].key]]
           None == {m \in Nat : ~\E f : Is(f, m)}
<1>1. ASSUME NEW x \in None PROVE FALSE
  <2> HIDE DEF Is
  <2>1. PICK m \in None : \A k \in None : m <= k
    BY LeastNumber
  <2>2. m \in Nat /\ ~\E f : Is(f, m)
    OBVIOUS
  <2>3. CASE m = 0
    <3>1. Is([n \in 0 .. 0 |-> 0], 0)
      BY DEF Is
    <3> QED BY <2>2, <2>3, <3>1
  <2>4. CASE m # 0
    <3>1. m - 1 \in Nat /\ ~(m <= m - 1)
      BY <2>2, <2>4
    <3>2. PICK f : Is(f, m - 1)
      BY <2>1, <3>1
    <3> DEFINE g == [n \in 0 .. m |-> IF n = 0 THEN 0 ELSE f[n - 1] + 1 + Length[s[n].key]]
    <3>3. ASSUME NEW n \in 0 .. m, n # 0 PROVE g[n - 1] = f[n - 1]
      <4>1. n - 1 \in 0 .. (m - 1) /\ n - 1 \in 0 .. m
        BY <2>2, <3>3
      <4>2. f[n - 1] = IF n - 1 = 0 THEN 0 ELSE f[n - 1 - 1] + 1 + Length[s[n - 1].key]
        BY <3>2, <4>1 DEF Is
      <4>3. g[n - 1] = IF n - 1 = 0 THEN 0 ELSE f[n - 1 - 1] + 1 + Length[s[n - 1].key]
        BY <4>1
      <4> QED BY <4>2, <4>3
    <3>4. [n \in 0 .. m |-> IF n = 0 THEN 0 ELSE g[n - 1] + 1 + Length[s[n].key]]
            = [n \in 0 .. m |-> IF n = 0 THEN 0 ELSE f[n - 1] + 1 + Length[s[n].key]]
      <4> HIDE DEF g
      <4> QED BY <3>3
    <3>5. Is(g, m)
      BY <3>4 DEF Is
    <3> QED BY <2>2, <3>5
  <2> QED BY <2>3, <2>4
<1>2. Len(s) \in Nat
  OBVIOUS
<1>3. \E f : Is(f, Len(s))
  BY <1>1, <1>2
<1>4. PrefixLengths(s) = CHOOSE f : Is(f, Len(s))
  BY DEF PrefixLengths
<1>5. Is(PrefixLengths(s), Len(s))
  <2> HIDE DEF Is
  <2> QED BY <1>3, <1>4
<1> QED BY <1>5

LEMMA PrefixStep ==
    ASSUME NEW s \in Seq(Opened)
    PROVE  /\ PrefixLengths(s)[0] = 0
           /\ \A n \in 1 .. Len(s) :
                 PrefixLengths(s)[n] = PrefixLengths(s)[n - 1] + 1 + Length[s[n].key]
<1> DEFINE up == PrefixLengths(s)
<1>1. up = [n \in 0 .. Len(s) |-> IF n = 0 THEN 0 ELSE up[n - 1] + 1 + Length[s[n].key]]
  BY PrefixDefined
<1>2. Len(s) \in Nat
  OBVIOUS
<1> HIDE DEF up
<1>3. \A n \in 0 .. Len(s) : up[n] = IF n = 0 THEN 0 ELSE up[n - 1] + 1 + Length[s[n].key]
  BY <1>1
<1>4. 0 \in 0 .. Len(s) /\ \A n \in 1 .. Len(s) : n \in 0 .. Len(s) /\ n # 0
  BY <1>2
<1>5. up[0] = 0 /\ \A n \in 1 .. Len(s) : up[n] = up[n - 1] + 1 + Length[s[n].key]
  BY <1>3, <1>4
<1> QED BY <1>5 DEF up

\* A number, and no less for more structs.
LEMMA PrefixGrows ==
    ASSUME NEW s \in Seq(Opened)
    PROVE  /\ \A n \in 0 .. Len(s) : PrefixLengths(s)[n] \in Nat
           /\ \A n \in 0 .. Len(s) : PrefixLengths(s)[n] <= PrefixLengths(s)[Len(s)]
<1> DEFINE up == PrefixLengths(s)
           Bad == {n \in 0 .. Len(s) : up[n] \notin Nat}
<1>0. Len(s) \in Nat /\ \A n \in 1 .. Len(s) : s[n].key \in Keys /\ Length[s[n].key] \in Nat
  <2>1. Len(s) \in Nat /\ \A n \in 1 .. Len(s) : s[n] \in Opened
    OBVIOUS
  <2>2. \A o \in Opened : o.key \in Keys /\ Length[o.key] \in Nat
    BY PathAssumption DEF Opened
  <2> QED BY <2>1, <2>2
<1>1. up[0] = 0 /\ \A n \in 1 .. Len(s) : up[n] = up[n - 1] + 1 + Length[s[n].key]
  BY PrefixStep
<1> HIDE DEF up
<1>2. ASSUME NEW x \in Bad PROVE FALSE
  <2>1. Bad \subseteq Nat
    OBVIOUS
  <2>2. PICK m \in Bad : \A k \in Bad : m <= k
    BY <2>1, LeastNumber
  <2>3. m \in 0 .. Len(s) /\ up[m] \notin Nat /\ m # 0
    BY <1>1
  <2>4. m \in 1 .. Len(s) /\ m - 1 \in 0 .. Len(s) /\ ~(m <= m - 1)
    BY <1>0, <2>3
  <2>5. up[m - 1] \in Nat
    BY <2>2, <2>4
  <2> QED BY <1>0, <1>1, <2>3, <2>4, <2>5, SMTT(20)
<1>3. \A n \in 0 .. Len(s) : up[n] \in Nat
  BY <1>2
<1> DEFINE Low == {d \in 0 .. Len(s) : ~(up[Len(s) - d] <= up[Len(s)])}
<1>4. ASSUME NEW x \in Low PROVE FALSE
  <2>1. Low \subseteq Nat
    OBVIOUS
  <2>2. PICK m \in Low : \A k \in Low : m <= k
    BY <2>1, LeastNumber
  <2>3. m \in 0 .. Len(s) /\ ~(up[Len(s) - m] <= up[Len(s)])
    OBVIOUS
  <2>4. m # 0
    <3>1. Len(s) - 0 = Len(s) /\ Len(s) \in 0 .. Len(s)
      BY <1>0
    <3>2. up[Len(s)] <= up[Len(s)]
      BY <1>3, <3>1
    <3> QED BY <2>3, <3>1, <3>2
  <2>5. /\ m - 1 \in 0 .. Len(s) /\ ~(m <= m - 1)
        /\ Len(s) - (m - 1) \in 1 .. Len(s) /\ Len(s) - (m - 1) - 1 = Len(s) - m
        /\ Len(s) - m \in 0 .. Len(s) /\ Len(s) - (m - 1) \in 0 .. Len(s) /\ Len(s) \in 0 .. Len(s)
    BY <1>0, <2>3, <2>4
  <2>6. up[Len(s) - (m - 1)] <= up[Len(s)]
    BY <2>2, <2>5
  <2>7. up[Len(s) - (m - 1)] = up[Len(s) - m] + 1 + Length[s[Len(s) - (m - 1)].key]
    BY <1>1, <2>5
  <2>8. \A a, b, c, d \in Nat : a <= b /\ a = c + 1 + d => c <= b
    OBVIOUS
  <2>9. /\ up[Len(s) - (m - 1)] \in Nat /\ up[Len(s)] \in Nat /\ up[Len(s) - m] \in Nat
        /\ Length[s[Len(s) - (m - 1)].key] \in Nat
    BY <1>0, <1>3, <2>5
  <2>10. up[Len(s) - m] <= up[Len(s)]
    BY <2>6, <2>7, <2>8, <2>9, SMTT(20)
  <2> QED BY <2>3, <2>10
<1>5. ASSUME NEW n \in 0 .. Len(s) PROVE up[n] <= up[Len(s)]
  <2>1. Len(s) - n \in 0 .. Len(s) /\ Len(s) - (Len(s) - n) = n
    BY <1>0
  <2> QED BY <1>4, <2>1
<1> QED BY <1>3, <1>5 DEF up

\* It depends on those structs alone.
LEMMA PrefixOnly ==
    ASSUME NEW s \in Seq(Opened), NEW t \in Seq(Opened), NEW l \in Nat,
           l <= Len(s), l <= Len(t), \A i \in 1 .. l : s[i] = t[i]
    PROVE  \A n \in 0 .. l : PrefixLengths(s)[n] = PrefixLengths(t)[n]
<1> DEFINE f == PrefixLengths(s)
           g == PrefixLengths(t)
           Bad == {n \in 0 .. l : f[n] # g[n]}
<1>1. /\ f[0] = 0 /\ \A n \in 1 .. Len(s) : f[n] = f[n - 1] + 1 + Length[s[n].key]
      /\ g[0] = 0 /\ \A n \in 1 .. Len(t) : g[n] = g[n - 1] + 1 + Length[t[n].key]
  BY PrefixStep
<1> HIDE DEF f, g
<1>2. ASSUME NEW x \in Bad PROVE FALSE
  <2>1. Bad \subseteq Nat
    OBVIOUS
  <2>2. PICK m \in Bad : \A k \in Bad : m <= k
    BY <2>1, LeastNumber
  <2>3. m \in 0 .. l /\ f[m] # g[m] /\ m # 0
    BY <1>1
  <2>4. /\ m \in 1 .. l /\ m - 1 \in 0 .. l /\ ~(m <= m - 1)
        /\ m \in 1 .. Len(s) /\ m \in 1 .. Len(t)
    <3>1. Len(s) \in Nat /\ Len(t) \in Nat
      OBVIOUS
    <3> QED BY <2>3, <3>1
  <2>5. f[m - 1] = g[m - 1]
    BY <2>2, <2>4
  <2> QED BY <1>1, <2>3, <2>4, <2>5
<1> QED BY <1>2 DEF f, g

-----------------------------------------------------------------------------
(* Losing a path is not for good.                                          *)

LEMMA LossStarts == Init => LossInv
<1> SUFFICES ASSUME Init PROVE LossInv
  OBVIOUS
<1>1. open = <<>> /\ components = <<>> /\ len = 0 /\ lost = 0 /\ at = "boundary"
  BY DEF Init, bvn_path_reset
<1>2. <<>> \in Seq(Opened) /\ Len(<<>>) = 0
  OBVIOUS
<1>3. PrefixLengths(open)[0] = 0
  BY <1>1, <1>2, PrefixStep
<1> QED BY <1>1, <1>2, <1>3 DEF LossInv, LengthsRight, LossJustified, KeyLost

\* The key is lost exactly when it is too long.
LEMMA AssignmentLoses == IInv /\ LossInv /\ Assignment => LossInv'
<1> SUFFICES ASSUME IInv, LossInv, Assignment PROVE LossInv'
  OBVIOUS
<1>1. PICK k \in Keys : key' = k /\ pending_lost' = ~Representable(k)
  BY DEF Assignment, bvn_path_set_key
<1>2. open' = open /\ components' = components /\ len' = len /\ lost' = lost
  BY DEF Assignment, bvn_path_set_key
<1>3. LengthsRight'
  BY <1>2 DEF LossInv, LengthsRight, Outer
<1>4. LossJustified'
  BY <1>2 DEF LossInv, LossJustified, Outer, Unfit, Representable
<1>5. KeyLost'
  BY <1>1 DEF KeyLost, Representable
<1> QED BY <1>3, <1>4, <1>5 DEF LossInv

LEMMA AssignmentEndLoses == IInv /\ LossInv /\ AssignmentEnd => LossInv'
<1> SUFFICES ASSUME IInv, LossInv, AssignmentEnd PROVE LossInv'
  OBVIOUS
<1>1. at' = "boundary" /\ UNCHANGED <<open, key, components, len, lost, pending_lost>>
  BY DEF AssignmentEnd, path
<1> QED BY <1>1 DEF LossInv, LengthsRight, LossJustified, KeyLost, Outer, Unfit, Representable

\* What opens as the value of an outer key and is lost did not fit.
LEMMA StructStartLoses == IInv /\ LossInv /\ StructStart => LossInv'
<1> SUFFICES ASSUME IInv, LossInv, StructStart PROVE LossInv'
  OBVIOUS
<1> DEFINE opened == [key |-> key, within |-> at]
<1>1. /\ at \in {"value", "elements"}
      /\ open' = Append(open, opened)
      /\ at' = "boundary"
      /\ bvn_path_push
  BY DEF StructStart
<1>0. /\ open \in Seq(Opened) /\ components \in Seq(Components) /\ len \in Nat /\ lost \in Nat
      /\ Len(open) \in Nat /\ Len(components) \in Nat /\ key \in Keys
      /\ Len(components) + lost = Len(open) /\ pending_lost \in BOOLEAN
  BY <1>1 DEF IInv, TypeOK, PushesBalance
<1>2. opened \in Opened
  BY <1>0, <1>1 DEF Opened
<1>3. /\ open' \in Seq(Opened)
      /\ Len(open') = Len(open) + 1
      /\ \A i \in 1 .. Len(open) : open'[i] = open[i]
      /\ open'[Len(open) + 1].key = key /\ open'[Len(open) + 1].within = at
  BY <1>0, <1>1, <1>2
<1> HIDE DEF opened
<1>4. \A n \in 0 .. Len(open) : PrefixLengths(open')[n] = PrefixLengths(open)[n]
  <2>1. Len(open) <= Len(open') /\ Len(open) <= Len(open)
    BY <1>0, <1>3
  <2> QED BY <1>0, <1>3, <2>1, PrefixOnly
<1>5. PrefixLengths(open')[Len(open) + 1] = PrefixLengths(open)[Len(open)] + 1 + Length[key]
  <2>1. Len(open) + 1 \in 1 .. Len(open') /\ Len(open) + 1 - 1 = Len(open) /\ Len(open) \in 0 .. Len(open)
    BY <1>0, <1>3
  <2> QED BY <1>3, <1>4, <2>1, PrefixStep
<1>6. \A n \in 0 .. Len(open) : Outer(open', n) <=> Outer(open, n)
  BY <1>0, <1>3 DEF Outer
<1>7. Outer(open', Len(open) + 1) <=> Outer(open, Len(open)) /\ at = "value"
  <2>1. \A j \in 1 .. Len(open) + 1 : j \in 1 .. Len(open) \/ j = Len(open) + 1
    BY <1>0
  <2>2. 1 .. Len(open) \subseteq 1 .. Len(open) + 1 /\ Len(open) + 1 \in 1 .. Len(open) + 1
    BY <1>0
  <2> QED BY <1>3, <2>1, <2>2 DEF Outer
<1>8. KeyLost'
  BY <1>1 DEF KeyLost
<1>9. CASE PushLost
  <2>1. components' = components /\ len' = len /\ lost' = lost + 1
    BY <1>1, <1>9 DEF bvn_path_push, LosePush
  <2>2. \A i \in DOMAIN components : i - 1 \in 0 .. Len(open)
    BY <1>0
  <2>3. Len(components) \in 0 .. Len(open)
    BY <1>0
  <2>4. LengthsRight'
    BY <1>4, <1>6, <2>1, <2>2, <2>3 DEF LossInv, LengthsRight
  <2>5. LossJustified'
    <3> DEFINE n == Len(components) + 1
    <3> SUFFICES ASSUME Outer(open', n) PROVE Unfit(open', n)
      BY <2>1 DEF LossJustified
    <3>1. CASE lost > 0
      <4>1. n \in 1 .. Len(open) /\ n \in 0 .. Len(open)
        BY <1>0, <3>1
      <4>2. Unfit(open, n)
        BY <1>6, <3>1, <4>1 DEF LossInv, LossJustified
      <4>3. open'[n] = open[n] /\ PrefixLengths(open')[n] = PrefixLengths(open)[n]
        BY <1>3, <1>4, <4>1
      <4> HIDE DEF n
      <4> QED BY <4>2, <4>3 DEF Unfit, Representable
    <3>2. CASE lost = 0
      <4>1. n = Len(open) + 1 /\ Len(components) = Len(open)
        BY <1>0, <3>2
      <4>2. Outer(open, Len(open)) /\ at = "value"
        BY <1>7, <4>1
      <4>3. CASE pending_lost
        <5>1. ~Representable(key)
          BY <3>2, <4>2, <4>3 DEF LossInv, KeyLost
        <5> QED BY <1>3, <4>1, <5>1 DEF Unfit, Representable
      <4>4. CASE Len(components) >= BVN_PATH_MAX_DEPTH
        <5>1. n > BVN_PATH_MAX_DEPTH
          BY <1>0, <4>4, PathAssumption
        <5> QED BY <5>1 DEF Unfit
      <4>5. CASE ~pending_lost /\ len + 1 + Bytes(pending) >= BVN_PATH_MAX_BYTES
        <5>1. pending = key
          BY <4>2, <4>5 DEF IInv, KeyInFlight
        <5>2. Bytes(pending) = Length[key]
          BY <1>0, <5>1, PathAssumption DEF Bytes
        <5>3. len = PrefixLengths(open)[Len(open)]
          BY <4>1, <4>2 DEF LossInv, LengthsRight
        <5>4. PrefixLengths(open')[n] >= BVN_PATH_MAX_BYTES
          BY <1>5, <4>1, <4>5, <5>2, <5>3
        <5> QED BY <5>4 DEF Unfit
      <4> QED BY <1>0, <1>9, <3>2, <4>3, <4>4, <4>5 DEF PushLost
    <3> QED BY <1>0, <3>1, <3>2
  <2> QED BY <1>8, <2>4, <2>5 DEF LossInv
<1>10. CASE ~PushLost
  <2> DEFINE pushed == [key |-> pending, mark |-> len]
  <2>1. components' = Append(components, pushed) /\ len' = len + 1 + Bytes(pending) /\ lost' = lost
    BY <1>1, <1>10 DEF bvn_path_push, RecordPush
  <2>2. lost = 0 /\ ~pending_lost
    BY <1>0, <1>10 DEF PushLost
  <2>3. pushed \in Components
    BY DEF IInv, TypeOK, Components
  <2>4. /\ components' \in Seq(Components)
        /\ Len(components') = Len(components) + 1 /\ Len(components) = Len(open)
        /\ \A i \in 1 .. Len(components) : components'[i] = components[i]
        /\ components'[Len(open) + 1].mark = len
    BY <1>0, <2>1, <2>2, <2>3
  <2> HIDE DEF pushed
  <2>5. ASSUME NEW i \in DOMAIN components', Outer(open', i - 1)
        PROVE  components'[i].mark = PrefixLengths(open')[i - 1]
    <3>1. i - 1 \in 0 .. Len(open) /\ (i \in DOMAIN components \/ i = Len(open) + 1)
      BY <1>0, <2>4
    <3>2. Outer(open, i - 1) /\ PrefixLengths(open')[i - 1] = PrefixLengths(open)[i - 1]
      BY <1>4, <1>6, <2>5, <3>1
    <3>3. CASE i \in DOMAIN components
      <4>1. components'[i] = components[i]
        BY <1>0, <2>4, <3>3
      <4> QED BY <3>2, <3>3, <4>1 DEF LossInv, LengthsRight
    <3>4. CASE i = Len(open) + 1
      <4>1. i - 1 = Len(components)
        BY <1>0, <2>4, <3>4
      <4> QED BY <2>4, <3>2, <3>4, <4>1 DEF LossInv, LengthsRight
    <3> QED BY <3>1, <3>3, <3>4
  <2>6. ASSUME Outer(open', Len(components'))
        PROVE  len' = PrefixLengths(open')[Len(components')]
    <3>1. Outer(open, Len(open)) /\ at = "value"
      BY <1>7, <2>4, <2>6
    <3>2. pending = key
      BY <2>2, <3>1 DEF IInv, KeyInFlight
    <3>3. Bytes(pending) = Length[key]
      BY <1>0, <3>2, PathAssumption DEF Bytes
    <3>4. len = PrefixLengths(open)[Len(open)]
      BY <2>4, <3>1 DEF LossInv, LengthsRight
    <3> QED BY <1>5, <2>1, <2>4, <3>3, <3>4
  <2>7. LengthsRight'
    BY <2>5, <2>6 DEF LengthsRight
  <2>8. LossJustified'
    BY <2>1, <2>2 DEF LossJustified
  <2> QED BY <1>8, <2>7, <2>8 DEF LossInv
<1> QED BY <1>9, <1>10

\* The bytes in use are again those up to the struct that closed.
LEMMA StructEndLoses == IInv /\ LossInv /\ StructEnd => LossInv'
<1> SUFFICES ASSUME IInv, LossInv, StructEnd PROVE LossInv'
  OBVIOUS
<1>1. /\ open # <<>>
      /\ open' = SubSeq(open, 1, Len(open) - 1)
      /\ at' \in {"elements", "boundary"}
      /\ bvn_path_pop
  BY DEF StructEnd
<1>0. /\ open \in Seq(Opened) /\ components \in Seq(Components) /\ len \in Nat /\ lost \in Nat
      /\ Len(open) \in Nat \ {0} /\ Len(components) \in Nat
      /\ Len(components) + lost = Len(open)
  BY <1>1 DEF IInv, TypeOK, PushesBalance
<1>2. open' \in Seq(Opened)
  BY StructEndKeeps DEF IInv, TypeOK
<1>3. Len(open') = Len(open) - 1 /\ \A i \in 1 .. Len(open') : open'[i] = open[i]
  BY <1>0, <1>1
<1>4. \A n \in 0 .. Len(open') : PrefixLengths(open')[n] = PrefixLengths(open)[n]
  <2>1. Len(open') <= Len(open) /\ Len(open') <= Len(open') /\ Len(open') \in Nat
    BY <1>0, <1>3
  <2> QED BY <1>0, <1>2, <1>3, <2>1, PrefixOnly
<1>5. \A n \in 0 .. Len(open') : Outer(open', n) <=> Outer(open, n)
  <2> SUFFICES ASSUME NEW n \in 0 .. Len(open') PROVE Outer(open', n) <=> Outer(open, n)
    OBVIOUS
  <2>1. Len(open') \in Nat
    BY <1>0, <1>3
  <2>2. \A j \in 1 .. n : j \in 1 .. Len(open')
    BY <2>1
  <2>3. \A j \in 1 .. n : open'[j] = open[j]
    BY <1>3, <2>2
  <2> QED BY <2>3 DEF Outer
<1>6. KeyLost'
  BY <1>1 DEF KeyLost
<1>7. CASE lost > 0
  <2>1. components' = components /\ len' = len /\ lost' = lost - 1
    BY <1>1, <1>7 DEF bvn_path_pop, ForgetLost
  <2>2. Len(components) \in 0 .. Len(open') /\ \A i \in DOMAIN components : i - 1 \in 0 .. Len(open')
    BY <1>0, <1>3, <1>7
  <2>3. LengthsRight'
    BY <1>4, <1>5, <2>1, <2>2 DEF LossInv, LengthsRight
  <2>4. LossJustified'
    <3> DEFINE n == Len(components) + 1
    <3> SUFFICES ASSUME lost - 1 > 0, Outer(open', n) PROVE Unfit(open', n)
      BY <2>1 DEF LossJustified
    <3>1. n \in 0 .. Len(open') /\ n \in 1 .. Len(open')
      BY <1>0, <1>3
    <3>2. Unfit(open, n)
      BY <1>5, <1>7, <3>1 DEF LossInv, LossJustified
    <3>3. open'[n] = open[n] /\ PrefixLengths(open')[n] = PrefixLengths(open)[n]
      BY <1>3, <1>4, <3>1
    <3> HIDE DEF n
    <3> QED BY <3>2, <3>3 DEF Unfit, Representable
  <2> QED BY <1>6, <2>3, <2>4 DEF LossInv
<1>8. CASE lost = 0
  <2>1. Len(components) = Len(open) /\ components # <<>>
    BY <1>0, <1>8
  <2>2. components' = SubSeq(components, 1, Len(components) - 1) /\ len' = components[Len(components)].mark /\ lost' = lost
    BY <1>1, <1>8, <2>1 DEF bvn_path_pop, RestoreKey, Last
  <2>3. Len(components') = Len(open') /\ \A i \in 1 .. Len(components') : components'[i] = components[i]
    BY <1>0, <1>3, <2>1, <2>2
  <2>4. /\ DOMAIN components' = 1 .. Len(open')
        /\ \A i \in 1 .. Len(open') : i \in DOMAIN components /\ i - 1 \in 0 .. Len(open')
        /\ Len(open') \in 0 .. Len(open') /\ Len(components) - 1 = Len(open') /\ Len(components) \in DOMAIN components
    BY <1>0, <1>3, <2>1, <2>2
  <2>5. \A i \in DOMAIN components' : Outer(open', i - 1) => components'[i].mark = PrefixLengths(open')[i - 1]
    BY <1>4, <1>5, <2>3, <2>4 DEF LossInv, LengthsRight
  <2>6. Outer(open', Len(open')) => len' = PrefixLengths(open')[Len(open')]
    BY <1>4, <1>5, <2>2, <2>4 DEF LossInv, LengthsRight
  <2>7. LengthsRight'
    BY <2>3, <2>5, <2>6 DEF LengthsRight
  <2> QED BY <1>6, <1>8, <2>2, <2>7 DEF LossInv, LossJustified
<1> QED BY <1>0, <1>7, <1>8

\* A push is lost only for what does not fit, so outside arrays a value whose
\* path fits is never refused for an unknown path (bvn_path_current), also
\* after deeper structs have closed.
THEOREM PathComesBack == Spec => []KnownWhereItFits
<1>1. IInv /\ LossInv /\ [Next]_vars => LossInv'
  <2> SUFFICES ASSUME IInv, LossInv, [Next]_vars PROVE LossInv'
    OBVIOUS
  <2>1. CASE UNCHANGED vars
    BY <2>1 DEF LossInv, LengthsRight, LossJustified, KeyLost, Outer, Unfit, Representable, vars
  <2> QED
    BY <2>1, AssignmentLoses, StructStartLoses, StructEndLoses, AssignmentEndLoses DEF Next
<1>2. IInv /\ LossInv => KnownWhereItFits
  <2> SUFFICES ASSUME IInv, LossInv, OutsideTables, Fits PROVE Known
    BY DEF KnownWhereItFits
  <2>1. /\ open \in Seq(Opened) /\ Len(components) \in Nat /\ lost \in Nat /\ Len(open) \in Nat
        /\ Len(components) + lost = Len(open) /\ key \in Keys /\ at = "value"
        /\ \A n \in 1 .. Len(open) : open[n].within = "value"
    BY DEF IInv, TypeOK, PushesBalance, OutsideTables
  <2>2. lost = 0
    <3> SUFFICES ASSUME lost > 0 PROVE FALSE
      BY <2>1
    <3> DEFINE n == Len(components) + 1
    <3>1. n \in 1 .. Len(open) /\ n \in 0 .. Len(open) /\ 1 .. n \subseteq 1 .. Len(open) /\ n <= Len(open)
      BY <2>1
    <3>2. Outer(open, n)
      BY <2>1, <3>1 DEF Outer
    <3>3. Unfit(open, n)
      BY <3>2 DEF LossInv, LossJustified
    <3>4. PrefixLengths(open)[n] \in Nat /\ PrefixLengths(open)[Len(open)] \in Nat
          /\ PrefixLengths(open)[n] <= PrefixLengths(open)[Len(open)]
      <4>1. Len(open) \in 0 .. Len(open)
        BY <2>1
      <4> QED BY <2>1, <3>1, <4>1, PrefixGrows
    <3> HIDE DEF n
    <3>5. ~(PrefixLengths(open)[n] >= BVN_PATH_MAX_BYTES)
      BY <3>4, PathAssumption DEF Fits
    <3>6. ~(n > BVN_PATH_MAX_DEPTH) /\ Representable(open[n].key)
      BY <2>1, <3>1, PathAssumption DEF Fits
    <3> QED BY <3>3, <3>5, <3>6 DEF Unfit
  <2>3. ~pending_lost
    BY <2>1, <2>2 DEF LossInv, KeyLost, Fits
  <2>4. pending = key
    BY <2>1, <2>3 DEF IInv, KeyInFlight
  <2> QED BY <2>1, <2>2, <2>3, <2>4, PathAssumption DEF Known
<1> QED
  BY <1>1, <1>2, LossStarts, PathInvariance, PTL DEF Spec
=============================================================================

------------------------------- MODULE KeyPath -------------------------------
(***************************************************************************)
(* The key path of the validator (bvn_key_path_t): where the value being   *)
(* read sits, which is what a per-field unit rule is matched against.      *)
(*                                                                         *)
(* The document is the environment: it opens and closes structs, supplies  *)
(* keys and puts structs and values in arrays.  `open', `key' and `at'     *)
(* are the document's own position, which the code does not keep; the      *)
(* other variables are the fields of bvn_key_path_t and change only as its *)
(* four operations change them.  A path is kept as a sequence of keys; the *)
(* bytes it takes are counted, because a limit is on them.                 *)
(*                                                                         *)
(* The reader calls set_key for each assignment it delivers and push and   *)
(* pop for each struct event, and only while the policy has rules.         *)
(***************************************************************************)
EXTENDS Integers, Sequences

CONSTANTS
    Keys,               \* the keys a document may use
    Length,             \* the length of a key in bytes
    BVN_PATH_MAX_DEPTH, \* structs whose keys the path can hold
    BVN_PATH_MAX_BYTES, \* bytes the path can hold
    BVN_PATH_MAX_KEY,   \* bytes the key in flight can hold
    NoKey,              \* the pending key of length 0
    MaxOpen             \* bound: structs open at once

ASSUME PathAssumption ==
    /\ Length \in [Keys -> Nat \ {0}]
    /\ BVN_PATH_MAX_DEPTH \in Nat
    /\ BVN_PATH_MAX_BYTES \in Nat
    /\ BVN_PATH_MAX_KEY \in Nat
    /\ NoKey \notin Keys
    /\ MaxOpen \in Nat

VARIABLES
    \* The document's position.
    open,         \* the open structs, outermost first: each one's key, and
                  \* whether it is a value of its own or an array element
    key,          \* the key of the assignment being read
    at,           \* "boundary", "value" or "elements"
    lossless,     \* history: every key and every struct so far was recorded
    \* bvn_key_path_t.
    components,   \* buf and mark: each key pushed and the length below it
    len,          \* the bytes of buf in use
    lost,         \* the pushes that were not recorded
    pending,      \* the key in flight
    pending_lost  \* the key in flight is unknown

document == <<open, key, at, lossless>>
path == <<components, len, lost, pending, pending_lost>>
vars == <<open, key, at, lossless, components, len, lost, pending, pending_lost>>

KeyOrNone == Keys \cup {NoKey}
Bytes(k) == IF k = NoKey THEN 0 ELSE Length[k]

-----------------------------------------------------------------------------
(***************************************************************************)
(* The operations of bvn_key_path_t.                                       *)
(***************************************************************************)

bvn_path_reset ==
    /\ components = <<>>
    /\ len = 0
    /\ lost = 0
    /\ pending = NoKey
    /\ pending_lost = FALSE

\* A key too long for a component leaves the position unknown, not empty.
Representable(k) == Length[k] <= BVN_PATH_MAX_KEY

bvn_path_set_key(k) ==
    /\ pending' = IF Representable(k) THEN k ELSE NoKey
    /\ pending_lost' = ~Representable(k)
    /\ UNCHANGED <<components, len, lost>>

\* Mutant: a struct that would fit is recorded inside one that was lost.
PushLost_if_unfit ==
    \/ pending_lost
    \/ Len(components) >= BVN_PATH_MAX_DEPTH
    \/ len + 1 + Bytes(pending) >= BVN_PATH_MAX_BYTES
\* Mutant: the last component is never used.
PushLost_early ==
    \/ lost > 0
    \/ pending_lost
    \/ Len(components) + 1 >= BVN_PATH_MAX_DEPTH
    \/ len + 1 + Bytes(pending) >= BVN_PATH_MAX_BYTES

\* Once a push is lost every deeper one is too.
PushLost ==
    \/ lost > 0
    \/ pending_lost
    \/ Len(components) >= BVN_PATH_MAX_DEPTH
    \/ len + 1 + Bytes(pending) >= BVN_PATH_MAX_BYTES

LosePush ==
    /\ pending_lost' = TRUE
    /\ lost' = lost + 1
    /\ UNCHANGED <<components, len, pending>>

RecordPush ==
    /\ components' = Append(components, [key |-> pending, mark |-> len])
    /\ len' = len + 1 + Bytes(pending)
    /\ pending' = NoKey
    /\ pending_lost' = FALSE
    /\ UNCHANGED lost

bvn_path_push == IF PushLost THEN LosePush ELSE RecordPush

Last == components[Len(components)]

\* Mutant: the last key seen inside the struct stays in flight.
RestoreKey_not ==
    /\ components' = SubSeq(components, 1, Len(components) - 1)
    /\ len' = Last.mark
    /\ UNCHANGED <<lost, pending, pending_lost>>

\* The key of the struct that closes is in flight again: it is the key of
\* the next element of the array the struct was in.
RestoreKey ==
    /\ components' = SubSeq(components, 1, Len(components) - 1)
    /\ len' = Last.mark
    /\ pending' = Last.key
    /\ pending_lost' = FALSE
    /\ UNCHANGED lost

ForgetLost ==
    /\ lost' = lost - 1
    /\ UNCHANGED <<components, len, pending, pending_lost>>

NothingOpen ==
    /\ len' = 0
    /\ UNCHANGED <<components, lost, pending, pending_lost>>

\* Mutant: the test for lost pushes is off by one.
bvn_path_pop_off_by_one ==
    IF lost >= 0 THEN ForgetLost
    ELSE IF components = <<>> THEN NothingOpen
    ELSE RestoreKey

bvn_path_pop ==
    IF lost > 0 THEN ForgetLost
    ELSE IF components = <<>> THEN NothingOpen
    ELSE RestoreKey

\* bvn_path_current: the position is reported only when this holds.
Known ==
    /\ lost = 0
    /\ ~pending_lost
    /\ pending # NoKey

\* The path bvn_path_current writes.
Reported == Append([i \in DOMAIN components |-> components[i].key], pending)

-----------------------------------------------------------------------------
(***************************************************************************)
(* The document.  A key comes at a boundary, a struct or a number where a  *)
(* value is awaited, a `}' at a boundary inside a struct.                  *)
(***************************************************************************)

Init ==
    /\ open = <<>>
    /\ key = NoKey
    /\ at = "boundary"
    /\ lossless = TRUE
    /\ bvn_path_reset

\* An assignment begins: its value is a single one or an array.
Assignment ==
    /\ at = "boundary"
    /\ \E k \in Keys :
         /\ key' = k
         /\ bvn_path_set_key(k)
         /\ lossless' = (lossless /\ Representable(k))
    /\ at' \in {"value", "elements"}
    /\ UNCHANGED open

StructStart ==
    /\ at \in {"value", "elements"}
    /\ Len(open) < MaxOpen
    /\ open' = Append(open, [key |-> key, within |-> at])
    /\ at' = "boundary"
    /\ lossless' = (lossless /\ ~PushLost)
    /\ bvn_path_push
    /\ UNCHANGED key

\* A struct that was an element leaves its array open.
StructEnd ==
    /\ at = "boundary"
    /\ open # <<>>
    /\ LET closed == open[Len(open)] IN
         /\ key' = closed.key
         /\ at' = IF closed.within = "elements" THEN "elements" ELSE "boundary"
    /\ open' = SubSeq(open, 1, Len(open) - 1)
    /\ bvn_path_pop
    /\ UNCHANGED lossless

\* The assignment ends: with its single value, at the `]' that closes its
\* array, or because recovery abandons it.
AssignmentEnd ==
    /\ at \in {"value", "elements"}
    /\ at' = "boundary"
    /\ UNCHANGED <<open, key, lossless, path>>

Next == Assignment \/ StructStart \/ StructEnd \/ AssignmentEnd

Spec == Init /\ [][Next]_vars

-----------------------------------------------------------------------------
(***************************************************************************)
(* Properties.                                                             *)
(***************************************************************************)

Places == {"boundary", "value", "elements"}
Opened == [key : Keys, within : {"value", "elements"}]
Components == [key : KeyOrNone, mark : Nat]

\* Every variable has its type, and a value is awaited only under a key.
TypeOK ==
    /\ open \in Seq(Opened)
    /\ key \in KeyOrNone
    /\ at \in Places
    /\ at # "boundary" => key \in Keys
    /\ lossless \in BOOLEAN
    /\ components \in Seq(Components)
    /\ len \in Nat
    /\ lost \in Nat
    /\ pending \in KeyOrNone
    /\ pending_lost \in BOOLEAN

\* Where a value that arrives now really sits.
Sits == Append([i \in DOMAIN open |-> open[i].key], key)

\* A value is awaited, and it is in no array, nor is any struct around it.
OutsideTables ==
    /\ at = "value"
    /\ \A i \in DOMAIN open : open[i].within = "value"

\* What the keys of the first n structs of s take of buf, each with its dot.
PrefixLengths(s) ==
    LET upTo[n \in 0 .. Len(s)] == IF n = 0 THEN 0 ELSE upTo[n - 1] + 1 + Length[s[n].key]
    IN  upTo

\* The path of a value fits the limits of bvn_key_path_t.
Fits ==
    /\ Len(open) <= BVN_PATH_MAX_DEPTH
    /\ \A i \in DOMAIN open : Representable(open[i].key)
    /\ PrefixLengths(open)[Len(open)] < BVN_PATH_MAX_BYTES
    /\ Representable(key)

\* Outside arrays, a path that is reported is the path of the value, however
\* deep the document went before and whatever keys it used: a rule never
\* matches a value of another field.
RightOutsideTables == OutsideTables /\ Known => Reported = Sits

\* While every key and struct so far could be recorded, the path of every
\* value is known and right: also for the elements of an array of structs,
\* which share one key that arrives once (bvn_path_pop restores it).
RightWhenLossless == lossless /\ at # "boundary" => Known /\ Reported = Sits

\* Losing a path is not for good: outside arrays, a value whose path fits is
\* never refused for an unknown path, also after deeper structs have closed.
KnownWhereItFits == OutsideTables /\ Fits => Known

\* What the comment on bvn_key_path_t says, that the path can never be
\* silently wrong: a path that is reported is the path of the value.
NeverSilentlyWrong == at # "boundary" /\ Known => Reported = Sits

-----------------------------------------------------------------------------
(***************************************************************************)
(* The inductive invariant.  Pushes balance; the components are the keys   *)
(* of the outermost structs as long as none of these was an array element; *)
(* the key in flight is the one of the assignment.                         *)
(***************************************************************************)

PushesBalance == Len(components) + lost = Len(open)

OuterKeysRight ==
    \A i \in DOMAIN components :
        (\A j \in 1 .. i : open[j].within = "value")
            => components[i].key = open[i].key

KeyInFlight == at = "value" /\ ~pending_lost => pending = key

AllRecorded ==
    lossless =>
        /\ lost = 0
        /\ \A i \in DOMAIN components : components[i].key = open[i].key
        /\ at # "boundary" => ~pending_lost /\ pending = key

IInv ==
    /\ TypeOK
    /\ PushesBalance
    /\ OuterKeysRight
    /\ KeyInFlight
    /\ AllRecorded

(***************************************************************************)
(* What a loss is for.  As long as no struct was an array element, the     *)
(* bytes in use are those the keys take; the first struct whose push was   *)
(* lost does not fit; and a key is lost only for its own length.           *)
(***************************************************************************)

Outer(s, n) == \A j \in 1 .. n : s[j].within = "value"

LengthsRight ==
    /\ \A i \in DOMAIN components :
          Outer(open, i - 1) => components[i].mark = PrefixLengths(open)[i - 1]
    /\ Outer(open, Len(components)) => len = PrefixLengths(open)[Len(components)]

Unfit(s, n) ==
    \/ n > BVN_PATH_MAX_DEPTH
    \/ ~Representable(s[n].key)
    \/ PrefixLengths(s)[n] >= BVN_PATH_MAX_BYTES

LossJustified ==
    lost > 0 /\ Outer(open, Len(components) + 1) => Unfit(open, Len(components) + 1)

KeyLost == at = "value" /\ lost = 0 /\ pending_lost => ~Representable(key)

LossInv == LengthsRight /\ LossJustified /\ KeyLost

=============================================================================

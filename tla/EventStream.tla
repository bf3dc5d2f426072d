---------------------------- MODULE EventStream ----------------------------
(***************************************************************************)
(* What a consumer of bovnar is promised about the events it is called     *)
(* back with, stated without any of the reader's machinery: the stream     *)
(* starts once, start and end events nest, a key is followed by one value, *)
(* a "/" by another row, and every value carries the type in force where   *)
(* it stands -- its own annotation's, else that of the innermost open      *)
(* array.  A statement may be abandoned (on_error under recovery), but     *)
(* even then what was opened is closed in order.                           *)
(***************************************************************************)
EXTENDS Integers, Sequences, SequencesExt

CONSTANTS
    ValueTypes,   \* the annotated types, e.g. <uint:8>
    Plain         \* BVN_TYPE_PLAIN: no annotation in force

VARIABLES
    open,         \* what is still open, outermost first: an array's type, or Struct
    expect,       \* what the consumer may be told next
    force,        \* the type in force for the next value
    sent          \* the events the last step delivered, in order

vars == <<open, expect, force, sent>>

Struct == "struct"

Event(ev, t) == [ev |-> ev, type |-> t]
Mark(ev)     == Event(ev, Plain)

-----------------------------------------------------------------------------
\* A consumer's view of the stream, and what one more event makes of it.
View(o, e, f) == [open |-> o, expect |-> e, force |-> f]

InArray(c)  == c.open # <<>> /\ Last(c.open) # Struct
InStruct(c) == c.open # <<>> /\ Last(c.open) = Struct

\* After a whole value: in an array its next element, which has the array's
\* type; elsewhere a key.
Settled(c) ==
    IF InArray(c) THEN View(c.open, "item", Last(c.open))
                  ELSE View(c.open, "key", Plain)

WantsValue(c) == c.expect \in {"value", "item"}

\* After a row the consumer may be told "/", or whatever follows a value.
Resting(c) == IF c.expect = "row_done" THEN Settled(c) ELSE c

Opened(c, what, expects, t) == View(Append(c.open, what), expects, t)
Closed(c)                   == View(Front(c.open), c.expect, c.force)

(* The views e can leave behind: none when e is not allowed here.          *)
After(c, e) ==
    LET r == Resting(c) IN
    CASE e.ev = "stream_start"     -> IF c.expect = "start" THEN {View(<<>>, "key", Plain)} ELSE {}
      [] e.ev = "assignment_start" -> IF r.expect = "key" THEN {View(r.open, "value", Plain)} ELSE {}
      [] e.ev = "annotation"       -> IF WantsValue(r) THEN {View(r.open, r.expect, e.type)} ELSE {}
      [] e.ev = "data"             -> IF WantsValue(r) /\ e.type = r.force THEN {Settled(r)} ELSE {}
      [] e.ev = "struct_start"     -> IF WantsValue(r) /\ r.force = Plain
                                      THEN {Opened(r, Struct, "key", Plain)} ELSE {}
      [] e.ev = "struct_end"       -> IF r.expect = "key" /\ InStruct(r) THEN {Settled(Closed(r))} ELSE {}
      [] e.ev = "row_start"        -> IF (WantsValue(r) \/ c.expect = "row") /\ e.type = r.force
                                      THEN {Opened(r, r.force, "item", r.force)} ELSE {}
      [] e.ev = "row_end"          -> IF r.expect = "item"
                                      THEN {View(Front(r.open), "row_done", Last(r.open))} ELSE {}
      [] e.ev = "dim_start"        -> IF c.expect = "row_done" THEN {View(c.open, "row", c.force)} ELSE {}
      [] e.ev = "octets_start"     -> IF WantsValue(r) THEN {View(r.open, "octets", r.force)} ELSE {}
      [] e.ev = "octets"           -> IF c.expect = "octets" THEN {c} ELSE {}
      [] e.ev = "octets_end"       -> IF c.expect = "octets" THEN {Settled(c)} ELSE {}
      [] e.ev = "stream_end"       -> IF r.expect = "key" /\ r.open = <<>>
                                      THEN {View(<<>>, "end", Plain)} ELSE {}
      \* on_error: the statement under way is abandoned
      [] e.ev = "error"            -> IF c.expect \in {"start", "end", "stopped"} THEN {} ELSE {Settled(c)}
      \* on_error in a comment: nothing is
      [] e.ev = "comment_error"    -> IF c.expect \in {"start", "end", "stopped"} THEN {} ELSE {c}
      [] OTHER                     -> {}

Current == View(open, expect, force)

\* The views the first k of a batch of events, delivered in order, can leave
\* behind, and those the whole of it can.
Heard(evs) ==
    LET upTo[k \in 0..Len(evs)] == IF k = 0 THEN {Current} ELSE UNION {After(c, evs[k]) : c \in upTo[k - 1]}
    IN  upTo
Delivered(evs) == Heard(evs)[Len(evs)]

-----------------------------------------------------------------------------
Init == open = <<>> /\ expect = "start" /\ force = Plain /\ sent = <<>>

\* A step delivers a legal batch; the comma after a row is not an event.
Deliver ==
    \E c \in Delivered(sent') :
        \E d \in {c, Resting(c)} :
            <<open, expect, force>>' = <<d.open, d.expect, d.force>>

\* The read ends early: an error that is not recovered from, or a consumer
\* that answered "stop".  Nothing follows.
Stop ==
    /\ expect \notin {"end", "stopped"}
    /\ Delivered(sent') # {}
    /\ expect' = "stopped" /\ open' = <<>> /\ force' = Plain

\* One event at a time, and an end without one: the form a consumer is driven by.
Say(e) ==
    /\ expect \notin {"end", "stopped"}
    /\ sent' = <<e>>
    /\ \E c \in After(Current, e) :
          \E d \in {c, Resting(c)} :
              open' = d.open /\ expect' = d.expect /\ force' = d.force

Break ==
    /\ expect \notin {"end", "stopped"}
    /\ sent' = <<>>
    /\ expect' = "stopped" /\ open' = <<>> /\ force' = Plain

Next == expect \notin {"end", "stopped"} /\ (Deliver \/ Stop)

Spec == Init /\ [][Next]_vars
=============================================================================

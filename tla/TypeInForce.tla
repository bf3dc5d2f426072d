----------------------------- MODULE TypeInForce -----------------------------
(***************************************************************************)
(* The type, the unit and the unit's spelling that travel from an          *)
(* annotation to the values it is about: the validator's fields, the       *)
(* frames in which an array keeps those of what is around it, and the      *)
(* serial number that says whether there is a unit to put back.  A         *)
(* document is a sequence of tokens; widths, bases and digits are not      *)
(* told apart.                                                             *)
(***************************************************************************)
EXTENDS Integers, Sequences, SequencesExt, FiniteSets, FiniteSetsExt

Tok(t)             == [tok |-> t]     \* key ; , / [ ] { } and broken
Ann(type, unit)    == [tok |-> "annotation", type |-> type, unit |-> unit]
Val(form, inline)  == [tok |-> "value", form |-> form, inline |-> inline]

\* uint and byte, float, float_dec ("money"), utf8, bool, and two epochs
Numeric   == {"uint", "byte", "float", "money"}
Datetimes == {"datetime", "tai"}
Iso       == {"instant", "fraction"}     \* a timestamp, without and with a fraction
Strings   == {"quoted", "text"}          \* a string, a number or not
Numbers   == {"integer", "decimal"} \cup Iso

\* What a spelling spells; two of them spell one unit.
Denoted(u) == CASE u \in {"", "no_unit"} -> "none" [] u = "sm" -> "ms" [] OTHER -> u
Currencies == {"EUR"}

Reading == [value_type |-> "plain", parsed_unit |-> "none", unit_src |-> "", parsed_unit_serial |-> 0,
            inferred |-> "plain", has_unit |-> FALSE, frames |-> <<>>, structs |-> 0,
            told |-> <<>>, refused |-> FALSE]

-----------------------------------------------------------------------------
Refuse(v) == [v EXCEPT !.refused = TRUE]

\* An event with the type in force, the unit, and a real unit's spelling.
Tell(v, ev, what) ==
    [v EXCEPT !.told = Append(@, [ev |-> ev, what |-> what, type |-> v.value_type, unit |-> v.parsed_unit,
                                  src |-> IF v.parsed_unit = "none" THEN "" ELSE v.unit_src])]
Mention(v, ev) == [v EXCEPT !.told = Append(@, [ev |-> ev])]

InUnit(v, spelling) ==
    [v EXCEPT !.parsed_unit = Denoted(spelling),
              !.unit_src = IF Denoted(spelling) = "none" THEN @ ELSE spelling]

\* At both ends of an assignment.
ValueBoundary(v) ==
    [v EXCEPT !.value_type = "plain", !.parsed_unit = "none", !.inferred = "plain", !.has_unit = FALSE]

\* Mutant: the serial moves only when there is a unit to speak of.
ReceiveTypeUnitSerial(v, t) ==
    LET typed == [InUnit(v, t.unit) EXCEPT
                     !.value_type = t.type, !.inferred = t.type, !.has_unit = @ \/ t.unit # "",
                     !.parsed_unit_serial = IF Denoted(t.unit) = "none" THEN @ ELSE @ + 1]
    IN IF t.unit # "" /\ t.type \notin Numeric THEN Refuse(v) ELSE Tell(typed, "annotation", t.unit)

ReceiveType(v, t) ==
    LET typed == [InUnit(v, t.unit) EXCEPT !.value_type = t.type, !.inferred = t.type,
                                           !.parsed_unit_serial = @ + 1, !.has_unit = @ \/ t.unit # ""]
    IN IF t.unit # "" /\ t.type \notin Numeric THEN Refuse(v) ELSE Tell(typed, "annotation", t.unit)

\* The type of a bare value.
DefaultType(v, d) ==
    CASE d.form \in Strings -> "utf8"
      [] d.form \in Iso     -> "datetime"
      [] d.form = "true"    -> "bool"
      [] d.form = "integer" /\ v.inferred \in Datetimes -> v.inferred
      [] d.inline \in Currencies -> "money"
      [] d.form = "decimal" -> "float"
      [] OTHER -> "uint"

\* Told as an annotation, with the unit written after a number folded in,
\* unless the value before it had this type already.
EmitDefaultType(v, d) ==
    LET t      == DefaultType(v, d)
        folded == IF t \in Numeric /\ d.form \in Numbers THEN d.inline ELSE ""
        text   == IF folded # "" THEN folded ELSE IF t \in Numeric THEN "no_unit" ELSE ""
    IN IF v.inferred = t THEN [v EXCEPT !.value_type = t, !.parsed_unit = "none"]
       ELSE Tell([InUnit(v, folded) EXCEPT !.value_type = t, !.inferred = t], "annotation", text)

Compatible(type, form) ==
    CASE type = "plain" \/ form = "null" -> TRUE
      [] type = "utf8" -> form \in Strings
      [] type = "bool" -> form = "true"
      [] type \in Datetimes -> form \in {"integer"} \cup Iso
      [] OTHER -> form \in {"integer", "quoted"} \cup (IF type \in {"float", "money"} THEN {"decimal"} ELSE {})

\* A unit after the value agrees with the annotation's, whose spelling stands,
\* or is the value's own.
InlineUnit(v, d) ==
    CASE d.inline = "" -> v
      [] v.value_type \in Datetimes \/ (v.has_unit /\ v.parsed_unit # Denoted(d.inline)) -> Refuse(v)
      [] OTHER -> [(IF v.has_unit THEN v ELSE InUnit(v, d.inline)) EXCEPT
                         !.parsed_unit_serial = IF Denoted(d.inline) = "none" THEN @ ELSE @ + 1]

Receive(v, d) ==
    LET bare  == v.value_type = "plain" /\ d.form \notin {"null", "symbol"}
        typed == IF bare THEN EmitDefaultType(v, d) ELSE v
        done  == InlineUnit(typed, d)
        form  == IF d.form = "instant" THEN "integer" ELSE d.form
    IN IF (d.form \in Iso /\ d.inline # "") \/ ~Compatible(typed.value_type, d.form) \/ done.refused
       THEN Refuse(v) ELSE Tell(done, "data", form)

-----------------------------------------------------------------------------
ArrayIntro(v) ==
    LET f == [type |-> v.value_type, unit |-> v.parsed_unit, src |-> v.unit_src,
              serial |-> v.parsed_unit_serial, at |-> v.structs]
    IN Tell([v EXCEPT !.frames = Append(@, f), !.has_unit = FALSE], "array_row_start", "")

\* What was in force where the innermost array opened.
PutBack(v) ==
    LET f == Last(v.frames) IN
    IF v.parsed_unit_serial = f.serial THEN [v EXCEPT !.value_type = f.type]
    ELSE [v EXCEPT !.value_type = f.type, !.parsed_unit = f.unit, !.unit_src = f.src,
                   !.parsed_unit_serial = f.serial]

NewArrayValue(v) == [PutBack(v) EXCEPT !.has_unit = FALSE]

ArrayOutro(v) == [PutBack(Mention(v, "array_row_end")) EXCEPT !.frames = Front(@)]

StructIntro(v) ==
    IF v.value_type # "plain" THEN Refuse(v)
    ELSE Tell([v EXCEPT !.structs = @ + 1], "struct_start", "")

StructOutro(v) == Mention([v EXCEPT !.structs = @ - 1], "struct_end")

\* A value that is refused, and recovery up to the ';': the arrays of the
\* statement are closed, and what they had kept is put back, then reset.
Recover(v) ==
    LET own  == {i \in DOMAIN v.frames : v.frames[i].at = v.structs}
        kept == IF own = {} THEN [src |-> v.unit_src, serial |-> v.parsed_unit_serial] ELSE v.frames[Min(own)]
    IN [v EXCEPT !.value_type = "plain", !.parsed_unit = "none", !.has_unit = FALSE,
                 !.unit_src = kept.src, !.parsed_unit_serial = kept.serial + 2,
                 !.frames = SubSeq(@, 1, Len(@) - Cardinality(own)),
                 !.told = @ \o [i \in 1..Cardinality(own) |-> [ev |-> "array_row_end"]]]

Take(v, t) ==
    IF v.refused THEN v
    ELSE CASE t.tok = "key"        -> Mention(ValueBoundary(v), "assignment_start")
           [] t.tok = ";"          -> ValueBoundary(v)
           [] t.tok = "annotation" -> ReceiveType(v, t)
           [] t.tok = "value"      -> Receive(v, t)
           [] t.tok = "["          -> ArrayIntro(v)
           [] t.tok = "]"          -> ArrayOutro(v)
           [] t.tok = ","          -> NewArrayValue(v)
           [] t.tok = "/"          -> Mention(v, "array_dim_start")
           [] t.tok = "{"          -> StructIntro(v)
           [] t.tok = "}"          -> StructOutro(v)
           [] t.tok = "broken"     -> Recover(v)

ReadTokens(doc) == FoldLeft(Take, Reading, doc)
=============================================================================

------------------------------- MODULE TypeLaws -------------------------------
(***************************************************************************)
(* What the types and units told are checked against: the document itself, *)
(* each value looked up in what is written around it.                      *)
(***************************************************************************)
EXTENDS Canonical

Tokens(doc, kinds) == {i \in DOMAIN doc : doc[i].tok \in kinds}

\* The brackets open before each token, innermost last.  A broken value takes
\* the arrays of its statement with it.
Around(doc) ==
    LET open[i \in 1..(Len(doc) + 1)] ==
            IF i = 1 THEN <<>>
            ELSE LET o == open[i - 1]  t == doc[i - 1].tok
                 IN CASE t \in {"[", "{"} -> Append(o, i - 1)
                      [] t \in {"]", "}"} -> Front(o)
                      [] t = "broken"     ->
                            SubSeq(o, 1, Max({0} \cup {k \in DOMAIN o : doc[o[k]].tok = "{"}))
                      [] OTHER            -> o
    IN open

\* The annotation a token is under: its own, that of the row a '/' continues,
\* or that of the array it is in.  0 when there is none.
Governing(doc) ==
    LET open == Around(doc)
        under[i \in 1..Len(doc)] ==
            IF i = 1 THEN 0
            ELSE CASE doc[i - 1].tok = "annotation" -> i - 1
                   [] doc[i - 1].tok = "/" -> under[Last(open[i - 2])]
                   [] open[i] # <<>> /\ doc[Last(open[i])].tok = "[" -> under[Last(open[i])]
                   [] OTHER -> 0
    IN under

OfForm(d) ==
    CASE d.form \in Strings -> "utf8" [] d.form \in Iso -> "datetime" [] d.form = "true" -> "bool"
      [] d.inline \in Currencies -> "money" [] d.form = "decimal" -> "float"
      [] d.form = "integer" -> "uint" [] OTHER -> "plain"

\* A bare value has the type of what it looks like; an integer after a
\* timestamp is one too, as far as the timestamp is remembered.
TypesUpTo(doc, forgotten) ==
    LET under == Governing(doc)
        bare(i) == doc[i].tok = "value" /\ under[i] = 0
        since(i) == Max({0} \cup {k \in Tokens(doc, forgotten) : k < i})
        typed(i) == {k \in since(i) + 1 .. i - 1 :
                        doc[k].tok = "annotation" \/ (bare(k) /\ OfForm(doc[k]) # "plain")}
        type[i \in Tokens(doc, {"value", "annotation"})] ==
            CASE doc[i].tok = "annotation" -> doc[i].type
              [] under[i] # 0 -> doc[under[i]].type
              [] OTHER ->
                    IF doc[i].form = "integer" /\ typed(i) # {} /\ type[Max(typed(i))] \in Datetimes
                    THEN type[Max(typed(i))] ELSE OfForm(doc[i])
    IN type

\* It is forgotten with its assignment, which an error may end.
Types(doc) == TypesUpTo(doc, {"key", ";", "broken"})

\* A value whose type comes out of a statement that was abandoned.
OutlivesError(doc) == Types(doc) # TypesUpTo(doc, {"key", ";"})

\* The unit spelled for a value: by the annotation, else after it.
Spelled(doc, i) ==
    LET a == Governing(doc)[i]
    IN IF a # 0 /\ Denoted(doc[a].unit) # "none" THEN doc[a].unit ELSE doc[i].inline

Fits(doc) ==
    LET type == Types(doc)  under == Governing(doc) IN
    /\ \A i \in Tokens(doc, {"annotation"}) : doc[i].unit = "" \/ doc[i].type \in Numeric
    /\ \A i \in Tokens(doc, {"{"}) : under[i] = 0
    /\ \A i \in Tokens(doc, {"value"}) :
          /\ Compatible(type[i], doc[i].form)
          /\ doc[i].inline # "" =>
                /\ type[i] \notin Datetimes
                /\ under[i] # 0 /\ doc[under[i]].unit # "" =>
                      Denoted(doc[under[i]].unit) = Denoted(doc[i].inline)

Expected(doc) ==
    LET at == SetToSortSeq(Tokens(doc, {"value"}), <)
    IN [k \in DOMAIN at |->
           LET i == at[k]  unit == Spelled(doc, i)  f == doc[i].form
           IN [ev |-> "data", what |-> IF f = "instant" THEN "integer" ELSE f, type |-> Types(doc)[i],
               unit |-> Denoted(unit), src |-> IF Denoted(unit) = "none" THEN "" ELSE unit]]

\* Every value is told with the type and unit written for it, or the document
\* is refused.
ToldAsWritten(doc) ==
    LET v == ReadTokens(doc)
    IN /\ v.refused = ~Fits(doc)
       /\ ~v.refused => SelectSeq(v.told, LAMBDA e : e.ev = "data") = Expected(doc)

-----------------------------------------------------------------------------
\* What may come after what in a text.
Follows ==
    [key |-> {"annotation", "value", "[", "{"}, annotation |-> {"value", "["}, value |-> {",", "]", ";"}]
    @@ (";" :> {"key", "}"}) @@ ("," :> {"annotation", "value", "[", "{"}) @@ ("/" :> {"["})
    @@ ("[" :> {"annotation", "value", "[", "{", "]"}) @@ ("]" :> {",", "]", "/", ";"})
    @@ ("{" :> {"key", "}"}) @@ ("}" :> {",", "]", ";"})

WellFormed(text) ==
    /\ text[1].tok = "key" /\ Last(text).tok = ";"
    /\ \A i \in 1..Len(text) - 1 : text[i + 1].tok \in Follows[text[i].tok]

\* What the observer writes is a document, says the same, and is canonical.
CanonReadsBack(doc) ==
    LET told == ReadTokens(doc).told
        s    == Canon(told)
        back == ReadTokens(s.out)
    IN ~ReadTokens(doc).refused /\ Tokens(doc, {"broken"}) = {} =>
          /\ ~s.failed /\ WellFormed(s.out)
          /\ ~back.refused /\ back.told = told
          /\ Canon(back.told).out = s.out
=============================================================================

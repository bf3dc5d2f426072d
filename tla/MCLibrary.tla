------------------------------ MODULE MCLibrary ------------------------------
(* Inputs around the places where something changes.                       *)
EXTENDS Library

MCMjdMin == -100000
DaysOf(from, to) == FieldsToMjd(Ymd(from, 1, 1))..FieldsToMjd(Ymd(to, 12, 31))
MCIsoYears == 1960..2017

MCDays == UNION {DaysOf(y - 1, y + 1) : y \in {1600, 1700, 1900, 2000, 2024, 2100}}
MCYears == 1601..2129
MCMonths == {1933, 1954, 1985, 1989, 1990, 2000, 2023, 2024} \X (1..12)
MCClockDays == UNION {DaysOf(y, y) : y \in {1970, 1980, 1981, 1995, 1996, 2010}}
MCLeaps == UNION {LeapTable[i][1] + LeapTable[i][2] - 3 .. LeapTable[i][1] + LeapTable[i][2] + 2 :
                      i \in DOMAIN LeapTable} \cup {0, 441763000, 2000000000}
MCSeconds ==
    {Unix, Tai, Gps, Y2000} \X
        (UNION {s - 3 .. s + 3 : s \in {0, 86400, -86400, 43200, 951782400, IntMax - 86400, -1000000000}}
         \cup (IntMax - 3 .. IntMax) \cup (IntMin + 1 .. IntMin + 5) \cup {IntMin + 64448, IntMin + 64449})
MCWeeks == {0, 1, 1023, 1043} \X {0, 499, 500, 86399999, 604799499, 604799999}
MCLiterals ==
    {[year |-> y, month |-> md[1], day |-> md[2], hour |-> t[1], minute |-> t[2], second |-> t[3],
      frac |-> f, zone |-> z] :
        y \in {1960, 1971, 1972, 1990, 2016, 2017},
        md \in {<<1, 1>>, <<2, 29>>, <<6, 30>>, <<7, 1>>, <<12, 31>>, <<4, 31>>, <<13, 1>>},
        t \in {<<0, 0, 0>>, <<0, 59, 60>>, <<23, 59, 59>>, <<23, 59, 60>>, <<24, 0, 0>>},
        f \in BOOLEAN, z \in {0, 60, -90, 1439, -1440}}
    \X {Unix, Tai, Y2000, Gps}

-----------------------------------------------------------------------------
MCPairs == (-20..20) \X (-20..20)
           \cup {63, 64, 65, 240, 255, -252, 191, 1000} \X {1, 3, 4, 15, 16, 17, 35, 48, 63, -16, -31, 0}
           \cup (128..255) \X {13, 16, 19, 31, 32, 33, 47, 55}

TextsOver(chars, n) == UNION {[1..k -> chars] : k \in 1..n}
Wired(widths) == {Type(f, w, b) : f \in {"uint", "sint"}, w \in widths, b \in {0, 2, 16}}

\* 0 1 7 8 9 - + . e: texts of a decimal or binary type
MCTexts ==
    (Wired({0, 3, 8, 10}) \cup {Type("datetime", 4, 1)})
    \X TextsOver({48, 49, 53, 56, 45}, 3) \X BOOLEAN
    \cup {Type(f, w, b) : f \in {"uint", "sint"}, w \in {0, 8}, b \in {0, 12, 16}}
    \X TextsOver({49, 43, 46, 45, 101}, 3) \X BOOLEAN
    \cup {Type(f, w, 0) : f \in {"uint", "sint"}, w \in {4, 6, 7, 10}}
    \X {<<48, 48, 54, 52>>, <<45, 54, 52>>, <<54, 52>>, <<45, 54, 53>>, <<54, 51>>, <<49, 48, 50, 52>>,
        <<49, 48, 50, 51>>, <<45, 53, 49, 50>>, <<45, 53, 49, 51>>, <<49, 50, 55>>, <<49, 50, 56>>,
        <<48, 48, 48, 49, 48, 50, 51>>, <<57, 57, 57, 57, 57, 57>>} \X BOOLEAN
    \cup {Type(f, w, b) : f \in {"uint", "sint"}, w \in {0, 8, 16}, b \in {10, 16, 36, 62}}
    \X TextsOver({48, 102, 70, 122, 90, 120, 45}, 3) \X BOOLEAN
    \cup {Type(f, w, b) : f \in {"uint", "sint"}, w \in {0, 3, 30}, b \in {10, 16, 36, 62}}
    \X Special \X BOOLEAN    \* any type of more than 64 bits holds what they spell
    \cup {Type("uint", w, b) : w \in {0, 3, 8, 12}, b \in {64, 85}}
    \X TextsOver({65, 48, 43, 45, 47, 33}, 2) \X BOOLEAN

MCFigures == (-40..70) \X {2, 10, 16, 36, 37, 62, 64, 85} \X {0, 3}
MCWidenings == {Type(f, w, 0) : f \in {"uint", "sint"}, w \in {0, 3, 8, 12}} \X
               ((-20..20) \cup {-129, -128, 127, 128, 255, 256, -32768, 2047, 2048, 4095, 4096})
-----------------------------------------------------------------------------
\* A narrow shape and a wide one; the decimal format of the first may need a
\* bit more than its coefficient has, the second's layout is not standard.
Standard == [eb |-> 5, cb |-> 3, bias |-> 11, digs |-> 1]
InHouse  == [eb |-> 3, cb |-> 4, bias |-> 1, digs |-> 1]
Two      == [eb |-> 5, cb |-> 8, bias |-> 12, digs |-> 2]
Narrow3  == [p |-> 3, bin |-> [eb |-> 3, mb |-> 2, bias |-> 3], dec |-> Standard, total |-> 6, frac |-> 2]
Wide5    == [p |-> 5, bin |-> [eb |-> 4, mb |-> 3, bias |-> 7], dec |-> InHouse, total |-> 8, frac |-> 7]
MCShapes == {Narrow3, Wide5, [Narrow3 EXCEPT !.p = 8, !.dec = Two, !.total = 7, !.frac = 0]}

Runs(digits, n) == UNION {[1..k -> digits] : k \in 0..n}
MCFloatTexts ==
    {Literal(neg, w, f, e, 10) : neg \in BOOLEAN, w \in Runs({0, 1, 5}, 1), f \in Runs({0, 4, 5, 9}, 3),
                                 e \in {-11, -7, -4, -2, -1, 0, 1, 4, 8}} \X MCShapes
    \cup
    {Literal(FALSE, w, f, e, 10) :
        w \in {<<1, 2, 8>>, <<3, 1, 5>>, <<1, 2, 7>>, <<1, 0, 0, 0, 0, 0, 0, 0, 0>>, <<8, 8>>, <<2, 8>>, <<6, 2, 5>>},
        f \in {<<>>, <<5>>, <<0, 0, 0, 0, 0, 0, 0, 1>>, <<4, 9, 9, 9, 9, 9, 9, 9>>, <<7, 5>>, <<0, 6, 2, 5>>},
        e \in {-40, -6, -3, -1, 0, 1, 3, 40}} \X MCShapes
    \cup
    {Literal(neg, w, f, e, 16) : neg \in BOOLEAN, w \in Runs({0, 1, 15}, 1), f \in Runs({0, 1, 8, 15}, 3),
                                 e \in {-30, -9, -3, 0, 2, 10, 40}} \X MCShapes
    \cup
    {Literal(neg, <<>>, [i \in 1..n |-> IF i <= z THEN 0 ELSE 3], 0, 10) :
        neg \in BOOLEAN, n \in 5..10, z \in {0, 1, 2, 5}} \X MCShapes
MCFloatValues ==
    {Num(neg, m, e) : neg \in BOOLEAN, m \in 4..7, e \in -14..20} \X {Narrow3}
    \cup {Num(FALSE, m, e) : m \in 16..31, e \in -14..20} \X {Wide5}
    \cup ({Plain(k, n) : k \in {"zero", "inf"}, n \in BOOLEAN} \cup {NaN}) \X MCShapes
-----------------------------------------------------------------------------
\* A beginning, up to a few bytes where it matters, an end.  The bytes: tab,
\* line ends, a control, quote, "#", ";", "=", "@", "a", backslash, two
\* letters of two bytes and one of three, C2 and FF.
Limits(text, file, continue) ==
    [string |-> 3, name |-> 2, symbol |-> 3, text |-> text, file |-> file, continue |-> continue]
Unlimited == Limits(0, 0, TRUE)
UpTo(chars, n) == UNION {[1..k -> chars] : k \in 0..n}
AnyByte   == {1, 9, 10, 13, 34, 35, 46, 59, 61, 64, 92, 97, 169, 194, 195, 226, 255}
KeyPart   == <<46, 107>>             \* .k
ValuePart == <<46, 107, 61>>         \* .k=
Quoted    == <<46, 107, 61, 34>>     \* .k="
Skipped   == <<46, 107, 61, 64>>     \* .k=@
Rest      == <<59, 46, 98, 61, 99, 59>>    \* ;.b=c;
Closed    == <<34>> \o Rest
DocumentsOf(starts, middles, ends, limits) == {<<a \o m \o z, l>> : a \in starts, m \in middles, z \in ends, l \in limits}
MCDocuments ==
    DocumentsOf({<<>>, <<35>>, Skipped}, UpTo(AnyByte, 2), {Rest}, {Unlimited})
    \cup DocumentsOf({KeyPart, ValuePart, ValuePart \o <<97>>}, UpTo(AnyByte \ {46}, 2), {Rest}, {Unlimited})
    \cup DocumentsOf({Quoted, Quoted \o <<97>>, Skipped \o <<34>>}, UpTo(AnyByte \ {46}, 2), {Closed}, {Unlimited})
    \cup DocumentsOf({<<>>, <<46>>, KeyPart, ValuePart, Quoted, Quoted \o <<97>>, <<35>>, Skipped, Skipped \o <<46>>},
                 [1..3 -> {34, 97, 130, 172, 226}], {Rest}, {Unlimited})
    \cup DocumentsOf({<<>>, ValuePart, Quoted, <<35>>, Skipped}, UpTo({10, 34, 59, 97, 130, 226}, 2), {<<>>}, {Unlimited})
    \cup DocumentsOf({ValuePart \o <<0>>}, UpTo({0, 1, 2, 59}, 4), {Rest}, {Limits(0, f, TRUE) : f \in {0, 13, 15}})
    \cup DocumentsOf({<<>>, Quoted, <<35, 97>>}, UpTo({9, 97, 130, 226}, 3), {Rest},
                 {Limits(t, f, b) : t \in {0, 9, 10, 12, 14}, f \in {0, 11, 13}, b \in BOOLEAN})
-----------------------------------------------------------------------------
\* Documents as tokens: one value, or an array of up to three elements.
Mark(t)       == <<Typing!Tok(t)>>
Typed(t, u)   == <<Typing!Ann(t, u)>>
Bare(form)    == <<Typing!Val(form, "")>>
InUnits(f, u) == <<Typing!Val(f, u)>>
Row(a, x)     == a \o Mark("[") \o x \o Mark("]")
After(x, y)   == x \o Mark(",") \o y
Field(x, end) == Mark("{") \o Mark("key") \o x \o Mark(end) \o Mark("}")
Assigned(x)   == Mark("key") \o x \o Mark(";")

Timed == Typed("float", "s") \o Bare("decimal")
Unitless == Typed("float", "") \o Bare("decimal")
Moment == Typed("tai", "") \o Bare("integer")

TypesSaid == {<<>>, Typed("uint", "s"), Typed("byte", ""), Typed("utf8", ""), Typed("bool", ""),
              Typed("tai", ""), Typed("tai", "s"), Typed("money", "EUR")}
             \cup {Typed("float", u) : u \in {"", "ms", "sm", "no_unit"}}
Alone == {a \o InUnits(f, u) : a \in TypesSaid, u \in {"", "ms", "sm", "EUR", "no_unit"},
              f \in {"integer", "decimal", "instant", "fraction", "quoted", "text"}}
         \cup {a \o Bare(f) : a \in TypesSaid, f \in {"null", "true", "symbol"}}

Elements ==
    {Bare(f) : f \in {"decimal", "integer", "null", "instant", "true", "text"}} \cup {Timed, Unitless, Moment}
    \cup {Row(<<>>, <<>>), Row(<<>>, Bare("decimal")), Row(Typed("float", ""), Bare("decimal")),
          Row(<<>>, After(Timed, Bare("decimal"))),
          Row(Typed("float", "s"), Bare("decimal")) \o Mark("/") \o Row(<<>>, Unitless),
          Row(<<>>, After(Row(Typed("float", "s"), After(Unitless, Bare("decimal"))), Bare("decimal")))}
    \cup {Mark("{") \o Mark("}")}
    \cup {Field(x, ";") : x \in {Bare("integer"), Moment, Row(Typed("float", "s"), Bare("decimal")), InUnits("decimal", "ms")}}
    \cup {Field(x, "broken") : x \in {<<>>, Typed("tai", ""), Typed("float", "s"), Row(<<>>, <<>>),
                                      Mark("[") \o After(Timed, <<>>)}}
Arrays ==
    {Row(a, x) : a \in {<<>>, Typed("float", ""), Typed("float", "ms"), Typed("tai", "")},
        x \in {<<>>} \cup Elements \cup {After(y, z) : y \in Elements, z \in Elements}
            \cup {After(After(y, z), Bare(f)) : y \in Elements, z \in Elements, f \in {"decimal", "integer"}}}
MCTypedDocuments ==
    {Assigned(x) : x \in Alone \cup Arrays}
    \cup {Assigned(x) \o Assigned(InUnits(f, "ms")) : x \in Alone, f \in {"integer", "decimal"}}
    \cup {Mark("key") \o x \o Mark("broken") \o Assigned(Bare("integer")) :
              x \in {<<>>, Typed("tai", ""), Typed("float", "s")}}
=============================================================================

----------------------------- MODULE IntegerText -----------------------------
(***************************************************************************)
(* Integers as text: what the reader takes under a type, what the writer   *)
(* lets out, what a program's helpers parse and format, and what a DOM     *)
(* node holds and gives back.  A text is a sequence of character codes, a  *)
(* type [family, width, base]; a quoted text came as a string token.       *)
(***************************************************************************)
EXTENDS BigInt

Minus == 45
Plus  == 43
Dot   == 46
Exponents == {69, 101}      \* E and e
Hexponents == {80, 112}     \* P and p

Type(family, width, base) == [family |-> family, width |-> width, base |-> base]
EffWidth(vt) == IF vt.width = 0 THEN WordBits ELSE vt.width
EffBase(vt)  == IF vt.family = "datetime" \/ vt.base = 0 THEN 10 ELSE vt.base

\* bvn_char_to_digit; base itself where the character is no digit.
CharToDigit(c, base) ==
    LET among(lo, hi, first) == IF c \in lo..hi THEN c - lo + first ELSE base
        d == Min({among(48, 57, 0), among(97, 122, 10),
                  among(65, 90, IF base > 36 THEN 36 ELSE 10)})
    IN CASE base = 64 -> Min({among(65, 90, 0), among(97, 122, 26), among(48, 57, 52),
                              among(43, 43, 62), among(47, 47, 63)})
         [] base = 85 -> among(33, 117, 0)
         [] OTHER -> d

DigitToChar(d, base) ==
    CASE base = 64 -> IF d < 26 THEN 65 + d ELSE IF d < 52 THEN 71 + d
                      ELSE IF d < 62 THEN d - 4 ELSE IF d = 62 THEN 43 ELSE 47
      [] base = 85 -> 33 + d
      [] OTHER -> IF d < 10 THEN 48 + d ELSE IF d < 36 THEN 87 + d ELSE 29 + d

IsDigit(c, base) == CharToDigit(c, base) < base
AllDigits(s, base) == s # <<>> /\ \A i \in DOMAIN s : IsDigit(s[i], base)

\* Bases 64 and 85 spell digits with + and -, and have no sign.
HasSigns(base) == base \notin {64, 85}
Negative(s, base) == HasSigns(base) /\ s # <<>> /\ s[1] = Minus
Unsigned(s, base) == IF Negative(s, base) THEN Tail(s) ELSE s

\* bvn_is_special_number_string: nan, inf, ninf
Special == {<<110, 97, 110>>, <<105, 110, 102>>, <<110, 105, 110, 102>>}

\* bvn_validate_digits_for_base
DigitsForBase(s, base) == AllDigits(Unsigned(s, base), base)

\* Mantissa and exponent: a dot at most, digits, and after one of the marks
\* a sign and decimal digits.
Before(s, marks) == SelectInSeq(s, LAMBDA c : c \in marks)
Scientific(s, base, marks) ==
    LET k    == Before(s, marks)
        mant == IF k = 0 THEN s ELSE SubSeq(s, 1, k - 1)
        e    == SubSeq(s, k + 1, Len(s))
        exp  == IF e # <<>> /\ e[1] \in {Plus, Minus} THEN Tail(e) ELSE e
    IN /\ AllDigits(SelectSeq(mant, LAMBDA c : c # Dot), base)
       /\ Cardinality({i \in DOMAIN mant : mant[i] = Dot}) <= 1
       /\ k # 0 => AllDigits(exp, 10)

\* bvn_validate_number_in_base and, of the decimal tokens of the scanner,
\* bvn_validate_number.
Marks(base) == (IF base <= 14 THEN Exponents ELSE {})
               \cup (IF base \in {2, 4, 8, 16} THEN Hexponents ELSE {})
NumberInBase(s, base) ==
    IF ~HasSigns(base) THEN DigitsForBase(s, base)
    ELSE Scientific(IF s # <<>> /\ s[1] \in {Plus, Minus} THEN Tail(s) ELSE s, base, Marks(base))
ValidateNumber(s) == Scientific(Unsigned(s, 10), 10, Exponents)

-----------------------------------------------------------------------------
\* bvn_acc_digit: one more digit of a 64-bit value, unless it leaves 64 bits.
Overflow == -1
AccDigit(acc, d, base) ==
    IF acc = Overflow \/ acc > (Word - 1 - d) \div base THEN Overflow ELSE acc * base + d
Accumulate(s, base) == FoldLeft(LAMBDA a, c : AccDigit(a, CharToDigit(c, base), base), 0, s)

\* bvn_acc_parse_number: a string is digits, a number may have a dot and an
\* exponent, and only the digits in front of them are added up.
AccParse(vt, s, quoted) ==
    LET base == EffBase(vt)
        body == Unsigned(s, base)
        k    == IF quoted \/ base > 14 THEN 0 ELSE Before(body, Exponents)
        mant == IF k = 0 THEN body ELSE SubSeq(body, 1, k - 1)
        d    == IF quoted THEN 0 ELSE Before(mant, {Dot})
        whole == IF d = 0 THEN mant ELSE SubSeq(mant, 1, d - 1)
        ok   == AllDigits(SelectSeq(mant, LAMBDA c : quoted \/ c # Dot), base) \/ mant = <<>>
        acc(error) == [error |-> error, v |-> Accumulate(whole, base), dot |-> d # 0, exp |-> k # 0]
        none == [error |-> "none", v |-> 0, dot |-> FALSE, exp |-> FALSE]
    IN CASE vt.family = "uint" /\ Negative(s, base) -> [none EXCEPT !.error = "out_of_range"]
         [] quoted /\ vt.family \notin {"uint", "sint"} -> none
         [] ~quoted /\ s \in Special -> none
         [] OTHER -> IF ok THEN acc("none") ELSE [none EXCEPT !.error = "not_a_digit"]

-----------------------------------------------------------------------------
\* Wider than 64 bits the bound is compared digit by digit, in decimal.
Pow2m1Dec(n) ==
    LET doubled == FoldLeft(LAMBDA ds, i : MulAddDigits(10, ds, 2, 0), <<1>>, [i \in 1..n |-> i])
        k == Min({i \in DOMAIN doubled : doubled[i] # 0})
    IN Reverse(Trim([i \in DOMAIN doubled |->
                        IF i < k THEN 9 ELSE IF i = k THEN doubled[i] - 1 ELSE doubled[i]]))

Stripped(ds) ==
    LET lead == {i \in DOMAIN ds : i < Len(ds) /\ \A j \in 1..i : ds[j] = 0}
    IN SubSeq(ds, Cardinality(lead) + 1, Len(ds))

\* bvn_cmp_dec, as whether a is at most b
AtMostDec(a, b) ==
    LET x == Stripped(a)  y == Stripped(b)
        differ == {i \in DOMAIN x : x[i] # y[i]}
    IN IF Len(x) # Len(y) THEN Len(x) < Len(y)
       ELSE differ = {} \/ x[Min(differ)] < y[Min(differ)]

DigitsToDec(s, base) ==
    Reverse(FoldLeft(LAMBDA ds, c : MulAddDigits(10, ds, base, CharToDigit(c, base)), <<0>>, s))

DecDigits2Pow(w) == IF w = 0 THEN 1 ELSE (w * 30103) \div 100000 + 1

\* bvn_dec_digit_prefilter: by the count of digits alone, where that is enough.
Prefilter(ds, most) ==
    LET n == Len(Stripped(ds))
    IN IF n + 1 < most THEN "fits" ELSE IF n > most + 1 THEN "not" ELSE "compare"

DecIncrement(ds) == Reverse(MulAddDigits(10, Reverse(ds), 1, 1))

\* The decimal digits ds against a bound, with the prefilter of w bits.
WithinDec(ds, w, bound) ==
    LET p == Prefilter(ds, DecDigits2Pow(w))
    IN p = "fits" \/ (p = "compare" /\ AtMostDec(ds, bound))

DecimalDigits(s, base) ==
    IF base = 10 THEN [i \in DOMAIN s |-> s[i] - 48] ELSE DigitsToDec(s, base)

\* strtoll and strtoull: a sign, in base 16 a 0x, digits; what is left over
\* ends the number, and a sign in front of an unsigned one wraps it.
Strto(s, base) ==
    LET signed == s # <<>> /\ s[1] \in {Plus, Minus}
        t == IF signed THEN Tail(s) ELSE s
        p == IF base = 16 /\ Len(t) > 2 /\ t[1] = 48 /\ t[2] \in {88, 120} /\ IsDigit(t[3], 16)
             THEN SubSeq(t, 3, Len(t)) ELSE t
    IN [whole |-> AllDigits(p, base) \/ s = <<>>, neg |-> signed /\ s[1] = Minus,
        mag |-> Accumulate(SelectSeq(p, LAMBDA c : IsDigit(c, base)), base)]
Strtoull(s, base) ==
    LET r == Strto(s, base)
    IN IF ~r.whole \/ r.mag = Overflow THEN No ELSE Yes(IF r.neg THEN (-r.mag) % Word ELSE r.mag)
Strtoll(s, base) ==
    LET r == Strto(s, base)
    IN IF ~r.whole \/ r.mag = Overflow \/ r.mag > (IF r.neg THEN -I64Min ELSE I64Max) THEN No
       ELSE Yes(IF r.neg THEN -r.mag ELSE r.mag)

\* bvn_validate_uint_range
UintRange(s, w, base) ==
    LET p == IF HasSigns(base) /\ s # <<>> /\ s[1] = Plus THEN Tail(s) ELSE s
    IN CASE w = 0 \/ s \in Special -> TRUE
         [] Negative(s, base) -> FALSE
         [] w <= WordBits /\ base = 10 ->
                LET v == Strtoull(p, 10) IN v.ok /\ v.v <= 2^w - 1
         [] w <= WordBits ->
                /\ \A i \in DOMAIN p : IsDigit(p[i], base)
                /\ Accumulate(p, base) \in 0..(2^w - 1)
         [] OTHER ->
                /\ base # 10 => \A i \in DOMAIN p : IsDigit(p[i], base)
                /\ WithinDec(DecimalDigits(p, base), w, Pow2m1Dec(w))

\* bvn_validate_sint_range: one more below zero than above.
SintRange(s, w, base) ==
    LET neg == s # <<>> /\ s[1] = Minus
        abs == IF s # <<>> /\ s[1] \in {Plus, Minus} THEN Tail(s) ELSE s
    IN CASE w = 0 \/ s \in Special -> TRUE
         [] w <= WordBits /\ base = 10 ->
                LET v == Strtoll(s, 10) IN v.ok /\ WithinI(v.v, w)
         [] w <= WordBits ->
                /\ \A i \in DOMAIN abs : IsDigit(abs[i], base)
                /\ Accumulate(abs, base) \in 0..(2^(w - 1) - (IF neg THEN 0 ELSE 1))
         [] OTHER ->
                /\ base # 10 => \A i \in DOMAIN abs : IsDigit(abs[i], base)
                /\ WithinDec(DecimalDigits(abs, base), w - 1,
                             IF neg THEN DecIncrement(Pow2m1Dec(w - 1)) ELSE Pow2m1Dec(w - 1))

\* bvn_check_acc_range
CheckAccRange(vt, s, quoted, acc) ==
    LET w == EffWidth(vt)
        base == EffBase(vt)
        mag == 2^(w - 1) - (IF Negative(s, base) THEN 0 ELSE 1)
    IN CASE ~quoted /\ s \in Special -> TRUE
         [] w > WordBits -> IF vt.family = "uint" THEN UintRange(s, w, base) ELSE SintRange(s, w, base)
         [] acc = Overflow -> FALSE
         [] OTHER -> acc <= IF vt.family = "uint" THEN 2^w - 1 ELSE mag

\* bvn_validate_type_value_compat, of the integer families: the whole of
\* what the reader asks of a number.
Verdict(vt, s, quoted) ==
    LET a == AccParse(vt, s, quoted)
    IN CASE a.error # "none" -> a.error
         [] quoted /\ vt.family = "datetime" -> "type_mismatch"
         [] quoted /\ ~NumberInBase(s, EffBase(vt)) -> "not_a_digit"
         [] a.exp \/ a.dot -> "type_mismatch"
         [] OTHER -> IF CheckAccRange(vt, s, quoted, a.v) THEN "none" ELSE "out_of_range"

-----------------------------------------------------------------------------
\* bvn_int_from_str and bvn_int_to_str, with the buffer bvn_int_str_bufsize
\* makes for a number of bits.
FromStr(s, base) ==
    LET t == IF HasSigns(base) /\ s # <<>> /\ s[1] \in {Plus, Minus} THEN Tail(s) ELSE s
        n == FoldLeft(LAMBDA acc, c : MulAddWord(acc, base, CharToDigit(c, base)), Zero, t)
    IN IF ~AllDigits(t, base) THEN Refused
       ELSE [n EXCEPT !.neg = Negative(s, base) /\ ~IsZero(n)]

BufSize(bits, base) ==
    LET bpd == Max({0} \cup {k \in 1..6 : 2^k <= base})
    IN IF bits = 0 \/ base < 2 THEN 4 ELSE (bits + bpd - 1) \div bpd + 2

RECURSIVE DigitsDown(_, _)
DigitsDown(n, base) ==
    LET d == DivU32(n, base)
    IN IF IsZero(n) THEN <<>> ELSE Append(DigitsDown(d.quot, base), DigitToChar(d.rem, base))

Unwritable == <<>>     \* the conversion failed
Sized(text, size) == IF Len(text) + 1 > size THEN Unwritable ELSE text
ToStr(n, base, size) ==
    IF n.neg /\ ~HasSigns(base) THEN Unwritable
    ELSE Sized(IF IsZero(n) THEN <<DigitToChar(0, base)>>
               ELSE (IF n.neg THEN <<Minus>> ELSE <<>>) \o DigitsDown(n, base), size)

\* bvn_format_uint64 and bvn_format_int64, padded with zeros to least.
FormatU(v, base, least) ==
    LET ds == Digits(base, v)
        padded == ds \o [i \in 1..Max({(IF v = 0 THEN 1 ELSE 0), least - Len(ds)}) |-> 0]
    IN Reverse([i \in DOMAIN padded |-> DigitToChar(padded[i], base)])
FormatI(v, base, least) ==
    IF v >= 0 THEN FormatU(v, base, least)
    ELSE IF ~HasSigns(base) THEN Unwritable ELSE <<Minus>> \o FormatU(-v, base, least)

\* bvn_min_digits_for_type
MinDigits(vt) ==
    IF vt.width = 0 \/ vt.width > WordBits \/ vt.family = "datetime" THEN 0
    ELSE Max({1, Len(Digits(EffBase(vt), IF vt.family = "sint" THEN 2^(vt.width - 1) - 1
                                         ELSE 2^vt.width - 1))})

-----------------------------------------------------------------------------
\* bvn_validate_number_for_writer of an integer family, with what the writer
\* asks of a bare number before it.
BareDigits == (48..57) \cup Exponents \cup {Dot, Plus, Minus}
BareNumberLexes(vt, s) ==
    LET base == EffBase(vt) IN
    \/ s \in Special
    \/ /\ s # <<>> /\ s[1] # Plus
       /\ \A i \in DOMAIN s : s[i] # Dot /\ (base < 15 => s[i] \notin Exponents)

WriterNumber(vt, s) ==
    LET base == EffBase(vt)
        numeric == vt.family # "datetime"
    IN \/ s \in Special
       \/ /\ numeric /\ base > 10 =>
                (\A i \in DOMAIN s : s[i] \in BareDigits) /\ ValidateNumber(s)
          /\ numeric => BareNumberLexes(vt, s)
          /\ vt.family = "uint" => ~Negative(s, base)
          /\ IF numeric /\ base # 10 THEN NumberInBase(s, base)
             ELSE ValidateNumber(s) /\ \A i \in DOMAIN s : s[i] \notin Exponents \cup {Dot}
          /\ IF vt.family = "uint" THEN UintRange(s, EffWidth(vt), base)
             ELSE SintRange(s, EffWidth(vt), base)

\* bvn_validate_string_as_number of uint and sint.
WriterString(vt, s) ==
    LET base == EffBase(vt)
        w    == EffWidth(vt)
    IN /\ vt.family = "uint" => ~Negative(s, base)
       /\ DigitsForBase(s, base)
       /\ s \in Special =>
             LET n == FromStr(s, base)
             IN n # Refused /\ BitLen(n) <= IF vt.family = "uint" THEN w ELSE w - 1
       /\ IF vt.family = "uint" THEN UintRange(s, w, base) ELSE SintRange(s, w, base)

\* bvn_parse_int64 and bvn_parse_uint64: no plus, no space, and the declared
\* width bounds the value.
FitsWidth(vt, v) ==
    \/ vt.width = 0 \/ vt.width >= WordBits
    \/ IF vt.family = "sint" THEN WithinI(v, vt.width) ELSE WithinU(v, vt.width)

ParseI(s, vt) ==
    LET base == EffBase(vt)
        neg  == s[1] = Minus
        t    == IF neg THEN Tail(s) ELSE s
        acc  == Accumulate(t, base)
        v    == IF neg THEN -acc ELSE acc
        sint == [vt EXCEPT !.family = "sint"]
        r    == IF base <= 36 THEN Strtoll(s, base)
                ELSE IF AllDigits(t, base) /\ acc # Overflow /\ v \in I64Min..I64Max THEN Yes(v)
                ELSE No
    IN IF s = <<>> \/ s[1] = Plus \/ s = <<Minus>> THEN No
       ELSE IF r.ok /\ FitsWidth(sint, r.v) THEN r ELSE No

ParseU(s, vt) ==
    LET base == EffBase(vt)
        v    == Accumulate(s, base)
        uint == [vt EXCEPT !.family = "uint"]
        r    == IF base <= 36 THEN Strtoull(s, base)
                ELSE IF AllDigits(s, base) /\ v # Overflow THEN Yes(v) ELSE No
    IN IF s = <<>> \/ (base <= 36 /\ s[1] \in {Plus, Minus}) THEN No
       ELSE IF r.ok /\ FitsWidth(uint, r.v) THEN r ELSE No

-----------------------------------------------------------------------------
\* An integer node of the DOM: its bits as a signed 64-bit integer, or a
\* wide integer.
NoNode == [ok |-> FALSE, vt |-> Type("plain", 0, 0), raw |-> 0, big |-> Zero]
Narrow(vt, raw) == [ok |-> TRUE, vt |-> vt, raw |-> raw, big |-> Zero]
Wide(vt, n)     == [ok |-> TRUE, vt |-> vt, raw |-> 0, big |-> n]
AsSigned(v) == IF v > I64Max THEN v - Word ELSE v
AsWord(raw) == raw % Word
SignedFamily(vt) == vt.family \in {"sint", "datetime"}

\* number_is_float
IsFloatText(s, vt, quoted) ==
    /\ ~(quoted /\ vt.family \in {"uint", "sint"})
    /\ \/ s \in Special
       \/ vt.family \notin {"uint", "sint"} /\ \E i \in DOMAIN s : s[i] \in Exponents \cup {Dot}

\* make_int: what the helper will not parse is tried again as decimal.
MakeInt(s, vt) ==
    LET n   == FromStr(s, EffBase(vt))
        signed == SignedFamily(vt) \/ (vt.family = "plain" /\ s[1] = Minus)
        p   == IF signed THEN ParseI(s, vt) ELSE ParseU(s, vt)
        dec == IF signed THEN Strtoll(s, 10) ELSE Strtoull(s, 10)
        fits == vt.width \notin 1..(WordBits - 1)
                \/ IF signed THEN WithinI(dec.v, vt.width) ELSE WithinU(dec.v, vt.width)
        r   == IF p.ok THEN p ELSE IF dec.ok /\ fits THEN dec ELSE No
        kept == IF vt.family = "plain" /\ ~signed /\ r.v > I64Max THEN Type("uint", WordBits, 0) ELSE vt
    IN IF EffWidth(vt) > WordBits THEN IF n = Refused THEN NoNode ELSE Wide(vt, n)
       ELSE IF r.ok THEN Narrow(kept, AsSigned(r.v)) ELSE NoNode

\* bvn_dom_get_i64, _u64 and the narrower getters.
NodeI64(node) ==
    IF node.vt.width > WordBits THEN ToI64(node.big)
    ELSE IF ~SignedFamily(node.vt) /\ node.raw < 0 THEN No ELSE Yes(node.raw)
NodeU64(node) ==
    IF node.vt.width > WordBits THEN ToU64(node.big)
    ELSE IF SignedFamily(node.vt) /\ node.raw < 0 THEN No ELSE Yes(AsWord(node.raw))
NodeI(node, bits) == LET r == NodeI64(node) IN IF r.ok /\ WithinI(r.v, bits) THEN r ELSE No
NodeU(node, bits) == LET r == NodeU64(node) IN IF r.ok /\ WithinU(r.v, bits) THEN r ELSE No

\* bvn_dom_int_to_str
NodeText(node, base) ==
    IF node.vt.width > WordBits THEN ToStr(node.big, base, BufSize(node.vt.width, base))
    ELSE IF SignedFamily(node.vt) THEN FormatI(node.raw, base, 0)
    ELSE FormatU(AsWord(node.raw), base, 0)

\* make_narrow_int, for a value of a declared width
NodeFrom(family, width, v) == Narrow(Type(family, width, 0), AsSigned(v))

PowerOfTwo(n) == \A i \in 0..(BitLen(n) - 2) : GetBit(n, i) = 0

\* bvn_dom_node_from_bigint: a wide integer that fits what it is declared as.
FromBigint(n, vt) ==
    LET bl  == BitLen(n)
        neg == n.neg /\ ~IsZero(n)
        fits == IF vt.family = "uint" THEN ~neg /\ bl <= vt.width
                ELSE IF ~neg THEN bl <= vt.width - 1
                ELSE bl < vt.width \/ (bl = vt.width /\ PowerOfTwo(n))
    IN IF vt.width > WordBits /\ vt.family \in {"uint", "sint"} /\ fits THEN Wide(vt, n) ELSE NoNode

\* builder_widen_converted_int: the type a converted value needs.
Widened(vt, n) ==
    LET family == IF vt.family = "uint" /\ n.neg /\ ~IsZero(n) THEN "sint" ELSE vt.family
        least  == family = "sint" /\ n.neg /\ PowerOfTwo(n)
        need   == BitLen(n) + (IF family = "sint" /\ ~least THEN 1 ELSE 0)
        grow[w \in Nat] == IF w < need /\ w < MaxLimbs * LimbBits THEN grow[2 * w] ELSE w
    IN [vt EXCEPT !.family = family, !.width = IF need <= EffWidth(vt) THEN @ ELSE grow[8]]
=============================================================================

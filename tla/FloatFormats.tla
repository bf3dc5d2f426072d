---------------------------- MODULE FloatFormats ----------------------------
(***************************************************************************)
(* The decimal interchange formats and fixed point (bvn_float.c,           *)
(* bvn_float_impl.h).  A decimal format has eb exponent bits, cb           *)
(* coefficient bits, a bias and a number of digits; a decimal word is a    *)
(* sign and the bits below it.                                             *)
(***************************************************************************)
EXTENDS FloatLiteral

CONSTANTS
    RoDigits,      \* bound: BVN_FLOAT_RO_DIGITS, digits of a literal kept
    RoMargin,      \* bound: the 4 digits rendered beyond the format's
    DecExpLimit    \* bound: 100000000, past which an exponent saturates

CountDigits(c) == Len(Digits(10, c))
Tenth(c, k)    == IF k > 9 THEN 0 ELSE c \div 10^k

\* A sign and a coefficient times a power of ten, or a special value.
PNum(neg, form, coeff, dex) == [neg |-> neg, form |-> form, coeff |-> coeff, dex |-> dex]

\* Zeros at the end belong to the exponent.
StripZeros(p) ==
    LET f[c \in Nat, x \in Int] ==
            IF c % 10 = 0 THEN f[c \div 10, x + 1] ELSE [p EXCEPT !.coeff = c, !.dex = x]
    IN IF p.coeff = 0 THEN [p EXCEPT !.dex = 0] ELSE f[p.coeff, p.dex]

\* bvn_float_parse_ro: past cap digits the rest make the last one odd.
ParseDecimal(lit, cap) ==
    LET sig  == SubSeq(LitDigits(lit), Max({DecScan(lit).first, 1}), Len(LitDigits(lit)))
        kept == SubSeq(sig, 1, Min({cap, Len(sig)}))
        lost == SubSeq(sig, Len(kept) + 1, Len(sig))
        c    == FoldLeft(LAMBDA a, d : 10 * a + d, 0, kept)
        odd  == (\E i \in DOMAIN lost : lost[i] # 0) /\ c % 2 = 0
        dex  == Len(lost) - Len(lit.frac) + lit.exp
    IN CASE lit.form \in {"nan", "inf"} -> PNum(lit.neg, lit.form, 0, 0)
         [] lit.form = "ninf" /\ ~lit.neg -> PNum(TRUE, "inf", 0, 0)
         [] lit.form = "digits" /\ LitDigits(lit) # <<>> ->
                IF lit.exp > DecExpLimit /\ c # 0 THEN PNum(lit.neg, "inf", 0, 0)
                ELSE IF lit.exp \notin -DecExpLimit..DecExpLimit THEN PNum(lit.neg, "num", 0, 0)
                ELSE StripZeros(PNum(lit.neg, "num", c + (IF odd THEN 1 ELSE 0), dex))
         [] OTHER -> PNum(FALSE, "fail", 0, 0)

\* bvn_float_parse, which keeps every digit.
ParseFull(lit) == ParseDecimal(lit, Len(LitDigits(lit)))

-----------------------------------------------------------------------------
DecIsStandard(fmt) == fmt.bias = 3 * 2^(fmt.eb - 3) + fmt.digs - 2
BeMax(fmt) == IF DecIsStandard(fmt) THEN 3 * 2^(fmt.eb - 2) ELSE 2^fmt.eb - 1

DecWord(neg, bits) == [neg |-> neg, bits |-> bits]
DecInf(neg, fmt) ==
    DecWord(neg, IF DecIsStandard(fmt) THEN 15 * 2^(fmt.eb + fmt.cb - 4)
                 ELSE (2^fmt.eb - 1) * 2^fmt.cb)
DecNan(neg, fmt) ==
    DecWord(neg, DecInf(neg, fmt).bits
                 + (IF DecIsStandard(fmt) THEN 2^(fmt.eb + fmt.cb - 5) ELSE 2^(fmt.cb - 1)))

\* As many digits off as the count and the least exponent ask, in one
\* rounding; a carry may cost one more.
ReduceCoeff(p, fmt) ==
    LET drop  == Max({CountDigits(p.coeff) - fmt.digs, -(p.dex + fmt.bias)})
        guard == Tenth(p.coeff, drop - 1) % 10
        sticky == drop > 9 \/ p.coeff % 10^(drop - 1) # 0
        cut   == Tenth(p.coeff, drop)
        c     == IF guard > 5 \/ (guard = 5 /\ (sticky \/ cut % 2 = 1)) THEN cut + 1 ELSE cut
    IN IF drop <= 0 THEN p
       ELSE IF CountDigits(c) > fmt.digs THEN [p EXCEPT !.coeff = c \div 10, !.dex = @ + drop + 1]
       ELSE [p EXCEPT !.coeff = c, !.dex = @ + drop]

\* The shortest coefficient, as far as the exponent may rise; and zeros put
\* back while it is too high.
Canonical(p, fmt) ==
    LET top == BeMax(fmt) - fmt.bias
        short[c \in Nat, x \in Int] ==
            IF x < top - 1 /\ c % 10 = 0 THEN short[c \div 10, x + 1] ELSE <<c, x>>
        long[c \in Nat, x \in Int] ==
            IF x >= top /\ CountDigits(c) < fmt.digs THEN long[c * 10, x - 1] ELSE <<c, x>>
        s == short[p.coeff, p.dex]
        l == long[s[1], s[2]]
    IN [p EXCEPT !.coeff = l[1], !.dex = l[2]]

\* to_ieee_decimal: a coefficient of one bit too many goes behind a 11.
ToDecimal(p, fmt) ==
    LET r == ReduceCoeff(p, fmt)
        c == Canonical(r, fmt)
        be == c.dex + fmt.bias
        low == fmt.cb - 2
    IN CASE p.form = "nan" -> DecNan(p.neg, fmt)
         [] p.form = "inf" -> DecInf(p.neg, fmt)
         [] OTHER ->
              IF p.coeff = 0 \/ r.coeff = 0 THEN DecWord(p.neg, 0)
              ELSE IF be >= BeMax(fmt) THEN DecInf(p.neg, fmt)
              ELSE IF BitsOf(c.coeff) <= fmt.cb THEN DecWord(p.neg, be * 2^fmt.cb + c.coeff)
              ELSE DecWord(p.neg, 3 * 2^(fmt.eb + low) + be * 2^low + (c.coeff - 2^fmt.cb))

\* bvn_float_strtodec
StrToDec(lit, fmt) ==
    LET p == ParseDecimal(lit, RoDigits)
    IN IF p.form = "fail" THEN [ok |-> FALSE, word |-> DecWord(FALSE, 0)]
       ELSE [ok |-> TRUE, word |-> ToDecimal(p, fmt)]

\* from_ieee_decimal: through the decimal text, rounded once to the float;
\* a coefficient of too many digits is zero.
FromDecimal(w, fmt, p) ==
    LET raw == w.bits \div 2^fmt.cb
        behind == DecIsStandard(fmt) /\ raw >= 3 * 2^(fmt.eb - 2)
        low == fmt.cb - 2
        be == IF behind THEN (w.bits \div 2^low) % 2^fmt.eb ELSE raw
        c  == IF behind THEN 2^fmt.cb + (w.bits % 2^low) ELSE w.bits % 2^fmt.cb
        special == IF DecIsStandard(fmt) THEN raw \div 2^(fmt.eb - 4) = 15
                   ELSE raw = 2^fmt.eb - 1
        isNan == IF DecIsStandard(fmt) THEN BitAt(raw, fmt.eb - 5) = 1 ELSE c # 0
    IN IF special THEN IF isNan THEN NaN ELSE Plain("inf", w.neg)
       ELSE IF c = 0 \/ CountDigits(c) > fmt.digs THEN Plain("zero", w.neg)
       ELSE FloatFromStr(Literal(w.neg, Reverse(Digits(10, c)), <<>>, be - fmt.bias, 10), p)

-----------------------------------------------------------------------------
\* n digits of the exact value, the last made odd if anything is lost; or
\* no literal, if the rational outgrows MaxBits.
RenderRoundOdd(f, n) ==
    LET e2 == f.exp - Precision(f)
        s  == n + 2 - DecExponent(f.exp - 1)
        num2 == IF e2 > 0 THEN ShiftIn(f.man, e2) ELSE f.man
        den2 == IF e2 < 0 THEN ShiftIn(1, -e2) ELSE 1
        num == IF s > 0 THEN TimesTen(num2, s) ELSE num2
        den == IF s < 0 THEN TimesTen(den2, -s) ELSE den2
        q    == num \div den
        over == Max({CountDigits(q) - n, 0})
        cut  == Tenth(q, over)
        inexact == num % den # 0 \/ q % 10^over # 0
        digs == Reverse(Digits(10, IF inexact /\ cut % 2 = 0 THEN cut + 1 ELSE cut))
    IN IF num = TooWide \/ den = TooWide THEN Keyword("fail", FALSE, 10)
       ELSE Literal(f.neg, digs, <<>>, CountDigits(q) - 1 - s - (Len(digs) - 1), 10)

\* bvnf_encode_dec: where the value cannot be rendered, from its shortest
\* text.
EncodeDec(f, fmt) ==
    LET odd == RenderRoundOdd(f, fmt.digs + RoMargin)
        p == IF f.kind \in {"nan", "inf"} THEN PNum(f.neg, f.kind, 0, 0)
             ELSE IF f.kind = "zero" THEN PNum(f.neg, "num", 0, 0)
             ELSE IF odd.form = "digits" THEN ParseFull(odd)
             ELSE ParseFull(FloatToStr(f, 10))
    IN ToDecimal(p, fmt)

-----------------------------------------------------------------------------
\* Fixed point: a signed integer of total bits, in units of 2^-frac.
FixFits(neg, q, total) == q < 2^(total - 1) \/ (neg /\ q = 2^(total - 1))

ToFixCore(f, total, frac) ==
    LET sh == f.exp - Precision(f) + frac
        big == sh >= 0 /\ Precision(f) + sh > total
        q  == IF sh >= 0 THEN f.man * 2^sh
              ELSE IF -sh > Precision(f) THEN 0 ELSE DropBits(f.man, -sh)
        top == IF f.neg THEN 2^(total - 1) ELSE 2^(total - 1) - 1
        over == big \/ ~FixFits(f.neg, q, total)
        mag == IF over THEN top ELSE q
    IN IF f.kind # "num" THEN [over |-> FALSE, v |-> 0]
       ELSE [over |-> over, v |-> IF f.neg THEN -mag ELSE mag]

FixInRange(f, total, frac) == ~ToFixCore(f, total, frac).over

FromFix(v, frac, p) ==
    LET mag == IF v < 0 THEN -v ELSE v
    IN IF v = 0 THEN Plain("zero", FALSE) ELSE Settled(v < 0, mag, BitsOf(mag) - frac, p)

\* bvnf_dec_magnitude: 1 with d such that |lit| is in [10^(d-1), 10^d), 0 for
\* a zero, -1 for what is not digits.
DecMagnitude(lit) ==
    LET scan == DecScan(lit)
    IN [m |-> IF lit.form # "digits" \/ LitDigits(lit) = <<>> THEN -1
              ELSE IF scan.first = 0 THEN 0 ELSE 1,
        d |-> scan.x]

\* bvnf_fix_fits_exact: 1 fits, 0 does not, -1 if it cannot be decided.
FixFitsExact(lit, total, frac) ==
    LET r == ParseRational(lit, 0)
        num == ShiftIn(r.num, frac)
        q == num \div r.den
        rem == 2 * (num % r.den)
        up == rem > r.den \/ (rem = r.den /\ q % 2 = 1)
    IN CASE r.kind \in {"zero", "nan", "underflow"} -> 1
         [] r.kind = "inf"  -> 0
         [] r.kind = "fail" -> -1
         [] r.kind = "ok" ->
              IF num = TooWide THEN 0
              ELSE IF ShiftIn(num % r.den, 1) = TooWide THEN -1
              ELSE IF FixFits(r.neg, IF up THEN q + 1 ELSE q, total) THEN 1 ELSE 0

\* bvn_float_str_fits_fix
StrFitsFix(lit, total, frac) ==
    LET m == DecMagnitude(lit)
        exact == FixFitsExact(lit, total, frac)
        f == FloatFromStr(lit, total + frac + GuardBits)
    IN /\ frac < total
       /\ \/ lit.base = 10 /\ m.m = 0
          \/ lit.base = 10 /\ m.m = 1 /\ m.d < 0 /\ -3 * m.d > frac + 4
          \/ /\ ~(lit.base = 10 /\ m.m = 1 /\ m.d > 1 /\ 3 * (m.d - 1) > total + 4)
             /\ \/ exact = 1
                \/ exact = -1 /\ (f.kind = "failed" \/ (f.kind # "inf" /\ FixInRange(f, total, frac)))
=============================================================================

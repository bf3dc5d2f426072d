---------------------------- MODULE FloatLiteral ----------------------------
(***************************************************************************)
(* Floating literals (bvn_float.c): a text becomes an exact rational, as   *)
(* many digits of it as rounding needs and a sticky digit for the rest,    *)
(* and is rounded once; where dropped digits could have decided, the       *)
(* result is settled against the midpoints around it.                      *)
(***************************************************************************)
EXTENDS Rounding

CONSTANTS
    GuardBits,    \* bound: the 64 bits kept beyond the precision
    FloorBits,    \* bound: the 2624 bits no budget goes below
    WideSig,      \* bound: 53, past which a format is wide
    WideBits,     \* bound: BVN_FLOAT_WIDE_DIGIT_BUDGET
    ExpLimit,     \* bound: LONG_MAX, the exponent that can be counted
    HexLimit      \* bound: BVNF_HEX_EXP_LIMIT

\* A literal as the scanner of the text leaves it: a keyword, digits with an
\* exponent, or text that is neither.
Literal(neg, whole, frac, exp, base) ==
    [form |-> "digits", neg |-> neg, whole |-> whole, frac |-> frac, exp |-> exp, base |-> base]
Keyword(form, neg, base) == [Literal(neg, <<>>, <<>>, 0, base) EXCEPT !.form = form]

LitDigits(lit) == lit.whole \o lit.frac
NonZero(lit) == {i \in DOMAIN LitDigits(lit) : LitDigits(lit)[i] # 0}

\* bvnf_dec_scan: where the digits start, and x with the value 0.D * 10^x.
DecScan(lit) ==
    LET first == IF NonZero(lit) = {} THEN 0 ELSE Min(NonZero(lit))
    IN [first |-> first, x |-> Len(lit.whole) - first + 1 + lit.exp]

-----------------------------------------------------------------------------
\* What does not fit MaxBits is -1, and stays it.
TooWide == -1
MulAdd(n, m, add) ==
    IF n = TooWide \/ n > (2^MaxBits - 1 - add) \div m THEN TooWide ELSE n * m + add
TimesTen(n, k) == LET f[i \in Nat] == IF i = 0 THEN n ELSE MulAdd(f[i - 1], 10, 0) IN f[k]
ShiftIn(n, k)  == IF BitsOf(n) + k > MaxBits THEN TooWide ELSE n * 2^k

\* How many bits of digits are worth keeping: enough for the precision and
\* the midpoints, but a small number leaves its denominator room.
Budget(lit, sig) ==
    LET least == sig + GuardBits
        wide  == IF sig > WideSig THEN WideBits ELSE 0
        usual == Min({Max({least, FloorBits, wide}), MaxBits - Reserve})
        scan  == DecScan(lit)
        room  == MaxBits - (3 * Reserve) \div 2 - ((-scan.x) * 3322) \div 1000
    IN IF lit.base = 10 /\ scan.first # 0 /\ scan.x < 0
       THEN Min({usual, Max({room, least})}) ELSE usual

\* The digits one by one (in the code nine or seven at a time), dropped once
\* the budget is reached; sig 0 keeps them all.
TakeDigits(lit, sig) ==
    LET budget == Budget(lit, sig)
        step(a, i) ==
            LET d == LitDigits(lit)[i]
                n == MulAdd(a.num, lit.base, d)
                inFrac == i > Len(lit.whole)
            IN IF a.full
               THEN [a EXCEPT !.scale = IF inFrac THEN @ ELSE @ + 1, !.sticky = @ \/ d # 0]
               ELSE [a EXCEPT !.num = n, !.scale = IF inFrac THEN @ - 1 ELSE @,
                              !.full = sig > 0 /\ BitsOf(n) >= budget]
        done == FoldLeft(step, [num |-> 0, scale |-> 0, full |-> FALSE, sticky |-> FALSE],
                         [i \in DOMAIN LitDigits(lit) |-> i])
    IN IF done.sticky
       THEN [done EXCEPT !.num = MulAdd(@, lit.base, 1), !.scale = @ - 1] ELSE done

\* Digits that overflow end the scan of them; any that follow are no literal.
DigitsRemain(lit) ==
    LET n == Len(lit.whole)
        f == Len(lit.frac)
        short == IF f > 0 THEN [lit EXCEPT !.frac = SubSeq(@, 1, f - 1)]
                 ELSE [lit EXCEPT !.whole = SubSeq(@, 1, n - 1)]
    IN TakeDigits(short, 0).num = TooWide

Told(kind, neg) == [kind |-> kind, neg |-> neg, num |-> 0, den |-> 1, dropped |-> FALSE]

\* The rational of digits and their scale, a power of the base, and the
\* exponent, of ten or, in hexadecimal, of two.
Scaled(neg, t, lit) ==
    LET net == IF lit.base = 16 THEN lit.exp + 4 * t.scale ELSE lit.exp + t.scale
        up(n, k) == IF lit.base = 16 THEN ShiftIn(n, k) ELSE TimesTen(n, k)
        num == IF net >= 0 THEN up(t.num, net) ELSE t.num
        den == IF net < 0 THEN up(1, -net) ELSE 1
    IN IF num = TooWide THEN Told("inf", neg)
       ELSE IF den = TooWide THEN Told("underflow", neg)
       ELSE [kind |-> "ok", neg |-> neg, num |-> num, den |-> den, dropped |-> t.sticky]

\* bvnf_parse_rational.  Of a zero the exponent does not matter, however long.
ParseRational(lit, sig) ==
    LET t == TakeDigits(lit, sig)
        beyond == Told(IF lit.exp < 0 THEN "underflow" ELSE "inf", lit.neg)
    IN CASE lit.form = "nan" -> Told("nan", lit.neg)
         [] lit.form = "inf" -> Told("inf", lit.neg)
         [] lit.form = "ninf" /\ ~lit.neg -> Told("inf", TRUE)
         [] lit.form = "digits" /\ LitDigits(lit) # <<>> ->
                IF t.num = 0 THEN Told("zero", lit.neg)
                ELSE IF t.num = TooWide /\ DigitsRemain(lit) THEN Told("fail", lit.neg)
                ELSE IF t.num = TooWide \/ lit.exp \notin -ExpLimit..ExpLimit THEN beyond
                ELSE Scaled(lit.neg, t, lit)
         [] OTHER -> Told("fail", lit.neg)

\* bvn_float_parse_rational: the exact value or nothing.
ExactRational(lit) ==
    LET r == ParseRational(lit, 0)
    IN [ok |-> r.kind \in {"ok", "zero"}, neg |-> r.kind = "ok" /\ r.neg,
        num |-> r.num, den |-> r.den]

-----------------------------------------------------------------------------
\* bvnf_cmp_decimal_dyadic: |lit| against n * 2^k, a terminating decimal, digit
\* by digit, both as 0.D * 10^x.
Dyadic(n, k) ==
    LET f[i \in Nat] == IF i = 0 THEN Digits(10, n)
                        ELSE MulAddDigits(10, f[i - 1], IF k > 0 THEN 2 ELSE 5, 0)
    IN f[IF k > 0 THEN k ELSE -k]

CmpDecimalDyadic(lit, n, k) ==
    LET scan == DecScan(lit)
        d == Reverse(Dyadic(n, k))
        x == Len(d) + Min({k, 0})
        l == SubSeq(LitDigits(lit), scan.first, Len(LitDigits(lit)))
        digit(s, i) == IF i <= Len(s) THEN s[i] ELSE 0
        differ == {i \in 1..Max({Len(d), Len(l)}) : digit(d, i) # digit(l, i)}
    IN IF scan.first = 0 THEN -1
       ELSE IF scan.x # x THEN IF scan.x < x THEN -1 ELSE 1
       ELSE IF differ = {} THEN 0
       ELSE IF digit(l, Min(differ)) < digit(d, Min(differ)) THEN -1 ELSE 1

\* The midpoint above s * 2^e, or the one below it, which is nearer where the
\* binade starts.
CmpMidpoint(lit, s, e, below, atFloor) ==
    LET shift == IF atFloor THEN 2 ELSE 1
    IN CmpDecimalDyadic(lit, s * 2^shift + (IF below THEN -1 ELSE 1), e - shift)

SettleStep(lit, s, e, atFloor, canUp, canDown) ==
    LET odd  == s % 2 = 1
        up   == CmpMidpoint(lit, s, e, FALSE, FALSE)
        down == CmpMidpoint(lit, s, e, TRUE, atFloor)
    IN IF canUp /\ (up = 1 \/ (up = 0 /\ odd)) THEN 1
       ELSE IF canUp /\ up = 0 THEN 0
       ELSE IF canDown /\ (down = -1 \/ (down = 0 /\ odd)) THEN -1
       ELSE 0

FloatSettle(f, lit) ==
    LET p == Precision(f)
        atFloor == f.man = 2^(p - 1)
        step == SettleStep(lit, f.man, f.exp - p, atFloor, TRUE, TRUE)
    IN IF f.kind # "num" \/ step = 0 THEN f
       ELSE IF step > 0
       THEN IF f.man + 1 = 2^p THEN Num(f.neg, 2^(p - 1), f.exp + 1) ELSE [f EXCEPT !.man = @ + 1]
       ELSE IF atFloor THEN Num(f.neg, 2^p - 1, f.exp - 1) ELSE [f EXCEPT !.man = @ - 1]

\* The same for a word, infinity standing one step past the largest number.
IeeeSettle(w, lit, fmt) ==
    LET s == w.frac + (IF w.ef = 0 THEN 0 ELSE 2^fmt.mb)
        e == Max({w.ef, 1}) - fmt.bias - fmt.mb
        atFloor == w.ef >= 2 /\ w.frac = 0
        step == SettleStep(lit, s, e, atFloor, w.ef # AllOnes(fmt), s # 0)
        mag  == w.ef * 2^fmt.mb + w.frac + step       \* words are in order
    IN Packed(w.neg, mag \div 2^fmt.mb, mag % 2^fmt.mb)

-----------------------------------------------------------------------------
\* Hexadecimal straight from its bits, any exponent up to HexLimit.
FromHex(lit, p) ==
    LET m == FoldLeft(LAMBDA a, d : 16 * a + d, 0, LitDigits(lit))
        f == Settled(lit.neg, m, BitsOf(m) - 4 * Len(lit.frac) + lit.exp, p)
    IN IF m = 0 \/ f.exp < -HexLimit THEN Plain("zero", lit.neg)
       ELSE IF f.exp > HexLimit THEN Plain("inf", lit.neg)
       ELSE f

Failed == Plain("failed", FALSE)

\* A mutant for the checks: dropped digits are not settled.
FloatFromStrUnsettled(lit, p) ==
    LET r == ParseRational(lit, p)
    IN IF lit.base = 16 /\ lit.form = "digits" /\ LitDigits(lit) # <<>> THEN FromHex(lit, p)
       ELSE CASE r.kind = "ok" -> RationalToFloat(r.neg, r.num, r.den, p)
              [] r.kind = "nan" -> NaN
              [] r.kind = "inf" -> Plain("inf", r.neg)
              [] r.kind \in {"zero", "underflow"} -> Plain("zero", r.neg)
              [] OTHER -> Failed

FloatFromStr(lit, p) ==
    LET r == ParseRational(lit, p)
        f == RationalToFloat(r.neg, r.num, r.den, p)
    IN IF lit.base = 16 /\ lit.form = "digits" /\ LitDigits(lit) # <<>> THEN FromHex(lit, p)
       ELSE CASE r.kind = "ok" -> IF r.dropped THEN FloatSettle(f, lit) ELSE f
              [] r.kind = "nan" -> NaN
              [] r.kind = "inf" -> Plain("inf", r.neg)
              [] r.kind \in {"zero", "underflow"} -> Plain("zero", r.neg)
              [] OTHER -> Failed

\* bvn_float_strtoieee_bin; text that is no number is left +0.
StrToIeee(lit, fmt) ==
    LET r == ParseRational(lit, fmt.mb + 1)
        w == RationalToIeee(r.neg, r.num, r.den, fmt)
    IN CASE r.kind = "ok" -> IF r.dropped /\ lit.base = 10 THEN IeeeSettle(w, lit, fmt) ELSE w
         [] r.kind = "nan" -> NanWord(r.neg, fmt)
         [] r.kind = "inf" -> InfWord(r.neg, fmt)
         [] r.kind \in {"zero", "underflow"} -> ZeroWord(r.neg)
         [] r.kind = "fail" -> ZeroWord(FALSE)
-----------------------------------------------------------------------------
(* Floats written out: hexadecimal exactly, decimal with the fewest digits *)
(* that still read back as the float at its own precision.  A text is the  *)
(* literal a reader of it sees.                                            *)

\* A digit string d, its first digit worth 10^e.
DecimalText(neg, d, e) == Literal(neg, <<Head(d)>>, Tail(d), e, 10)

NoTrailing(d) == SubSeq(d, 1, Max({1} \cup {i \in DOMAIN d : d[i] # 0}))
NoLeading(d)  == SubSeq(d, Min({Len(d)} \cup {i \in DOMAIN d : d[i] # 0}), Len(d))

\* The leading 1, then hex digits of the bits below it.
ToStrPow2(f) ==
    LET p == Precision(f)
        n == (p + 2) \div 4
        digit(k) == ((f.man * 2^(4 * n + 1 - p)) \div 2^(4 * (n - k))) % 16
        d == [k \in 1..n |-> digit(k)]
    IN Literal(f.neg, <<1>>, SubSeq(d, 1, Max({0} \cup {i \in DOMAIN d : d[i] # 0})),
               f.exp - 1, 16)

-----------------------------------------------------------------------------
\* The first k digits, cut or one unit up; a carry out of the first is a 1
\* worth ten times as much.
TakeK(digs, k, up) ==
    LET cut   == SubSeq(digs, 1, k)
        below == {i \in DOMAIN cut : cut[i] # 9}
        j     == Max(below)
        upped == [i \in DOMAIN cut |-> IF i < j THEN cut[i] ELSE IF i = j THEN cut[i] + 1 ELSE 0]
    IN IF ~up THEN [d |-> NoTrailing(cut), shift |-> 0]
       ELSE IF below = {} THEN [d |-> <<1>>, shift |-> 1]
       ELSE [d |-> NoTrailing(upped), shift |-> 0]

\* Does the candidate read back as f?
RtCandidate(f, c, e) == FloatFromStr(DecimalText(f.neg, c.d, e + c.shift), Precision(f)) = f

Feasible(f, digs, k, e) ==
    RtCandidate(f, TakeK(digs, k, FALSE), e) \/ RtCandidate(f, TakeK(digs, k, TRUE), e)

\* The least k found by halving, and of its two candidates the nearer, or
\* the other where the nearer does not read back.
Shorten(f, digs, e) ==
    LET n == Len(digs)
        find[lo \in 1..n, hi \in 1..n] ==
            LET k == (lo + hi) \div 2
            IN IF lo >= hi THEN lo
               ELSE IF Feasible(f, digs, k, e) THEN find[lo, k] ELSE find[k + 1, hi]
        k == find[1, n]
        next == IF k < n THEN digs[k + 1] ELSE 0
        sticky == \E i \in (k + 2)..n : digs[i] # 0
        nearUp == 2 * next > 10 \/ (2 * next = 10 /\ (sticky \/ digs[k] % 2 = 1))
        nearOk == RtCandidate(f, TakeK(digs, k, nearUp), e)
        use == TakeK(digs, k, nearUp = nearOk)
    IN IF n <= 1 THEN [d |-> digs, e |-> e] ELSE [d |-> use.d, e |-> e + use.shift]

\* log10(2), rounded away from the smaller exponent.
DecExponent(e2) ==
    IF e2 >= 0 THEN (e2 * 30103 + 99999) \div 100000 ELSE -(((-e2) * 30103) \div 100000)

\* The digits from M * 10^k, the power of two of it by shifting; a digit or
\* two too many on either side are stripped.
ToStrDec(f) ==
    LET p == Precision(f)
        e10 == DecExponent(f.exp - 1)
        n == (p * 302 + 999) \div 1000 + 4
        k == n - 1 - e10
        net == f.exp - p + k
        fives == IF k >= 0 THEN f.man * 5^k ELSE f.man
        moved == IF net >= 0 THEN fives * 2^net ELSE fives \div 2^(-net)
        m[i \in Nat] == IF i = 0 THEN moved ELSE m[i - 1] \div 5
        low == m[Max({-k, 0})]
        digs == [i \in 1..n |-> (low \div 10^(n - i)) % 10]
        bare == NoLeading(digs)
        short == Shorten(f, NoTrailing(bare), e10 - (n - Len(bare)))
    IN DecimalText(f.neg, short.d, short.e)

FloatToStr(f, base) ==
    CASE f.kind = "nan"  -> Keyword("nan", FALSE, base)
      [] f.kind = "inf"  -> Keyword(IF f.neg THEN "ninf" ELSE "inf", FALSE, base)
      [] f.kind = "zero" -> Literal(f.neg, <<0>>, <<0>>, 0, base)
      [] f.kind = "num"  -> IF base = 16 THEN ToStrPow2(f) ELSE ToStrDec(f)
=============================================================================

----------------------------- MODULE FloatLaws -----------------------------
(***************************************************************************)
(* What the floats are checked against: the value a literal denotes,       *)
(* compared exactly, whatever its length, by multiplying out on both sides.*)
(***************************************************************************)
EXTENDS FloatFormats

Raised(ds, r, k) ==
    LET f[i \in Nat] == IF i = 0 THEN ds ELSE MulAddDigits(10, f[i - 1], r, 0) IN f[Max({k, 0})]

\* A literal's digits as one number, least significant first, and the power of
\* ten, or in hexadecimal of two, that goes with it.
Whole(lit) == Trim(FoldLeft(LAMBDA a, d : MulAddDigits(10, a, lit.base, d), <<>>, LitDigits(lit)))
Tens(lit)  == IF lit.base = 10 THEN lit.exp - Len(lit.frac) ELSE 0
Twos(lit)  == IF lit.base = 16 THEN lit.exp - 4 * Len(lit.frac) ELSE 0

(* |lit| against n * 2^k.                                                  *)
Versus(lit, n, k) ==
    LET l == Raised(Raised(Whole(lit), 10, Tens(lit)), 2, Twos(lit) - k)
        r == Raised(Raised(Digits(10, n), 10, -Tens(lit)), 2, k - Twos(lit))
    IN CmpMag(l, r)

IsZeroText(lit) == NonZero(lit) = {}
IsNumber(lit) == lit.form = "digits" /\ LitDigits(lit) # <<>>

\* Nothing representable is nearer: s * 2^e, between its two midpoints, on one
\* of them only if s is even.
Nearest(lit, s, e, atFloor) ==
    LET up   == Versus(lit, 2 * s + 1, e - 1)
        down == IF atFloor THEN Versus(lit, 4 * s - 1, e - 2) ELSE Versus(lit, 2 * s - 1, e - 1)
    IN /\ up = -1 \/ (up = 0 /\ s % 2 = 0)
       /\ s > 0 => down = 1 \/ (down = 0 /\ s % 2 = 0)

\* The least magnitude whose denominator outgrows a rational.
TooSmall(lit, p) ==
    ((MaxBits - (3 * Reserve) \div 2 - p - GuardBits) * 1000) \div 3322 < -DecScan(lit).x

(* A literal reads as the float of the precision nearest to it, ties to    *)
(* even; as infinity only past MaxBits and as zero only where the          *)
(* denominator cannot be had.                                              *)
ReadsNearest(lit, p) ==
    LET f == FloatFromStr(lit, p)
    IN IsNumber(lit) =>
         /\ f.neg = lit.neg
         /\ f.kind = "zero" => IsZeroText(lit) \/ TooSmall(lit, p)
         /\ f.kind = "inf"  => lit.exp > ExpLimit \/ Versus(lit, 1, MaxBits - 4) = 1
         /\ IsZeroText(lit) => f.kind = "zero"
         /\ f.kind = "num"  => /\ Precision(f) = p
                               /\ Nearest(lit, f.man, f.exp - p, f.man = 2^(p - 1))
         /\ f.kind \in {"zero", "inf", "num"}

(* And as the nearest word of an IEEE format: subnormals, the largest      *)
(* number, infinity and zero included.                                     *)
PacksNearest(lit, fmt) ==
    LET w == StrToIeee(lit, fmt)
        s == w.frac + (IF w.ef = 0 THEN 0 ELSE 2^fmt.mb)
        e == Max({w.ef, 1}) - fmt.bias - fmt.mb
    IN IsNumber(lit) /\ ~IsZeroText(lit) =>
         /\ w.neg = lit.neg
         /\ IF lit.exp \in -ExpLimit..ExpLimit
            THEN IF w.ef = AllOnes(fmt)
                 THEN w.frac = 0 /\ Versus(lit, 2 * s - 1, e - 1) >= 0
                 ELSE Nearest(lit, s, e, w.ef >= 2 /\ w.frac = 0)
            ELSE w = (IF lit.exp < 0 THEN ZeroWord(lit.neg) ELSE InfWord(lit.neg, fmt))

(* A word is the float it was read as, through a C double or not, and a    *)
(* float rounds into a format as its own exact text does.                  *)
WordsKept(w, fmt, p) ==
    LET f == FromIeee(w, fmt, p)
    IN /\ f = FromDouble(w, fmt, p)
       /\ p > fmt.mb /\ f.kind # "nan" => ToIeee(f, fmt) = w
       /\ f.kind = "nan" => ToIeee(f, fmt) = NanWord(FALSE, fmt)
       /\ p > fmt.mb => Copy(f, fmt.mb + 1) = FromIeee(w, fmt, fmt.mb + 1)

-----------------------------------------------------------------------------
\* Every digit string of n digits next to the float's value reads as another.
NoneShorter(f, n) ==
    LET t == FloatToStr(f, 10)
        x == t.exp
        up(d) == IF d = 10^n THEN <<10^(n - 1), 1>> ELSE <<d, 0>>
        c == FoldLeft(LAMBDA a, d : 10 * a + d, 0, SubSeq(LitDigits(t) , 1, n))
        reads(d) == LET v == up(d)
                    IN FloatFromStr(DecimalText(f.neg, Reverse(Digits(10, v[1])), x + v[2]),
                                    Precision(f)) = f
    IN ~reads(c) /\ ~reads(c + 1) /\ (c > 10^(n - 1) => ~reads(c - 1))

(* What is written of a float reads back as that float; in decimal with no *)
(* digit to spare, and no text of the same length is nearer.               *)
WritesBack(f) ==
    LET t == FloatToStr(f, 10)
        n == Len(LitDigits(t))
        p == Precision(f)
    IN f.kind = "num" =>
         /\ FloatFromStr(FloatToStr(f, 16), p) = f
         /\ FloatFromStr(t, p) = f
         /\ n > 1 => NoneShorter(f, n - 1)
         /\ \A q \in {p - 1, p + 1} : ReadsNearest(FloatToStr(f, 16), q)

-----------------------------------------------------------------------------
\* What a decimal word stands for, and the integer nearest to |lit| / 10^q.
CoeffOf(w, fmt) ==
    LET raw == w.bits \div 2^fmt.cb
        behind == DecIsStandard(fmt) /\ raw >= 3 * 2^(fmt.eb - 2)
        low == fmt.cb - 2
    IN IF behind THEN <<2^fmt.cb + (w.bits % 2^low), ((w.bits \div 2^low) % 2^fmt.eb) - fmt.bias>>
       ELSE <<w.bits % 2^fmt.cb, raw - fmt.bias>>

NearestTens(lit, q) ==
    LET scan == DecScan(lit)
        sig  == SubSeq(LitDigits(lit), scan.first, Len(LitDigits(lit)))
        digit(i) == IF i \in DOMAIN sig THEN sig[i] ELSE 0
        k    == scan.x - q
        c    == FoldLeft(LAMBDA a, i : 10 * a + digit(i), 0, [i \in 1..Max({k, 0}) |-> i])
        g    == IF k < 0 THEN 0 ELSE digit(k + 1)
        rest == \E i \in DOMAIN sig : i > k + 1 /\ sig[i] # 0
    IN IF g > 5 \/ (g = 5 /\ (rest \/ c % 2 = 1)) THEN c + 1 ELSE c

(* A literal goes into a decimal format in one rounding: the nearest       *)
(* multiple of the unit its magnitude, or the least exponent, allows.      *)
PacksDecimal(lit, fmt) ==
    LET w == StrToDec(lit, fmt)
        q == Max({DecScan(lit).x - fmt.digs, -fmt.bias})
        c == NearestTens(lit, q)
        got == CoeffOf(w.word, fmt)
        top == BeMax(fmt) - 1 - fmt.bias
        same == CmpMag(Raised(Digits(10, c), 10, q - got[2]),
                       Raised(Digits(10, got[1]), 10, got[2] - q)) = 0
    IN IsNumber(lit) =>
         /\ w.ok /\ w.word.neg = lit.neg
         /\ IsZeroText(lit) => w.word.bits = 0
         /\ ~IsZeroText(lit) /\ lit.exp \in -DecExpLimit..DecExpLimit =>
               IF w.word = DecInf(lit.neg, fmt) THEN c >= 10^fmt.digs \/ q > top
               ELSE same /\ CountDigits(got[1]) <= fmt.digs /\ got[2] <= top

(* A decimal word read as a float, if wide enough to hold it, encodes as a *)
(* word of the same value.                                                 *)
DecimalKept(w, fmt, p) ==
    LET f == FromDecimal(w, fmt, p)
    IN /\ /\ f.kind = "num" /\ 2^(p - 1) > 10^fmt.digs
          /\ RenderRoundOdd(f, fmt.digs + RoMargin).form = "digits"
          => FromDecimal(EncodeDec(f, fmt), fmt, p) = f
       /\ f.kind = "inf" => EncodeDec(f, fmt) = DecInf(f.neg, fmt)
       /\ f.kind = "nan" => EncodeDec(f, fmt) = DecNan(FALSE, fmt)
       /\ f.kind = "zero" => EncodeDec(f, fmt) = DecWord(f.neg, 0)

(* A float encodes as its exact value, written in full, does.              *)
ExactText(f) ==
    LET e2 == f.exp - Precision(f)
        ds == Raised(Raised(Digits(10, f.man), 2, e2), 5, -e2)
    IN Literal(f.neg, Reverse(ds), <<>>, Min({e2, 0}), 10)

EncodesOnce(f, fmt) ==
    f.kind = "num" /\ RenderRoundOdd(f, fmt.digs + RoMargin).form = "digits" =>
        PacksDecimal(ExactText(f), fmt) /\ EncodeDec(f, fmt) = StrToDec(ExactText(f), fmt).word

-----------------------------------------------------------------------------
\* The integer nearest to lit * 2^frac, ties to even, lies in the type: it
\* is below the last one's midpoint.
FixBelongs(lit, total, frac) ==
    LET c == Versus(lit, 2^total + (IF lit.neg THEN 1 ELSE -1), -frac - 1)
    IN c = -1 \/ (c = 0 /\ lit.neg)

\* The exact decision has room for the literal's digits.
Decidable(lit, total, frac) ==
    LET r == ParseRational(lit, 0)
    IN /\ TakeDigits(lit, 0).num # TooWide
       /\ r.kind = "ok" => ShiftIn(r.num, frac) # TooWide /\ ShiftIn(r.den, 1) # TooWide

(* A fixed-point literal is taken exactly if its nearest integer is in the *)
(* type's range.                                                           *)
FixTaken(lit, total, frac) ==
    IsNumber(lit) /\ frac < total => (StrFitsFix(lit, total, frac) <=> FixBelongs(lit, total, frac))

(* A float becomes the nearest fixed-point number or the range's end, and  *)
(* the number becomes the float.                                           *)
FixKept(f, total, frac, p) ==
    LET r == ToFixCore(f, total, frac)
        t == FloatToStr(f, 16)
    IN /\ f.kind = "num" =>
             /\ ~r.over <=> FixBelongs(t, total, frac)
             /\ ~r.over => Nearest(t, IF r.v < 0 THEN -r.v ELSE r.v, -frac, FALSE)
             /\ r.v \in -(2^(total - 1))..(2^(total - 1) - 1)
       /\ \A v \in {-(2^(total - 1)), -1, 0, 1, 2^(total - 1) - 1} :
             p >= total => ToFixCore(FromFix(v, frac, p), total, frac) = [over |-> FALSE, v |-> v]
=============================================================================

------------------------------ MODULE Rounding ------------------------------
(***************************************************************************)
(* Binary floating point (bvn_float.c): a float is a kind, a sign, and for *)
(* a number a significand with as many bits as the float's precision and   *)
(* an exponent, its value man * 2^(exp - precision).  An IEEE word is a    *)
(* sign, an exponent field and a fraction.  Every way in and out rounds to *)
(* nearest, ties to even.                                                  *)
(***************************************************************************)
EXTENDS BigInt

CONSTANTS
    MaxBits,     \* bound: BVN_INT_MAX_BITS, what a rational may take
    Reserve      \* bound: the 128 bits of it that digits leave free

ASSUME RoundingAssumption == Reserve > 7 /\ MaxBits > 2 * Reserve /\ MaxBits < 28

Plain(kind, neg) == [kind |-> kind, neg |-> neg, man |-> 0, exp |-> 0]
Num(neg, man, exp) == [kind |-> "num", neg |-> neg, man |-> man, exp |-> exp]
NaN == Plain("nan", FALSE)

\* Significands and what they are built from are below 2^MaxBits.
BitsOf(n)   == Len(Digits(2, n))
BitAt(n, i) == IF i \in 0..30 THEN (n \div 2^i) % 2 ELSE 0
Cut(n, d)   == IF d > 30 THEN 0 ELSE n \div 2^d
Precision(f) == BitsOf(f.man)

\* The low d bits dropped: a guard bit, and whether anything is below it.
DropBits(m, d) ==
    LET sticky == d > 30 \/ m % 2^(d - 1) # 0
    IN Cut(m, d) + (IF BitAt(m, d - 1) = 1 /\ (sticky \/ Cut(m, d) % 2 = 1) THEN 1 ELSE 0)

\* m, its leading bit of weight 2^(exp - 1), at precision p.
Settled(neg, m, exp, p) ==
    LET d == BitsOf(m) - p
        r == DropBits(m, d)
    IN IF d <= 0 THEN Num(neg, m * 2^(-d), exp)
       ELSE IF BitsOf(r) > p THEN Num(neg, r \div 2, exp + 1)
       ELSE Num(neg, r, exp)

Copy(f, p) == IF f.kind = "num" THEN Settled(f.neg, f.man, f.exp, p) ELSE f

-----------------------------------------------------------------------------
\* A quotient with two bits too many, and whether anything is left below.
RoundUp(q, sticky) ==
    (q \div 4) + (IF BitAt(q, 1) = 1 /\ (BitAt(q, 0) = 1 \/ sticky \/ BitAt(q, 2) = 1) THEN 1 ELSE 0)

\* Bit by bit, the remainder doubled from below the divisor's half, so that
\* it never needs a bit more than the divisor.
BitDiv(num, shift, den, want) ==
    LET half == den \div 2
        low  == den % 2
        step(a, i) ==
            LET b == IF i >= shift THEN BitAt(num, i - shift) ELSE 0
                over == a.r > half \/ (a.r = half /\ b >= low)
                less == a.r - half - (IF b < low THEN 1 ELSE 0)
            IN IF ~over THEN [a EXCEPT !.r = 2 * @ + b]
               ELSE [r |-> 2 * less + (IF b # low THEN 1 ELSE 0),
                     q |-> IF i < want THEN a.q + 2^i ELSE a.q,
                     sticky |-> a.sticky \/ i >= want]
        n == BitsOf(num) + Max({shift, 0})
        done == FoldLeft(step, [r |-> 0, q |-> 0, sticky |-> FALSE], [i \in 1..n |-> n - i])
    IN [q |-> done.q, sticky |-> done.sticky \/ done.r # 0]

Quotient(num, den, shift, want) ==
    LET n == num * 2^Max({shift, 0})
        d == den * 2^Max({-shift, 0})
    IN IF shift >= 0 /\ BitsOf(num) + shift > MaxBits - (Reserve \div 4)
       THEN BitDiv(num, shift, den, want)
       ELSE [q |-> n \div d, sticky |-> n % d # 0]

\* The exponent e with 2^e <= num/den < 2^(e+1).
Log2(num, den) ==
    LET e == BitsOf(num) - BitsOf(den)
        below == IF e >= 0 THEN den * 2^e > num ELSE den > num * 2^(-e)
    IN IF below THEN e - 1 ELSE e

RationalToFloat(neg, num, den, p) ==
    LET e == Log2(num, den)
        q == Quotient(num, den, p + 1 - e, p + 2)
        r == RoundUp(q.q, q.sticky)
    IN IF num = 0 THEN Plain("zero", neg)
       ELSE IF BitsOf(r) > p THEN Num(neg, r \div 2, e + 2)
       ELSE Num(neg, r, e + 1)

-----------------------------------------------------------------------------
\* IEEE binary interchange formats: eb exponent bits, mb fraction bits.
Packed(neg, ef, frac) == [neg |-> neg, ef |-> ef, frac |-> frac]
AllOnes(fmt) == 2^fmt.eb - 1
InfWord(neg, fmt) == Packed(neg, AllOnes(fmt), 0)
NanWord(neg, fmt) == Packed(neg, AllOnes(fmt), 2^(fmt.mb - 1))
ZeroWord(neg) == Packed(neg, 0, 0)

\* A significand of mb + 1 bits, or mb when it is subnormal, with its exponent
\* field: it may have grown a bit in rounding.
PackRounded(neg, r, be, fmt) ==
    LET grown == BitsOf(r) > fmt.mb + 1
        ef == IF be = 0 THEN BitAt(r, fmt.mb) ELSE IF grown THEN be + 1 ELSE be
    IN IF ef >= AllOnes(fmt) THEN InfWord(neg, fmt)
       ELSE Packed(neg, ef, (IF grown THEN r \div 2 ELSE r) % 2^fmt.mb)

\* Once, where the format rounds: normals, subnormals and both ends alike.
RationalToIeee(neg, num, den, fmt) ==
    LET e  == Log2(num, den)
        be == Max({e + fmt.bias, 0})
        ulp == (IF be > 0 THEN e ELSE 1 - fmt.bias) - fmt.mb
        q  == Quotient(num, den, 2 - ulp, fmt.mb + 8)
    IN IF num = 0 THEN ZeroWord(neg)
       ELSE IF be >= AllOnes(fmt) THEN InfWord(neg, fmt)
       ELSE PackRounded(neg, RoundUp(q.q, q.sticky), be, fmt)

ToIeeeDirect(f, fmt) ==
    LET e  == f.exp - 1 + fmt.bias
        be == Max({e, 0})
        drop == Precision(f) - (fmt.mb + 1) + (IF e <= 0 THEN 1 - e ELSE 0)
        r  == IF drop > 0 THEN DropBits(f.man, drop) ELSE f.man * 2^(-drop)
    IN IF be >= AllOnes(fmt) THEN InfWord(f.neg, fmt) ELSE PackRounded(f.neg, r, be, fmt)

ToIeee(f, fmt) ==
    CASE f.kind = "nan"  -> NanWord(f.neg, fmt)
      [] f.kind = "inf"  -> InfWord(f.neg, fmt)
      [] f.kind = "zero" -> ZeroWord(f.neg)
      [] f.kind = "num"  -> ToIeeeDirect(f, fmt)

FromIeee(w, fmt, p) ==
    LET m == w.frac + (IF w.ef = 0 THEN 0 ELSE 2^fmt.mb)
        exp == IF w.ef # 0 THEN w.ef - fmt.bias + 1
               ELSE (BitsOf(m) - 1) - fmt.bias - fmt.mb + 2
    IN IF w.ef = AllOnes(fmt) THEN IF w.frac = 0 THEN Plain("inf", w.neg) ELSE NaN
       ELSE IF m = 0 THEN Plain("zero", w.neg)
       ELSE Settled(w.neg, m, exp, p)

\* A C double, read bit by bit and shifted up until the hidden bit is set.
FromDouble(w, fmt, p) ==
    LET hidden == 2^fmt.mb
        m  == IF w.ef = 0 THEN w.frac ELSE w.frac + hidden
        lz == fmt.mb + 1 - BitsOf(m)
        exp == (IF w.ef = 0 THEN 1 ELSE w.ef) - fmt.bias + 1 - lz
    IN IF w.ef = AllOnes(fmt) THEN IF w.frac = 0 THEN Plain("inf", w.neg) ELSE NaN
       ELSE IF m = 0 THEN Plain("zero", w.neg)
       ELSE Settled(w.neg, m * 2^lz, exp, p)
=============================================================================

----------------------------- MODULE NumberLaws -----------------------------
(***************************************************************************)
(* What the integers of BigInt and IntegerText are checked against: the    *)
(* integers themselves, and the value a text denotes.                      *)
(***************************************************************************)
EXTENDS IntegerText

ValueOf(n) ==
    LET mag == FoldRight(LAMBDA d, a : a * Limb + d, n.limbs, 0) IN IF n.neg THEN -mag ELSE mag
BigOf(v) == Big(v < 0, Digits(Limb, IF v < 0 THEN -v ELSE v))
Sound(n) == n.limbs = <<>> \/ Last(n.limbs) # 0

Sign(v) == IF v > 0 THEN 1 ELSE IF v < 0 THEN -1 ELSE 0
Abs(v)  == IF v < 0 THEN -v ELSE v

(* The quotient is cut towards zero, and what is left has the dividend's   *)
(* sign and is less than the divisor.                                      *)
DivisionHolds(a, b) ==
    LET d == DivRem(BigOf(a), BigOf(b))
        q == ValueOf(d.q)
        r == ValueOf(d.r)
    IN /\ q * b + r = a
       /\ Abs(r) < Abs(b)
       /\ r # 0 => Sign(r) = Sign(a)
       /\ Sound(d.q) /\ Sound(d.r)

ArithmeticHolds(a, b) ==
    LET x == BigOf(a)  y == BigOf(b)
        k == Abs(b) % 7
        g == ValueOf(Gcd(x, y))
    IN /\ Add(x, y) = BigOf(a + b)
       /\ Mul(x, y) = BigOf(a * b)
       /\ Cmp(x, y) = Sign(a - b)
       /\ SubMag(x.limbs, y.limbs).ok <=> Abs(a) >= Abs(b)
       /\ b # 0 => DivisionHolds(a, b)
       /\ a # 0 \/ b # 0 =>
             /\ g > 0 /\ a % g = 0 /\ b % g = 0
             /\ \A d \in (g + 1)..Max({1, Abs(a)}) : ~(a % d = 0 /\ b % d = 0)
       /\ ValueOf(Shl(x, k)) = a * 2^k
       /\ Abs(ValueOf(Shr(x, k))) = Abs(a) \div 2^k
       /\ ValueOf(MulPow10(x, k % 4)) = a * 10^(k % 4)
       /\ a # 0 => 2^(BitLen(x) - 1) <= Abs(a) /\ Abs(a) < 2^BitLen(x)
       /\ GetBit(x, k) = (Abs(a) \div 2^k) % 2
       /\ Abs(ValueOf(SetBit(x, k))) = Abs(a) + (1 - GetBit(x, k)) * 2^k
       /\ ToI64(x) = (IF a \in I64Min..I64Max THEN Yes(a) ELSE No)
       /\ ToU64(x) = (IF a \in 0..(Word - 1) THEN Yes(a) ELSE No)
       /\ ToI(x, 3) = (IF a \in -4..3 THEN Yes(a) ELSE No)
       /\ ToU(x, 3) = (IF a \in 0..7 THEN Yes(a) ELSE No)

-----------------------------------------------------------------------------
\* The value a text of digits denotes, and the range of a type.
Denoted(s, base) ==
    LET mag == FoldLeft(LAMBDA a, c : a * base + CharToDigit(c, base), 0, Unsigned(s, base))
    IN IF Negative(s, base) THEN -mag ELSE mag

SpellsInteger(vt, s) ==
    DigitsForBase(s, EffBase(vt)) /\ (vt.family = "uint" => ~Negative(s, EffBase(vt)))

RangeOf(vt) ==
    LET w == EffWidth(vt)
    IN IF vt.family = "uint" THEN 0..(2^w - 1) ELSE -(2^(w - 1))..(2^(w - 1) - 1)

\* What the scanner makes a number token of.
Token(s) == s \in Special \/ ValidateNumber(s)
Taken(vt, s, quoted) == (quoted \/ Token(s)) /\ Verdict(vt, s, quoted) = "none"

(* The reader takes a literal of an integer type exactly if it is an       *)
(* integer of the base that its type can hold, whatever the width; only    *)
(* the keywords nan, inf and ninf are exempt, and only bare.               *)
TakenIfItFits(vt, s, quoted) ==
    LET base == EffBase(vt)
        integer == /\ SpellsInteger(vt, s)
                   /\ ~quoted /\ base <= 14 => \A i \in DOMAIN s : s[i] \notin Exponents
    IN quoted \/ Token(s) => (Taken(vt, s, quoted) <=>
          \/ ~quoted /\ s \in Special
          \/ ~(quoted /\ vt.family = "datetime") /\ integer /\ Denoted(s, base) \in RangeOf(vt))

(* The writer lets out what the reader takes, and nothing else.            *)
WriterAgrees(vt, s, quoted) ==
    IF ~quoted THEN WriterNumber(vt, s) <=> Taken(vt, s, FALSE)
    ELSE vt.family # "datetime" => (WriterString(vt, s) <=> Taken(vt, s, TRUE))

(* A literal the reader took is in the DOM as the value it denotes, every  *)
(* getter gives that value or refuses, and its text reads back as it.      *)
StoredAsDenoted(vt, s, quoted) ==
    LET node == MakeInt(s, vt)
        v    == Denoted(s, EffBase(vt))
        text == NodeText(node, 10)
        b64  == NodeText(node, 64)
        has(r, lo, hi) == r = IF v \in lo..hi THEN Yes(v) ELSE No
    IN Taken(vt, s, quoted) /\ ~IsFloatText(s, vt, quoted) =>
          /\ node.ok
          /\ has(NodeI64(node), I64Min, I64Max) /\ has(NodeU64(node), 0, Word - 1)
          /\ has(NodeI(node, 3), -4, 3) /\ has(NodeU(node, 3), 0, 7)
          /\ Denoted(text, 10) = v
          /\ b64 = Unwritable <=> v < 0
          /\ v >= 0 => Denoted(b64, 64) = v
          /\ vt.width > WordBits => FromBigint(node.big, vt) = node

(* The helpers a program parses with take what the reader takes.           *)
HelpersAgree(vt, s, quoted) ==
    LET p == IF vt.family = "uint" THEN ParseU(s, vt) ELSE ParseI(s, vt)
        hex == EffBase(vt) = 16 /\ \E i \in DOMAIN s : s[i] \in {88, 120}
    IN EffWidth(vt) <= WordBits /\ ~hex /\ vt.family # "datetime" =>
          (p.ok <=> SpellsInteger(vt, s) /\ Denoted(s, EffBase(vt)) \in RangeOf(vt))
          /\ (p.ok => p.v = Denoted(s, EffBase(vt)))

(* Numbers written in any base are as long as asked and read back, with    *)
(* the digits the type may need and no more.                               *)
FormatsReadBack(v, base, least) ==
    LET text == IF v < 0 THEN FormatI(v, base, least) ELSE FormatU(v, base, least)
        big  == ToStr(BigOf(v), base, BufSize(BitLen(BigOf(v)), base))
    IN IF v < 0 /\ ~HasSigns(base) THEN text = Unwritable /\ big = Unwritable
       ELSE /\ Denoted(text, base) = v /\ Len(Unsigned(text, base)) >= least
            /\ big # Unwritable /\ FromStr(big, base) = BigOf(v)
            /\ least = 0 => text = big
            /\ v \in 0..(Word - 1) =>
                  \A w \in 1..WordBits : v = 2^w - 1 => MinDigits(Type("uint", w, base)) = Len(big)

(* A converted value's type is the one declared, or the narrowest there is *)
(* that holds it.                                                          *)
WidenedHolds(vt, v) ==
    LET wide == Widened(vt, BigOf(v))
    IN /\ v \in RangeOf(wide)
       /\ v \in RangeOf(vt) => wide = vt
       /\ wide.width # vt.width /\ wide.width > 8 =>
             v \notin RangeOf([wide EXCEPT !.width = @ \div 2])
=============================================================================

------------------------------- MODULE BigInt -------------------------------
(***************************************************************************)
(* Integers of any width (bvn_int.c): a sign and a magnitude of limbs,     *)
(* least significant first, with no zero limb on top.  Every operation     *)
(* works limb by limb, as the code does.                                   *)
(***************************************************************************)
EXTENDS Integers, SequencesExt

CONSTANTS
    LimbBits,      \* bound: the 32 bits of a limb
    MaxLimbs       \* bound: BVN_INT_MAX_LIMBS

ASSUME BigIntAssumption == LimbBits > 1 /\ MaxLimbs > 2

Limb     == 2^LimbBits
WordBits == 2 * LimbBits      \* the 64 bits of a machine word
Word     == 2^WordBits
I64Max   == (Word \div 2) - 1
I64Min   == -(Word \div 2)

Big(neg, limbs) == [neg |-> neg, limbs |-> limbs]
Zero       == Big(FALSE, <<>>)
IsZero(n)  == n.limbs = <<>>
Refused    == [neg |-> FALSE, limbs |-> <<-1>>]     \* the call returned false

\* bigint_ensure_cap
Fits(n) == IF Len(n.limbs) <= MaxLimbs THEN n ELSE Refused

\* bvn_int_norm: limbs that are zero on top are dropped, the sign is left.
Trim(limbs) == SubSeq(limbs, 1, Max({0} \cup {i \in DOMAIN limbs : limbs[i] # 0}))
Norm(n) == [n EXCEPT !.limbs = Trim(@)]

At(limbs, i) == IF i \in DOMAIN limbs THEN limbs[i] ELSE 0

-----------------------------------------------------------------------------
\* Digits of radix r, least significant first, times mul plus add.
Digits(r, c) == LET f[x \in Nat] == IF x = 0 THEN <<>> ELSE <<x % r>> \o f[x \div r] IN f[c]

MulAddDigits(r, ds, mul, add) ==
    LET step(a, d) == [out |-> Append(a.out, (d * mul + a.carry) % r),
                       carry |-> (d * mul + a.carry) \div r]
        done == FoldLeft(step, [out |-> <<>>, carry |-> add], ds)
    IN done.out \o Digits(r, done.carry)

\* Divided by d, from the top: the quotient's digits and the remainder.
DivDigits(r, ds, d) ==
    FoldRight(LAMBDA x, a : [out |-> <<(a.rem * r + x) \div d>> \o a.out,
                             rem |-> (a.rem * r + x) % d],
              ds, [out |-> <<>>, rem |-> 0])

\* bigint_mul_add_word, _mul_u32, _add_u32 and _div_u32.
MulAddWord(n, mul, add) == Fits([n EXCEPT !.limbs = MulAddDigits(Limb, @, mul, add)])
MulU32(n, v) == IF v = 0 THEN Zero ELSE MulAddWord(n, v, 0)
AddU32(n, v) == Fits([n EXCEPT !.limbs = MulAddDigits(Limb, @, 1, v)])
DivU32(n, v) ==
    LET d == DivDigits(Limb, n.limbs, v)
    IN [quot |-> Norm([n EXCEPT !.limbs = d.out]), rem |-> d.rem]

\* bvn_int_mul_pow10, nine digits at a time; here as many as a limb holds.
PowStep == Max({k \in 1..LimbBits : 10^k < Limb * 10})
MulPow10(n, k) ==
    LET f[i \in Nat] == IF i = 0 THEN n
                        ELSE IF i >= PowStep THEN MulAddWord(f[i - PowStep], 10^PowStep, 0)
                        ELSE MulAddWord(f[0], 10^i, 0)
    IN f[k]

-----------------------------------------------------------------------------
\* Machine words and the widths below them.
FromU64(v) == Big(FALSE, Digits(Limb, v))
FromI64(v) == Big(v < 0, Digits(Limb, IF v < 0 THEN -v ELSE v))

No == [ok |-> FALSE, v |-> 0]
Yes(v) == [ok |-> TRUE, v |-> v]

Magnitude(n) == At(n.limbs, 1) + Limb * At(n.limbs, 2)
ToU64(n) == IF n.neg \/ Len(n.limbs) > 2 THEN No ELSE Yes(Magnitude(n))
ToI64(n) ==
    IF IsZero(n) THEN Yes(0)
    ELSE IF Len(n.limbs) > 2 \/ Magnitude(n) > (IF n.neg THEN I64Max + 1 ELSE I64Max) THEN No
    ELSE Yes(IF n.neg THEN -Magnitude(n) ELSE Magnitude(n))

\* bvn_int_to_uint32 and its kin: the 64-bit value, if it fits the bits.
WithinU(v, bits) == v <= 2^bits - 1
WithinI(v, bits) == v >= -(2^(bits - 1)) /\ v <= 2^(bits - 1) - 1
ToU(n, bits) == LET w == ToU64(n) IN IF w.ok /\ WithinU(w.v, bits) THEN w ELSE No
ToI(n, bits) == LET w == ToI64(n) IN IF w.ok /\ WithinI(w.v, bits) THEN w ELSE No

-----------------------------------------------------------------------------
\* bvn_int_shl: bits within the limbs first, then whole limbs.
Shl(n, bits) ==
    IF IsZero(n) \/ bits <= 0 THEN n
    ELSE LET by == MulAddDigits(Limb, n.limbs, 2^(bits % LimbBits), 0)
         IN Norm(Fits([n EXCEPT !.limbs = [i \in 1..(bits \div LimbBits) |-> 0] \o by]))

\* bvn_int_shr: whole limbs first; a number shifted out whole is zero.
Shr(n, bits) ==
    LET ws == bits \div LimbBits
        d  == 2^(bits % LimbBits)
        kept == SubSeq(n.limbs, ws + 1, Len(n.limbs))
    IN IF bits <= 0 \/ IsZero(n) THEN n
       ELSE IF ws >= Len(n.limbs) THEN Zero
       ELSE Norm([n EXCEPT !.limbs =
                [i \in DOMAIN kept |->
                    (kept[i] \div d + At(kept, i + 1) * (Limb \div d)) % Limb]])

BitLen(n) ==
    IF IsZero(n) THEN 0
    ELSE (Len(n.limbs) - 1) * LimbBits + Len(Digits(2, Last(n.limbs)))

GetBit(n, i) ==
    IF i < 0 THEN 0 ELSE (At(n.limbs, (i \div LimbBits) + 1) \div 2^(i % LimbBits)) % 2

SetBit(n, i) ==
    LET wi == (i \div LimbBits) + 1
        wide == n.limbs \o [j \in 1..Max({0, wi - Len(n.limbs)}) |-> 0]
    IN IF i < 0 THEN Refused
       ELSE IF GetBit(n, i) = 1 THEN n
       ELSE Fits([n EXCEPT !.limbs = [wide EXCEPT ![wi] = @ + 2^(i % LimbBits)]])

-----------------------------------------------------------------------------
\* bigint_cmpmag, of trimmed limbs: the longer, or the first that differs
\* from the top.
CmpMag(a, b) ==
    LET differ == {i \in DOMAIN a : a[i] # b[i]}
    IN IF Len(a) # Len(b) THEN IF Len(a) > Len(b) THEN 1 ELSE -1
       ELSE IF differ = {} THEN 0
       ELSE IF a[Max(differ)] > b[Max(differ)] THEN 1 ELSE -1

Cmp(a, b) ==
    IF a.neg # b.neg THEN IF IsZero(a) /\ IsZero(b) THEN 0 ELSE IF a.neg THEN -1 ELSE 1
    ELSE IF a.neg THEN -CmpMag(a.limbs, b.limbs) ELSE CmpMag(a.limbs, b.limbs)

\* bigint_addmag_into
AddMag(a, b) ==
    LET n == Max({Len(a), Len(b)})
        step(acc, i) == LET s == At(a, i) + At(b, i) + acc.carry
                        IN [out |-> Append(acc.out, s % Limb), carry |-> s \div Limb]
        done == FoldLeft(step, [out |-> <<>>, carry |-> 0], [i \in 1..n |-> i])
    IN Trim(Append(done.out, done.carry))

\* bvn_int_sub_inplace: the difference, and whether there was enough.
SubMag(a, b) ==
    LET n == Max({Len(a), Len(b)})
        step(acc, i) == LET d == At(a, i) - acc.borrow - At(b, i)
                        IN [out |-> Append(acc.out, d % Limb), borrow |-> IF d < 0 THEN 1 ELSE 0]
        done == FoldLeft(step, [out |-> <<>>, borrow |-> 0], [i \in 1..n |-> i])
    IN [ok |-> done.borrow = 0 /\ Len(b) <= Len(a), limbs |-> Trim(done.out)]

Add(a, b) ==
    LET signed(neg, limbs) == Fits(Big(neg /\ limbs # <<>>, limbs))
        c == CmpMag(a.limbs, b.limbs)
    IN IF a.neg = b.neg THEN signed(a.neg, AddMag(a.limbs, b.limbs))
       ELSE IF c = 0 THEN Zero
       ELSE IF c > 0 THEN signed(a.neg, SubMag(a.limbs, b.limbs).limbs)
       ELSE signed(b.neg, SubMag(b.limbs, a.limbs).limbs)

\* bvn_int_mul: one row of products after another.
Mul(a, b) ==
    LET row(i) == [j \in 1..(i - 1) |-> 0] \o MulAddDigits(Limb, b.limbs, a.limbs[i], 0)
        sum == FoldLeft(LAMBDA acc, i : AddMag(acc, Trim(row(i))), <<>>,
                        [i \in DOMAIN a.limbs |-> i])
    IN IF IsZero(a) \/ IsZero(b) THEN Zero ELSE Fits(Big(a.neg # b.neg, sum))

-----------------------------------------------------------------------------
\* One digit of long division: the n + 1 limbs w by the n limbs v, the top
\* of v at least half a limb.  Guess from the tops, correct the guess, and
\* if it was one too many add v back.
Guess(w, v) ==
    LET n   == Len(v)
        hi  == w[n + 1]
        q0  == IF hi >= v[n] THEN Limb - 1 ELSE (hi * Limb + w[n]) \div v[n]
        r0  == IF hi >= v[n] THEN w[n] + v[n] ELSE (hi * Limb + w[n]) % v[n]
        f[q \in 0..(Limb - 1), r \in Nat] ==
            IF r < Limb /\ q * v[n - 1] > r * Limb + w[n - 1] THEN f[q - 1, r + v[n]] ELSE q
    IN f[q0, r0]

\* w less q times v, in place, and the borrow left over.
MulSub(w, v, q) ==
    LET step(a, i) ==
            LET prod == q * At(v, i) + a.carry
                d    == w[i] - (prod % Limb) - a.borrow
            IN [out |-> Append(a.out, d % Limb), carry |-> prod \div Limb,
                borrow |-> IF d < 0 THEN 1 ELSE 0]
    IN FoldLeft(step, [out |-> <<>>, carry |-> 0, borrow |-> 0], [i \in DOMAIN w |-> i])

AddBack(w, v) == SubSeq(AddMag(w, v) \o [i \in DOMAIN w |-> 0], 1, Len(w))

\* A mutant for the checks: a guess one too many is kept.
DigitStepKept(w, v) ==
    LET q == Guess(w, v) IN [q |-> q, w |-> MulSub(w, v, q).out]

DigitStep(w, v) ==
    LET q   == Guess(w, v)
        sub == MulSub(w, v, q)
    IN IF sub.borrow = 0 THEN [q |-> q, w |-> sub.out]
       ELSE [q |-> q - 1, w |-> AddBack(sub.out, v)]

\* The shift that brings the divisor's top limb to half a limb.
Scale(top) == CHOOSE s \in 0..LimbBits : top * 2^s >= Limb \div 2 /\ top * 2^s < Limb

\* bvn_int_divrem, two limbs and more.
LongDivide(a, b) ==
    LET s == Scale(Last(b.limbs))
        n == Len(b.limbs)
        wide == MulAddDigits(Limb, a.limbs, 2^s, 0)
        u == wide \o [i \in 1..(Len(a.limbs) + 1 - Len(wide)) |-> 0]
        v == MulAddDigits(Limb, b.limbs, 2^s, 0)
        \* the window is put back limb by limb, and nothing above it is read again
        put(acc, j) ==
            LET d == DigitStep(SubSeq(acc.u, j, j + n), v)
            IN [u |-> SubSeq(acc.u, 1, j - 1) \o d.w, q |-> <<d.q>> \o acc.q]
        m == Len(a.limbs) - n
        done == FoldLeft(put, [u |-> u, q |-> <<>>], [i \in 1..(m + 1) |-> m + 2 - i])
    IN [q |-> Norm(Big(a.neg # b.neg, done.q)),
        r |-> Norm(Big(a.neg, DivDigits(Limb, SubSeq(done.u, 1, n), 2^s).out))]

DivRem(a, b) ==
    LET c == CmpMag(a.limbs, b.limbs)
        d == DivU32(Big(a.neg # b.neg, a.limbs), b.limbs[1])
    IN IF IsZero(a) THEN [q |-> Zero, r |-> Zero]
       ELSE IF c < 0 THEN [q |-> Zero, r |-> a]
       ELSE IF c = 0 THEN [q |-> Big(a.neg # b.neg, <<1>>), r |-> Zero]
       ELSE IF Len(b.limbs) = 1
       THEN [q |-> d.quot, r |-> IF d.rem = 0 THEN Zero ELSE Big(a.neg, <<d.rem>>)]
       ELSE LongDivide(a, b)

\* Euclid on the magnitudes.
RECURSIVE Euclid(_, _)
Euclid(x, y) == IF IsZero(y) THEN x ELSE Euclid(y, [DivRem(x, y).r EXCEPT !.neg = FALSE])
Gcd(a, b) == Euclid([a EXCEPT !.neg = FALSE], [b EXCEPT !.neg = FALSE])
=============================================================================

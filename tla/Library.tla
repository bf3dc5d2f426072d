------------------------------- MODULE Library -------------------------------
(***************************************************************************)
(* The pure functions of the library, each on inputs of its own: one step  *)
(* calls one of them, and the properties judge what it answers.            *)
(***************************************************************************)
EXTENDS CivilTime, NumberLaws, FloatLaws, Input

CONSTANTS
    Days, Years, Months,        \* days, years and <<year, month>> to date
    ClockDays,                  \* days whose clocks are watched
    Leaps, Seconds, Weeks,      \* TAI seconds, <<epoch, seconds>>, <<week, ms>>
    Literals,                   \* <<literal, epoch>>
    Pairs,                      \* pairs of integers
    Texts,                      \* <<type, text, whether it is quoted>>
    Figures,                    \* <<integer, base, least digits>>
    Widenings,                  \* <<type, integer>>
    Shapes,                     \* a precision, binary and decimal formats, fixed point
    FloatTexts, FloatValues,    \* <<literal or float, shape>>
    Documents,                  \* <<bytes, limits>>
    TypedDocuments,             \* tokens
    MaxArrays

Typing == INSTANCE TypeLaws

VARIABLE subject    \* <<what is called, its input>>

Call(what, inputs) == subject = <<"none">> /\ \E x \in inputs : subject' = <<what, x>>

LibraryInit == subject = <<"none">>

LibraryNext ==
    \/ Call("day", Days) \/ Call("year", Years) \/ Call("month", Months)
    \/ Call("clock", ClockDays) \/ Call("tai", Leaps) \/ Call("seconds", Seconds)
    \/ Call("week", Weeks) \/ Call("literal", Literals)
    \/ Call("pair", Pairs) \/ Call("text", Texts) \/ Call("figure", Figures)
    \/ Call("widen", Widenings)
    \/ Call("document", Documents) \/ Call("typed", TypedDocuments)
    \/ Call("float text", FloatTexts) \/ Call("float", FloatValues) \/ Call("formats", Shapes)

LibrarySpec == LibraryInit /\ [][LibraryNext]_subject

\* A property is about what a call answers: about a step, not a state.
Is(what) == subject'[1] = what
Given    == subject'[2]

-----------------------------------------------------------------------------
(* Dates and instants: days follow one another as the calendar has it,     *)
(* Easter and the banking days are where they are, clocks change where the *)
(* dates say, no two TAI seconds share a civil time, and what is written   *)
(* of an instant is read as that instant.                                  *)
CivilTimeAgrees ==
    [][/\ Is("day")     => DaysFollow(Given)
       /\ Is("year")    => EasterFalls(Given)
       /\ Is("month")   => BankingDaysFound(Given[1], Given[2])
       /\ Is("clock")   => ClocksInStep(Given)
       /\ Is("tai")     => SecondsApart(Given) /\ LeapSecondsFirst
       /\ Is("seconds") => SecondsInvert(Given[1], Given[2])
       /\ Is("week")    => SatellitesAgree(Given[1], Given[2])
       /\ Is("literal") => LiteralReadsBack(Given[1], Given[2])]_subject

(* Integers: the limbs compute what the integers do; a literal is taken,   *)
(* let out, parsed, stored and given back as the value it denotes or       *)
(* refused, in every base and width.                                       *)
NumbersAgree ==
    [][/\ Is("pair")    => ArithmeticHolds(Given[1], Given[2])
       /\ Is("text")    =>
             /\ TakenIfItFits(Given[1], Given[2], Given[3])
             /\ WriterAgrees(Given[1], Given[2], Given[3])
             /\ StoredAsDenoted(Given[1], Given[2], Given[3])
             /\ HelpersAgree(Given[1], Given[2], Given[3])
       /\ Is("figure")  => FormatsReadBack(Given[1], Given[2], Given[3])
       /\ Is("widen")   => WidenedHolds(Given[1], Given[2])]_subject

(* Floats: every literal is rounded once, to the nearest there is, into    *)
(* each format; what is written of a float reads back as it, in the fewest *)
(* digits; every word is kept; and fixed point takes what is in its range. *)
FloatsAgree ==
    [][/\ Is("float text") =>
             LET lit == Given[1]  sh == Given[2]
             IN /\ ReadsNearest(lit, sh.p)
                /\ PacksNearest(lit, sh.bin)
                /\ lit.base = 10 => PacksDecimal(lit, sh.dec)
                /\ lit.base = 10 /\ Decidable(lit, sh.total, sh.frac) =>
                      FixTaken(lit, sh.total, sh.frac)
       /\ Is("float") =>
             LET f == Given[1]  sh == Given[2]
             IN /\ WritesBack(f)
                /\ EncodesOnce(f, sh.dec)
                /\ FixKept(f, sh.total, sh.frac, sh.p)
                /\ StrToIeee(FloatToStr(f, 16), sh.bin) = ToIeee(f, sh.bin)
       /\ Is("formats") =>
             LET sh == Given
             IN /\ \A neg \in BOOLEAN, ef \in 0..AllOnes(sh.bin), frac \in 0..(2^sh.bin.mb - 1) :
                      WordsKept(Packed(neg, ef, frac), sh.bin, sh.p)
                /\ \A neg \in BOOLEAN, bits \in 0..(2^(sh.dec.eb + sh.dec.cb) - 1) :
                      DecimalKept(DecWord(neg, bits), sh.dec, sh.p)]_subject

(* The reader's input: one document, one outcome, whatever the pieces and  *)
(* the runs it is read in; errors stand where they say; and skipped_bytes  *)
(* is what recovery threw away.                                            *)
InputAgrees ==
    [][Is("document") => /\ PiecesAgree(Given[1], Given[2])
                         /\ ErrorsPoint(Given[1], Given[2])
                         /\ SkipsCounted(Given[1], Given[2])]_subject

(* Types and units: every value is told with those written for it, in its  *)
(* own annotation or around it, and what the canonical observer makes of   *)
(* the events says the same and is its own canonical form.  But for        *)
(* documents in which a type outlives the statement it was found in.       *)
TypesAgree ==
    [][Is("typed") => /\ ~Typing!OutlivesError(Given) => Typing!ToldAsWritten(Given)
                      /\ Typing!CanonReadsBack(Given)]_subject

(* bovnar_validator.c:1368: the inferred type resets per assignment, so it *)
(* only ever governs one array; recovery does not reset it.                *)
TypesReset == [][Is("typed") => Typing!ToldAsWritten(Given)]_subject

(* doc/03_bovnar_spec.md:1206: a float_fix value must be representable in  *)
(* the format, nothing is said of how many digits it is written with; the  *)
(* code cannot shift a long numerator and refuses the value.               *)
FixDecidedByValue ==
    [][Is("float text") => FixTaken(Given[1], Given[2].total, Given[2].frac)]_subject

(* bvn_int.c:44 says that zero is never negative and that bvn_int_norm     *)
(* restores that form: the remainder of a division is such a zero.         *)
ZeroIsUnsigned ==
    [][Is("pair") /\ Given[2] # 0 =>
           LET r == DivRem(BigOf(Given[1]), BigOf(Given[2])).r IN ~(IsZero(r) /\ r.neg)]_subject
=============================================================================

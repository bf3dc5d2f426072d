------------------------------ MODULE Calendar ------------------------------
(***************************************************************************)
(* Civil days (bvn_gregorian_date.c).  A day is its modified Julian day    *)
(* number, a date a record [year, month, day] whose fields may lie outside *)
(* their ranges; a full date also has the day of week, of year and leap.   *)
(***************************************************************************)
EXTENDS Integers, FiniteSetsExt

CONSTANTS
    MjdMin, MjdMax,    \* bound: BVN_GDATE_MJD_MIN and _MAX
    YearMin, YearMax   \* bound: BVN_GDATE_YEAR_MIN and _MAX

ASSUME CalendarAssumption == MjdMin < MjdMax /\ YearMin < YearMax

Ovf == -2147483647     \* BVN_GDATE_OVF, which is INT64_MIN: no day and no second is it

MjdOffset == 678881

Supported(mjd) == mjd \in MjdMin..MjdMax

-----------------------------------------------------------------------------
\* mjd_decompose: the 400 years, the year in them, its day, and its month,
\* all counted from 1 March.
Parts(mjd) ==
    LET shifted == mjd + MjdOffset
        era == shifted \div 146097
        doe == shifted % 146097
        yoe == (doe - doe \div 1460 + doe \div 36524 - doe \div 146096) \div 365
        doy == doe - (365 * yoe + yoe \div 4 - yoe \div 100)
    IN [era |-> era, yoe |-> yoe, doy |-> doy, m |-> (5 * doy + 2) \div 153]

\* yoe_is_leap
YoeIsLeap(yoe) == IF yoe % 4 = 0 /\ (yoe % 100 # 0 \/ yoe = 0) THEN 1 ELSE 0

\* The day number the fields add up to, months counted on into other years.
FieldsToMjd(g) ==
    LET m   == ((g.month - 1) % 12) + 1
        jf  == IF m < 3 THEN 1 ELSE 0
        yy  == g.year + (g.month - 1) \div 12 - jf
        mm  == m + 12 * jf - 3
        era == yy \div 400
        yoe == yy % 400
    IN era * 146097 + yoe * 365 + yoe \div 4 - yoe \div 100 + (153 * mm + 2) \div 5
         + g.day - 1 - MjdOffset

\* bvn_gregorian_date_to_mjd; _to_mjd_fast is FieldsToMjd.
ToMjd(g) == IF Supported(FieldsToMjd(g)) THEN FieldsToMjd(g) ELSE Ovf

Ymd(y, m, d) == [year |-> y, month |-> m, day |-> d]
EndOfMonth(y, m) == ToMjd(Ymd(y, m + 1, 0))

\* bvn_gregorian_date_mjd_to_wday: 0 is Sunday.
Wday(mjd) == LET r == (mjd % 7) + 3 IN IF r >= 7 THEN r - 7 ELSE r

Yday(p) ==
    LET jf == IF p.m >= 10 THEN 1 ELSE 0
        leap == YoeIsLeap(p.yoe)
    IN p.doy + 59 + leap - jf * (365 + leap)

\* The year of a day, in the 400, counted from 1 January.
YoeCal(p) ==
    LET y == p.yoe + (IF p.m >= 10 THEN 1 ELSE 0) IN IF y = 400 THEN 0 ELSE y

Leap(p) == YoeIsLeap(YoeCal(p))

\* bvn_gregorian_date_from_mjd, into a record that was g before.
FromMjd(g, mjd) ==
    IF ~Supported(mjd) THEN g
    ELSE LET p == Parts(mjd)
             jf == IF p.m >= 10 THEN 1 ELSE 0
         IN [year |-> p.era * 400 + p.yoe + jf, month |-> p.m + 3 - 12 * jf,
             day |-> p.doy - (153 * p.m + 2) \div 5 + 1,
             wday |-> Wday(mjd), yday |-> Yday(p), leap |-> Leap(p)]

Unset == [year |-> 0, month |-> 0, day |-> 0, wday |-> 0, yday |-> 0, leap |-> 0]
DateOf(mjd) == FromMjd(Unset, mjd)

\* bvn_gregorian_date_normalize
Normalizes(g) == ToMjd(g) # Ovf
Normalized(g) == DateOf(ToMjd(g))

-----------------------------------------------------------------------------
\* bvn_gregorian_date_easter_sunday_mjd
Easter(year) ==
    IF year \notin YearMin..YearMax THEN Ovf
    ELSE LET a == year % 19
             b == year \div 100
             c == year % 100
             h == (19 * a + b - b \div 4 - (b - (b + 8) \div 25 + 1) \div 3 + 15) % 30
             l == (32 + 2 * (b % 4) + 2 * (c \div 4) - h - (c % 4)) % 7
             n == h + l - 7 * ((a + 11 * h + 22 * l) \div 451) + 114
         IN FieldsToMjd(Ymd(year, n \div 31, (n % 31) + 1))

\* easter_plus: Good Friday is -2, Whit Monday 50; an unsupported day leaves g.
EasterPlus(g, year, offset) ==
    IF Easter(year) = Ovf THEN g ELSE FromMjd(g, Easter(year) + offset)

\* federal_holiday_canon
Holiday(c) ==
    \/ c.month = 1 /\ c.day = 1
    \/ c.month = 5 /\ c.day = 1 /\ c.year >= 1933
    \/ c.month = 6 /\ c.day = 17 /\ c.year \in 1954..1989
    \/ c.month = 10 /\ c.day = 3 /\ c.year >= 1990
    \/ c.month = 12 /\ c.day \in {25, 26}
    \/ Easter(c.year) # Ovf /\ FieldsToMjd(c) - Easter(c.year) \in {-2, 1, 39, 50}

\* banking_day_canon
BankingDay(c) ==
    /\ c.wday \notin {0, 6}
    /\ ~(c.month = 12 /\ c.day \in {24, 31})
    /\ ~Holiday(c)

\* The public predicates judge the day a date normalises to.
IsHoliday(g)     == Normalizes(g) /\ Holiday(Normalized(g))
IsBankingDay(g)  == Normalizes(g) /\ BankingDay(Normalized(g))
IsBusinessDay(g) == Normalizes(g) /\ Normalized(g).wday # 0 /\ ~Holiday(Normalized(g))

-----------------------------------------------------------------------------
\* seed_walk and walk_until: the first day from seed on, in steps of 1 or -1,
\* that Test holds of; Ovf when the range ends before.
Walk(seed, step, Test(_)) ==
    IF ~Supported(seed) THEN Ovf
    ELSE LET walked[mjd \in Int] ==
                 IF ~Supported(mjd) THEN Ovf
                 ELSE IF Test(DateOf(mjd)) THEN mjd ELSE walked[mjd + step]
         IN walked[seed]

WalkBanking(seed, step) == Walk(seed, step, BankingDay)
WalkSunday(seed) == Walk(seed, -1, LAMBDA c : c.wday = 0)
WalkSaturday(seed) == Walk(seed, -1, LAMBDA c : c.wday = 6)

\* get_walk_day: a walk that fails leaves res.
Got(res, mjd) == IF mjd = Ovf THEN res ELSE DateOf(mjd)

\* The bvn_gregorian_date_get_* family, on the month of date g.
GetLastBanking(res, g) ==
    IF ~Normalizes(g) THEN res
    ELSE LET c == Normalized(g) IN Got(res, WalkBanking(EndOfMonth(c.year, c.month), -1))

GetPenultimateBanking(res, g) ==
    IF ~Normalizes(g) THEN res
    ELSE LET c    == Normalized(g)
             last == WalkBanking(EndOfMonth(c.year, c.month), -1)
         IN IF last = Ovf THEN res ELSE Got(res, WalkBanking(last - 1, -1))

GetBankingFrom(res, g, d) ==
    IF ~Normalizes(g) THEN res
    ELSE LET c == Normalized(g) IN Got(res, WalkBanking(ToMjd(Ymd(c.year, c.month, d)), 1))

GetFirstBanking(res, g) == GetBankingFrom(res, g, 1)
GetMidBanking(res, g)   == GetBankingFrom(res, g, 15)

GetLastSunday(res, g) ==
    IF ~Normalizes(g) THEN res
    ELSE LET c == Normalized(g) IN Got(res, WalkSunday(EndOfMonth(c.year, c.month)))

GetLastSaturday(res, g) ==
    IF ~Normalizes(g) THEN res
    ELSE LET c == Normalized(g) IN Got(res, WalkSaturday(EndOfMonth(c.year, c.month)))

GetLastBankingOfQuarter(q, res, g) ==
    IF q \notin 1..4 \/ ~Normalizes(g) THEN res
    ELSE Got(res, WalkBanking(EndOfMonth(Normalized(g).year, 3 * q), -1))

GetFirstBankingOfQuarter(q, res, g) ==
    IF q \notin 1..4 \/ ~Normalizes(g) THEN res
    ELSE Got(res, WalkBanking(ToMjd(Ymd(Normalized(g).year, 3 * (q - 1) + 1, 1)), 1))

\* The bvn_gregorian_date_is_* predicates: g is the day the getter gives.
SameDay(a, b) == a.year = b.year /\ a.month = b.month /\ a.day = b.day

IsGot(Get(_, _), g) ==
    Normalizes(g) /\ SameDay(Get(Unset, Normalized(g)), Normalized(g))

IsGotOfQuarter(Get(_, _, _), q, g) ==
    q \in 1..4 /\ Normalizes(g) /\ SameDay(Get(q, Unset, Normalized(g)), Normalized(g))

-----------------------------------------------------------------------------
\* bvn_de_dst_end_month
SummerEndMonth(year) == IF year < 1980 THEN 0 ELSE IF year >= 1996 THEN 10 ELSE 9

\* bvn_de_is_last_sunday
IsLastSunday(c, month) ==
    /\ c.month = month /\ c.wday = 0
    /\ EndOfMonth(c.year, month) # Ovf
    /\ FieldsToMjd(c) + 7 > EndOfMonth(c.year, month)

SummerStarts(c) ==
    /\ c.year >= 1980
    /\ IF c.year = 1980 THEN c.month = 4 /\ c.day = 6 ELSE IsLastSunday(c, 3)

SummerEnds(c) == SummerEndMonth(c.year) # 0 /\ IsLastSunday(c, SummerEndMonth(c.year))

IsSwitchDay(g) ==
    Normalizes(g) /\ (SummerStarts(Normalized(g)) \/ SummerEnds(Normalized(g)))

IsDayBeforeSwitch(g) ==
    /\ Normalizes(g) /\ ToMjd(g) # MjdMax
    /\ LET next == DateOf(ToMjd(g) + 1) IN SummerStarts(next) \/ SummerEnds(next)
=============================================================================

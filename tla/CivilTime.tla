------------------------------ MODULE CivilTime ------------------------------
(***************************************************************************)
(* What the dates and instants of Calendar and Instants are checked        *)
(* against: the Gregorian calendar told day by day, Easter from the golden *)
(* number and the epact, banking days found by looking at every day.       *)
(***************************************************************************)
EXTENDS Instants

IsLeapYear(y) == (y % 4 = 0 /\ y % 100 # 0) \/ y % 400 = 0

DaysIn(y, m) ==
    CASE m = 2 -> IF IsLeapYear(y) THEN 29 ELSE 28
      [] m \in {4, 6, 9, 11} -> 30
      [] OTHER -> 31

NextDay(c) ==
    IF c.day < DaysIn(c.year, c.month) THEN Ymd(c.year, c.month, c.day + 1)
    ELSE IF c.month < 12 THEN Ymd(c.year, c.month + 1, 1) ELSE Ymd(c.year + 1, 1, 1)

(* A day number and its date are one and the same, and days follow one     *)
(* another as the calendar has it: month ends, leap years, the day of the  *)
(* week and of the year; fields out of their ranges count on.              *)
DaysFollow(mjd) ==
    LET c == DateOf(mjd)
        n == DateOf(mjd + 1)
    IN /\ ToMjd(c) = mjd
       /\ SameDay(n, NextDay(c))
       /\ n.wday = (c.wday + 1) % 7
       /\ n.yday = IF c.month = 12 /\ c.day = 31 THEN 0 ELSE c.yday + 1
       /\ c.leap = IF IsLeapYear(c.year) THEN 1 ELSE 0
       /\ ToMjd([c EXCEPT !.month = @ - 12, !.year = @ + 1]) = mjd
       /\ ToMjd([c EXCEPT !.day = 1]) + c.day - 1 = mjd
       /\ FromMjd(c, MjdMax + 1) = c

\* Easter by golden number and epact.
Computus(y) ==
    LET golden == (y % 19) + 1
        cent   == (y \div 100) + 1
        solar  == ((3 * cent) \div 4) - 12
        lunar  == ((8 * cent + 5) \div 25) - 5
        sunday == ((5 * y) \div 4) - solar - 10
        e0     == (11 * golden + 20 + lunar - solar) % 30
        epact  == IF e0 = 24 \/ (e0 = 25 /\ golden > 11) THEN e0 + 1 ELSE e0
        moon   == IF 44 - epact < 21 THEN 74 - epact ELSE 44 - epact
        day    == moon + 7 - ((sunday + moon) % 7)
    IN IF day > 31 THEN Ymd(y, 4, day - 31) ELSE Ymd(y, 3, day)

EasterFalls(y) ==
    /\ SameDay(DateOf(Easter(y)), Computus(y))
    /\ SameDay(EasterPlus(Unset, y, -2), DateOf(ToMjd(Computus(y)) - 2))
    /\ ~IsBankingDay(EasterPlus(Unset, y, 1)) /\ IsHoliday(EasterPlus(Unset, y, 39))

MonthDays(y, m) == {DateOf(ToMjd(Ymd(y, m, d))) : d \in 1..DaysIn(y, m)}
FirstOf(days) == CHOOSE c \in days : \A o \in days : c.day <= o.day
LastOf(days)  == CHOOSE c \in days : \A o \in days : c.day >= o.day

(* The getters find what looking at every day of the month finds, for a    *)
(* date given out of range too, and the predicates say the same.           *)
BankingDaysFound(y, m) ==
    LET days    == MonthDays(y, m)
        banking == {c \in days : BankingDay(c)}
        last    == LastOf(banking)
        before  == LastOf(banking \ {last})
        mid     == FirstOf({c \in banking : c.day >= 15})
        g       == Ymd(y + 1, m - 13, DaysIn(y, IF m = 1 THEN 12 ELSE m - 1) + 9)
        \* the 9th of the month, counted from the month before of the year after
        q       == ((m - 1) \div 3) + 1
    IN /\ GetLastBanking(Unset, g) = last
       /\ GetPenultimateBanking(Unset, g) = before
       /\ GetFirstBanking(Unset, g) = FirstOf(banking)
       /\ GetMidBanking(Unset, g) = mid
       /\ GetLastSunday(Unset, g) = LastOf({c \in days : c.wday = 0})
       /\ GetLastSaturday(Unset, g) = LastOf({c \in days : c.wday = 6})
       /\ \A c \in days :
             /\ IsGot(GetLastBanking, c) <=> c = last
             /\ IsGot(GetPenultimateBanking, c) <=> c = before
             /\ IsGot(GetMidBanking, c) <=> c = mid
             /\ IsGotOfQuarter(GetLastBankingOfQuarter, q, c) <=> c = last /\ m % 3 = 0
             /\ IsGotOfQuarter(GetFirstBankingOfQuarter, q, c) <=>
                   c = FirstOf(banking) /\ m % 3 = 1
             /\ IsBankingDay(c) => IsBusinessDay(c)

-----------------------------------------------------------------------------
(* The clocks change on a day exactly when the day begins and ends on      *)
(* different sides of summer time: the dates' table and the instants' are  *)
(* in step.                                                                *)
ClocksInStep(mjd) ==
    LET begin == UtcToTai([NoTime EXCEPT !.date = DateOf(mjd)])
        end   == UtcToTai([NoTime EXCEPT !.date = DateOf(mjd), !.hour = 23])
    IN /\ (IsSummer(begin) # IsSummer(end)) <=> IsSwitchDay(DateOf(mjd))
       /\ IsDayBeforeSwitch(DateOf(mjd)) <=> IsSwitchDay(DateOf(mjd + 1))

(* The leap seconds begin on the first of January or July, one at a time.  *)
LeapSecondsFirst ==
    \A i \in DOMAIN LeapTable :
        LET c == FromEpochSeconds(NoTime, Tai, LeapTable[i][1])
        IN c.date.day = 1 /\ c.date.month \in {1, 7} /\ c.hour + c.minute + c.second = 0

(* Every second on TAI has a civil time of its own, leap seconds included, *)
(* that reads back as that second, in Greenwich and elsewhere; only an     *)
(* inserted one is written :60.                                            *)
SecondsApart(tai) ==
    LET utc   == TaiToUtc(NoTime, tai)
        local == TaiToLocal(NoTime, tai, 5400, TRUE)
    IN /\ UtcToTai(utc) = tai
       /\ TaiToUtc(NoTime, tai + 1) # utc
       /\ utc.second = 60 <=> IsInsertedLeap(tai)
       /\ local.second = utc.second
       /\ UtcToTai([local EXCEPT !.minute = @ - 150]) = tai

(* Seconds and civil time are each other's inverse on every epoch, as far  *)
(* as the integers go and no further; epochs convert without a detour.     *)
SecondsInvert(epoch, secs) ==
    LET dt == FromEpochSeconds(NoTime, epoch, secs)
        to == ConvertEpoch(epoch, Unix, secs)
    IN /\ ToEpochSeconds(dt, epoch) = secs
       /\ dt.hour \in 0..23 /\ dt.minute \in 0..59 /\ dt.second \in 0..59
       /\ dt.submjd \in 0..100000
       /\ to # Ovf => FromEpochSeconds(NoTime, Unix, to) = dt

(* A GPS or Galileo second is the TAI second nineteen earlier.             *)
SatellitesAgree(week, ms) ==
    \A g \in {Gps, Galileo} :
        LET tai == IF g = Gps THEN FromGps(ms, week, Tai) ELSE FromGalileo(ms, week, Tai)
            own == IF g = Gps THEN FromGps(ms, week, Gps) ELSE FromGalileo(ms, week, Galileo)
        IN FromEpochSeconds(NoTime, Tai, tai - 19) = FromEpochSeconds(NoTime, g, own)

(* What the reader makes of a literal with a fraction the writer can write *)
(* again, and it is read as the same instant; its zone moves it, and a :60 *)
(* is the inserted second where there is one.                              *)
LiteralReadsBack(lit, epoch) ==
    LET read == IsoRead(lit, epoch) IN
    /\ read.error = "none" /\ lit.frac =>
          /\ WritesLiteral(epoch, read.secs)
          /\ IsoRead(IsoWritten(epoch, read.secs), epoch) = read
    /\ read.error = "none" /\ lit.zone # 0 =>
          LET utc == IsoRead([lit EXCEPT !.zone = 0, !.frac = FALSE], Unix)
          IN epoch = Unix /\ utc.error = "none" => read.secs = utc.secs - lit.zone * 60
    /\ read.error = "none" /\ lit.second = 60 /\ epoch = Tai =>
          LET next == IsoRead([lit EXCEPT !.second = 59, !.frac = FALSE], Tai)
          IN read.secs = next.secs + 1
=============================================================================

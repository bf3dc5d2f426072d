------------------------------ MODULE Instants ------------------------------
(***************************************************************************)
(* Seconds and civil time (bvn_datetime.c): uniform epochs, TAI with its   *)
(* leap seconds, local time, and the datetime literals of a document       *)
(* (bovnar_validator.c) with what the writer makes of them again.  A       *)
(* datetime is [date, hour, minute, second, mjd, submjd].                  *)
(***************************************************************************)
EXTENDS Calendar, Sequences

CONSTANT IsoYears     \* bound: the years 0..9999 a literal's four digits spell

\* The 64-bit range, 32 bits wide here.  Its least value is the error Ovf;
\* Lost is what a checked operation that overflowed leaves behind.
IntMin == -2147483647
IntMax == 2147483646
Lost   == -2147483647 - 1

CkdAdd(a, b) ==
    IF Lost \in {a, b} \/ (b > 0 /\ a > IntMax - b) \/ (b < 0 /\ a < IntMin - b)
    THEN Lost ELSE a + b

CkdMul(a, n) ==
    IF a = Lost \/ a > IntMax \div n \/ a < -(-IntMin \div n) THEN Lost ELSE a * n

\* A result the caller sees: the least value is reserved for the error.
Result(x) == IF x = Lost THEN Ovf ELSE x

\* div_round_closest, of n >= 0
DivRoundClosest(n, d) == LET r == n % d IN (n \div d) + (IF r >= d - r THEN 1 ELSE 0)

-----------------------------------------------------------------------------
\* Epochs are named by the day they begin on.
Ntp     == 15020
Tai     == 36204
Unix    == 40587
Gps     == 44244
Glonass == 50083
Galileo == 51412
Y2000   == 51544
Beidou  == 53736

Atomic == {Gps, Galileo, Glonass, Beidou}

NoTime == [date |-> Unset, hour |-> 0, minute |-> 0, second |-> 0, mjd |-> 0, submjd |-> 0]

\* bvn_dt_epoch_seconds_to_datetime, into dt; 100000/86400 of a second is
\* reduced to 125/108.
FromEpochSeconds(dt, epoch, seconds) ==
    LET s   == seconds % 86400
        mjd == seconds \div 86400 + epoch
    IN [date |-> FromMjd(dt.date, mjd), mjd |-> mjd,
        hour |-> s \div 3600, minute |-> (s % 3600) \div 60, second |-> s % 60,
        submjd |-> DivRoundClosest(s * 125, 108)]

\* bvn_dt_datetime_to_epoch_seconds: before the epoch it counts from the end
\* of the day.
ToEpochSeconds(dt, epoch) ==
    IF ~Normalizes(dt.date) THEN Ovf
    ELSE LET days == CkdAdd(ToMjd(dt.date), -epoch)
             late == days # Lost /\ days < 0
             sum1 == CkdMul(IF late THEN days + 1 ELSE days, 86400)
             sum2 == CkdAdd(CkdAdd(CkdAdd(sum1, dt.hour * 3600), dt.minute * 60), dt.second)
         IN Result(IF late THEN CkdAdd(sum2, -86400) ELSE sum2)

\* bvn_dt_convert_epoch_seconds
ConvertEpoch(from, to, seconds) == Result(CkdAdd(86400 * (from - to), seconds))

\* bvn_dt_epoch_seconds_from_gnss_time, of a time of week ms >= 0.
FromGnss(gnss, offset, ms, week, epoch) ==
    LET tow  == DivRoundClosest(ms, 1000)
        days == week * 7 + (gnss - epoch) + tow \div 86400
        secs == CkdAdd(CkdMul(days, 86400), tow % 86400)
    IN Result(IF epoch = Tai THEN CkdAdd(secs, offset) ELSE secs)

FromGps(ms, week, epoch)     == FromGnss(Gps, 19, ms, week, epoch)
FromGalileo(ms, week, epoch) == FromGnss(Galileo, 19, ms, week, epoch)

-----------------------------------------------------------------------------
\* bvn_dt_leap_table: from which UTC second on TAI is how many seconds ahead.
LeapTable ==
    <<<<441763200, 10>>, <<457488000, 11>>, <<473385600, 12>>, <<504921600, 13>>,
      <<536457600, 14>>, <<567993600, 15>>, <<599616000, 16>>, <<631152000, 17>>,
      <<662688000, 18>>, <<694224000, 19>>, <<741484800, 20>>, <<773020800, 21>>,
      <<804556800, 22>>, <<867715200, 23>>, <<946684800, 24>>, <<1009843200, 25>>,
      <<1041379200, 26>>, <<1088640000, 27>>, <<1120176000, 28>>, <<1151712000, 29>>,
      <<1199145600, 30>>, <<1246406400, 31>>, <<1293840000, 32>>, <<1514764800, 33>>,
      <<1609459200, 34>>, <<1719792000, 35>>, <<1814400000, 36>>, <<1861920000, 37>>>>

\* bvn_dt_leap_is_insertion: the first row inserts nothing.
IsInsertion(i) == i > 1 /\ LeapTable[i][2] = LeapTable[i - 1][2] + 1

\* bvn_dt_tai_is_inserted_leap
IsInsertedLeap(tai) ==
    \E i \in DOMAIN LeapTable : IsInsertion(i) /\ tai = LeapTable[i][1] + LeapTable[i][2] - 1

\* bvn_dt_utc_boundary_has_insertion
BoundaryHasInsertion(utc) == \E i \in DOMAIN LeapTable : LeapTable[i][1] = utc /\ IsInsertion(i)

\* The last row whose instant, as At gives it, is not after t; the first otherwise.
OffsetAt(t, At(_)) ==
    LET rows == {i \in DOMAIN LeapTable : t >= At(LeapTable[i])}
    IN LeapTable[IF rows = {} THEN 1 ELSE Max(rows)][2]

\* Mutant: a TAI instant is looked up as if it were UTC.
OffsetForTaiAsUtc(tai) == OffsetAt(tai, LAMBDA e : e[1])

OffsetAtUtc(utc)  == OffsetAt(utc, LAMBDA e : e[1])
OffsetForTai(tai) == OffsetAt(tai, LAMBDA e : e[1] + e[2])

\* bvn_dt_utc_to_tai_seconds
UtcToTai(dt) ==
    LET utc == ToEpochSeconds(dt, Tai)
        tai == CkdAdd(utc, OffsetAtUtc(utc))
    IN IF utc = Ovf \/ tai \in {Lost, Ovf} THEN Ovf
       ELSE IF dt.second = 60 /\ BoundaryHasInsertion(utc) THEN Result(CkdAdd(tai, -1)) ELSE tai

\* bvn_dt_render_utc: an inserted second is written :60.
Rendered(dt, utc, leap) ==
    IF leap THEN [FromEpochSeconds(dt, Tai, utc - 1) EXCEPT !.second = 60]
    ELSE FromEpochSeconds(dt, Tai, utc)

\* bvn_dt_tai_seconds_to_utc, into dt
TaiToUtc(dt, tai) ==
    LET utc == CkdAdd(tai, -OffsetForTai(tai))
    IN IF utc = Lost THEN dt ELSE Rendered(dt, utc, IsInsertedLeap(tai))

\* bvn_dt_tai_seconds_to_local_time
TaiToLocal(dt, tai, zone, dls) ==
    LET local == CkdAdd(CkdAdd(CkdAdd(tai, -OffsetForTai(tai)), zone), IF dls THEN 3600 ELSE 0)
    IN IF local = Lost THEN dt ELSE Rendered(dt, local, IsInsertedLeap(tai))

At1(date) == [NoTime EXCEPT !.date = date, !.hour = 1]

SummerMonth(year) == IF year >= 1996 THEN 10 ELSE 9

\* bvn_dt_tai_second_is_dls_in_europe
IsSummer(tai) ==
    LET year == TaiToUtc(NoTime, tai).date.year
        Sunday(m) == GetLastSunday(Unset, Ymd(year, m, 1))
        on   == UtcToTai(At1(IF year = 1980 THEN Ymd(1980, 4, 6) ELSE Sunday(3)))
        off  == UtcToTai(At1(Sunday(SummerMonth(year))))
    IN year >= 1980 /\ on # Ovf /\ off # Ovf /\ tai >= on /\ tai < off

-----------------------------------------------------------------------------
(* A datetime literal: [year, month, day], "hour, minute, second", whether *)
(* digits of a fraction follow, and the zone in minutes.  Its layout, and  *)
(* with it the widths of its fields, is left out.                          *)

\* bvn_iso_days_in_month
IsoDaysInMonth(y, m) ==
    IF m = 2 THEN IF (y % 4 = 0 /\ y % 100 # 0) \/ y % 400 = 0 THEN 29 ELSE 28
    ELSE IF m \in {4, 6, 9, 11} THEN 30 ELSE 31

\* bvn_iso_parse_fields
IsoWellFormed(lit) ==
    /\ lit.month \in 1..12 /\ lit.day \in 1..IsoDaysInMonth(lit.year, lit.month)
    /\ lit.hour <= 23 /\ lit.minute <= 59 /\ lit.second <= 60
    /\ lit.zone \in -(24 * 60 - 1)..(24 * 60 - 1)

\* The zone goes into the minutes, so that :60 stays what it is.
IsoTime(lit) ==
    [NoTime EXCEPT !.date = [Unset EXCEPT !.year = lit.year, !.month = lit.month, !.day = lit.day],
                   !.hour = lit.hour, !.minute = lit.minute - lit.zone, !.second = lit.second]

\* What an instant reads as on an epoch, as the writer and the reader ask it.
CivilTime(epoch, secs) ==
    IF epoch = Tai THEN TaiToUtc(NoTime, secs) ELSE FromEpochSeconds(NoTime, epoch, secs)

HasLiteral(dt) == dt.date.month \in 1..12 /\ dt.date.day \in 1..31 /\ dt.date.year \in IsoYears

\* bvn_iso_to_epoch_seconds: the seconds, or the error.
IsoRead(lit, epoch) ==
    LET secs == IF epoch = Tai THEN UtcToTai(IsoTime(lit)) ELSE ToEpochSeconds(IsoTime(lit), epoch)
        Refused(e) == [error |-> e, secs |-> 0]
    IN IF ~IsoWellFormed(lit) THEN Refused("invalid_datetime_literal")
       ELSE IF epoch \in Atomic THEN Refused("datetime_literal_unsupported_epoch")
       ELSE IF secs = Ovf THEN Refused("value_out_of_range")
       ELSE IF lit.frac /\ ~HasLiteral(CivilTime(epoch, secs)) THEN Refused("invalid_datetime_literal")
       ELSE [error |-> "none", secs |-> secs]

\* The writer's literal of a datetime with a fraction; without one it writes
\* the seconds.
WritesLiteral(epoch, secs) == epoch \notin Atomic /\ HasLiteral(CivilTime(epoch, secs))

IsoWritten(epoch, secs) ==
    LET dt == CivilTime(epoch, secs)
    IN [year |-> dt.date.year, month |-> dt.date.month, day |-> dt.date.day, hour |-> dt.hour,
        minute |-> dt.minute, second |-> dt.second, frac |-> TRUE, zone |-> 0]
=============================================================================

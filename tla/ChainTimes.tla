------------------------------ MODULE ChainTimes ------------------------------
(***************************************************************************)
(* The times of the chain and their texts (chain_conversions.hpp and       *)
(* time.hpp).  An instant is a day since 1970 and what has passed of it, in*)
(* the units that the arithmetic of the code carries exactly; a text is    *)
(* the record of the numbers it has, each with as many digits as the       *)
(* format asks for, and of the digits of its fraction.                     *)
(***************************************************************************)
EXTENDS Integers, Sequences

\* C++ division, which truncates; the counts are unsigned or made so before.
Era(n, size) == IF n >= 0 THEN n \div size ELSE -((size - 1 - n) \div size)

\* year_month_day::from_days, by years that begin in March and eras of 400.
FromDays(days) ==
    LET z == days + 719468
        era == Era(z, 146097)
        doe == z - era * 146097
        yoe == (doe - doe \div 1460 + doe \div 36524 - doe \div 146096) \div 365
        doy == doe - (365 * yoe + yoe \div 4 - yoe \div 100)
        mp == (5 * doy + 2) \div 153
        m == IF mp < 10 THEN mp + 3 ELSE mp - 9
    IN [year |-> yoe + era * 400 + (IF m <= 2 THEN 1 ELSE 0),
        month |-> m,
        day |-> doy - (153 * mp + 2) \div 5 + 1]

\* to_days.  Nothing says that the month and the day are those of a calendar.
\* Seeded fault: the years of centuries are leap years.
ToDaysJulian(y0, m, d) ==
    LET y == IF m <= 2 THEN y0 - 1 ELSE y0
        era == Era(y, 400)
        yoe == y - era * 400
        doy == (153 * (IF m > 2 THEN m - 3 ELSE m + 9) + 2) \div 5 + d - 1
    IN era * 146097 + yoe * 365 + yoe \div 4 + doy - 719468
ToDays(y0, m, d) ==
    LET y == IF m <= 2 THEN y0 - 1 ELSE y0
        era == Era(y, 400)
        yoe == y - era * 400
        doy == (153 * (IF m > 2 THEN m - 3 ELSE m + 9) + 2) \div 5 + d - 1
    IN era * 146097 + yoe * 365 + yoe \div 4 - yoe \div 100 + doy - 719468

-----------------------------------------------------------------------------
\* Seconds are a uint32_t: a day and a second of it, less 2^32, which is 49710
\* days and 23296 seconds, as often as it takes.  On the way the days times
\* 86400 are an int, which overflows from 2038 on; that is undefined, and the
\* builds wrap around, so that the result is right until 2106.
Wraps(day, second) == (675 * day + second \div 128) \div 33554432  \* 86400 is 675 * 128, 2^32 is 2^25 * 128
Seconds(day, second) ==
    LET rest == second - 23296 * Wraps(day, second)
    IN [day |-> day - 49710 * Wraps(day, second) + (rest \div 86400), second |-> rest % 86400]

IsSeconds(s) ==
    /\ s \in [day : Nat, second : Nat] /\ s.second < 86400
    /\ s.day < 49710 \/ (s.day = 49710 /\ s.second < 23296)
\* A time point, before or after 1970.
IsTimePoint(t) == t \in [day : Int, ms : Nat, us : Nat] /\ t.ms < 86400000 /\ t.us < 1000

\* string_to_utc_seconds.
SecondsOf(text) ==
    Seconds(ToDays(text.year, text.month, text.date),
            text.hour * 3600 + text.minute * 60 + text.second)

\* string_to_utc_microseconds: at most six digits of a fraction, one too many is
\* an error.
IsTimeText(text) == Len(text.fraction) <= 6
FractionDigit(text, i) == IF i \in DOMAIN text.fraction THEN text.fraction[i] ELSE 0
MicrosecondsOf(text) ==
    LET s == SecondsOf(text)
        At(i) == FractionDigit(text, i)
    IN [day |-> s.day, ms |-> s.second * 1000 + At(1) * 100 + At(2) * 10 + At(3),
        us |-> At(4) * 100 + At(5) * 10 + At(6)]

\* append_uint makes the year, an int, a uint32_t: 2^32 adds 7296 to the four
\* digits that are written of a year before 0.
YearDigits(year) == (IF year < 0 THEN year + 7296 ELSE year) % 10000

\* microseconds_to_str: four digits of the year, three of the second.
TimeText(t) ==
    LET date == FromDays(t.day) IN
    [year |-> YearDigits(date.year), month |-> date.month, date |-> date.day,
     hour |-> t.ms \div 3600000, minute |-> (t.ms \div 60000) % 60,
     second |-> (t.ms \div 1000) % 60,
     fraction |-> <<(t.ms \div 100) % 10, (t.ms \div 10) % 10, t.ms % 10>>]

AtSecond(s) == [day |-> s.day, ms |-> s.second * 1000, us |-> 0]
SecondsText(s) == TimeText(AtSecond(s))

-----------------------------------------------------------------------------
\* A slot is a uint32_t of half seconds since 2000: a day, and a half second of
\* it, less 2^32, which is 24855 days and 23296 half seconds.
Epoch == 10957
HalfSeconds == 172800
Slot(day, half) == [day |-> day, half |-> half]
IsSlot(s) == s.day < 24855 \/ (s.day = 24855 /\ s.half < 23296)
LastSlot == Slot(24855, 23295)

SlotTime(s) == [day |-> s.day + Epoch, ms |-> s.half * 500, us |-> 0]
\* A count of half seconds as a uint32_t: what is negative or too large wraps
\* around, 2^32 being 24855 days and 23296 half seconds.
SlotWraps(day, half) == (675 * day + half \div 256) \div 16777216  \* 172800 is 675 * 256, 2^32 is 2^24 * 256
AsSlot(day, half) ==
    LET rest == half - 23296 * SlotWraps(day, half)
    IN Slot(day - 24855 * SlotWraps(day, half) + (rest \div HalfSeconds), rest % HalfSeconds)

\* set_time_point(time_point): both divisions truncate, so that before 1970 a
\* millisecond that has begun counts, and before 2000 a half second.
\* Seeded fault: rounded up to the next slot.
SlotOfNext(t) == AsSlot(t.day - Epoch, (t.ms + 500) \div 500)
Milliseconds(t) == IF t.day < 0 /\ t.us > 0 THEN t.ms + 1 ELSE t.ms
SlotOf(t) ==
    LET ms == Milliseconds(t)
    IN AsSlot(t.day - Epoch, (IF t.day < Epoch THEN ms + 499 ELSE ms) \div 500)
SlotOfSecond(s) == SlotOf(AtSecond(s))
SlotText(s) == TimeText(SlotTime(s))

\* next() refuses the last slot.
NextSlot(s) == IF s.half + 1 = HalfSeconds THEN Slot(s.day + 1, 0) ELSE Slot(s.day, s.half + 1)

-----------------------------------------------------------------------------
\* The Gregorian calendar, as a reference.
IsLeap(y) == y % 4 = 0 /\ (y % 100 # 0 \/ y % 400 = 0)
MonthDays(y, m) ==
    IF m = 2 THEN IF IsLeap(y) THEN 29 ELSE 28 ELSE IF m \in {4, 6, 9, 11} THEN 30 ELSE 31
Tomorrow(date) ==
    IF date.day < MonthDays(date.year, date.month) THEN [date EXCEPT !.day = @ + 1]
    ELSE IF date.month < 12 THEN [date EXCEPT !.month = @ + 1, !.day = 1]
    ELSE [year |-> date.year + 1, month |-> 1, day |-> 1]
DateHolds(days) ==
    LET date == FromDays(days) IN
    /\ FromDays(days + 1) = Tomorrow(date)
    /\ ToDays(date.year, date.month, date.day) = days

\* All seconds and all slots, to the last ones in 2106 and 2068, are read back
\* from their texts; a time point is, to the millisecond, as long as its seconds
\* are a uint32_t.  Slots follow each other at half a second.
SecondKept(s) == SecondsOf(SecondsText(s)) = s
SlotKept(s) ==
    /\ SlotOf(MicrosecondsOf(SlotText(s))) = s /\ SlotOf(SlotTime(s)) = s
    /\ s.half % 2 = 0 => SlotOfSecond([day |-> s.day + Epoch, second |-> s.half \div 2]) = s
    /\ s # LastSlot =>
           SlotTime(NextSlot(s)) = IF s.half + 1 = HalfSeconds
                                   THEN [day |-> s.day + 1 + Epoch, ms |-> 0, us |-> 0]
                                   ELSE [SlotTime(s) EXCEPT !.ms = @ + 500]
TimeKept(t) ==
    t.day >= 0 /\ (t.day < 49710 \/ (t.day = 49710 /\ t.ms < 23296000)) =>
        IsTimeText(TimeText(t)) /\ MicrosecondsOf(TimeText(t)) = [t EXCEPT !.us = 0]

\* From 2000 to 2068 a time point is in the slot that has begun last.  Before
\* 2000, and back to 1931, it is in the one that begins next, less 2^32 of them
\* but for slot 0, and from 1970 on the microseconds of the time do not count.
InLastSlot(t) ==
    LET begin == SlotTime(SlotOf(t))
    IN begin.day = t.day /\ begin.ms <= t.ms /\ t.ms < begin.ms + 500
InNextSlot(t) ==
    LET slot == SlotOf(t)
        begin == IF slot = Slot(0, 0) THEN slot ELSE Slot(slot.day - 24855, slot.half - 23296)
        days == begin.day + Epoch - t.day
        ahead == days * 86400000 + begin.half * 500 - t.ms
        late == IF t.day < 0 THEN t.us ELSE 0
    IN /\ IsSlot(slot) /\ days \in {0, 1} /\ 0 <= ahead /\ ahead <= 500
       /\ late <= 1000 * ahead /\ 1000 * ahead < 500000 + late
SlotHolds(t) ==
    /\ t.day >= Epoch /\ t.day < Epoch + 24855 => InLastSlot(t)
    /\ t.day >= Epoch - 24855 /\ t.day < Epoch => InNextSlot(t)
=============================================================================

------------------------------ MODULE Timestamp ------------------------------
(***************************************************************************)
(* The two clocks of the trail and of the report, now_rfc3339 and now_utc: *)
(* seconds since 1970 as the fields of an RFC 3339 text.  A text is        *)
(* compared as the tuple of its fields, because each is written with a     *)
(* fixed number of digits.                                                 *)
(***************************************************************************)
EXTENDS Integers, Sequences

Era == 146097    \* the days of 400 years

\* Years begin in March here, so a leap day is the last day of one.
CivilFromDays(days) ==
    LET z == days + 719468
        doe == z % Era
        yoe == (doe - doe \div 1460 + doe \div 36524 - doe \div 146096) \div 365
        doy == doe - (365 * yoe + yoe \div 4 - yoe \div 100)
        mp == (5 * doy + 2) \div 153
        month == IF mp < 10 THEN mp + 3 ELSE mp - 9
        year == yoe + (z \div Era) * 400
    IN  <<IF month <= 2 THEN year + 1 ELSE year, month, doy - (153 * mp + 2) \div 5 + 1>>

NowRfc3339(secs) ==
    LET rem == secs % 86400
    IN  CivilFromDays(secs \div 86400) \o <<rem \div 3600, (rem % 3600) \div 60, rem % 60>>

\* How two such texts compare.
Before(s, t) ==
    \E i \in DOMAIN s : s[i] < t[i] /\ \A j \in 1 .. i - 1 : s[j] = t[j]

-----------------------------------------------------------------------------
Calendar == INSTANCE Checksums

Following(date) ==
    CASE date[3] < Calendar!DaysIn(date[1], date[2]) -> [date EXCEPT ![3] = @ + 1]
      [] date[2] = 12 /\ date[3] = 31 -> <<date[1] + 1, 1, 1>>
      [] OTHER -> <<date[1], date[2] + 1, 1>>

\* Of one era from the epoch every day has the date after the day before's.
ASSUME DatesAreTheCalendars ==
    /\ CivilFromDays(0) = <<1970, 1, 1>>
    /\ \A day \in 0 .. Era - 1 : CivilFromDays(day + 1) = Following(CivilFromDays(day))

\* The report finds the first and the last event by comparing texts: around the
\* end of a minute, an hour, a day, a month and a year they are in the order of
\* the clock.
ASSUME TextsAreInTheOrderOfTheClock ==
    \A end \in {60, 3600} \cup {86400 * day : day \in {1, 59, 365, 789, 790, 11016}} :
        \A s \in end - 2 .. end + 2, t \in end - 2 .. end + 2 :
            Before(NowRfc3339(s), NowRfc3339(t)) <=> s < t
=============================================================================

-------------------------- MODULE ReleaseTimingRule --------------------------
(***************************************************************************)
(* A central bank's documented release convention, and the instant it      *)
(* makes of a date: release_timing_rule.  Dates are days since 1970-01-01, *)
(* instants seconds since then.                                            *)
(***************************************************************************)
EXTENDS Integers

Day == 86400

DaysBefore == <<0, 31, 59, 90, 120, 151, 181, 212, 243, 273, 304, 334>>

\* The Gregorian calendar, for the years between 1901 and 2099.
Date(y, m, d) ==
    365 * (y - 1970) + (y - 1969) \div 4 + DaysBefore[m] + d - 1
      + (IF m > 2 /\ y % 4 = 0 THEN 1 ELSE 0)

Year(date) == 1969 + (4 * (date + 365) + 3) \div 1461

\* Monday is 0.
Weekday(date) == (date + 3) % 7

SundayFrom(date) == date + (6 - Weekday(date))

Time(h, m, s) == 3600 * h + 60 * m + s

-----------------------------------------------------------------------------
(* The time zone database, of the years the rules cover.  A transition is  *)
(* before every time of day the rules name.                                *)

American == {"America/New_York", "America/Toronto"}

Standard == [z \in American \cup {"Europe/London", "Europe/Brussels"} |->
               CASE z \in American -> -5 [] z = "Europe/London" -> 0 [] z = "Europe/Brussels" -> 1]

SummerTime(zone, date) ==
    LET y == Year(date)
        from == IF zone \notin American THEN SundayFrom(Date(y, 3, 25))
                ELSE IF y < 2007 THEN SundayFrom(Date(y, 4, 1)) ELSE SundayFrom(Date(y, 3, 8))
        to   == IF zone \notin American \/ y < 2007 THEN SundayFrom(Date(y, 10, 25))
                ELSE SundayFrom(Date(y, 11, 1))
    IN from <= date /\ date < to

UtcOffset(zone, date) == 3600 * (Standard[zone] + IF SummerTime(zone, date) THEN 1 ELSE 0)

-----------------------------------------------------------------------------
\* ReleaseTimingRule; to is {} where applies_to is None.
Rule(time, zone, confidence, from, to) ==
    [local_time |-> time, timezone |-> zone, confidence |-> confidence,
     applies_from |-> from, applies_to |-> to]

WellFormed(rule) ==
    /\ rule.timezone \in DOMAIN Standard
    /\ rule.confidence \in {"EXACT", "CONSERVATIVE_SAFE_BOUND"}
    /\ \A e \in rule.applies_to : rule.applies_from < e

Covers(rule, date) == rule.applies_from <= date /\ \A e \in rule.applies_to : date < e

\* The date's own offset is used, whatever the offset is today.
Resolve(rule, date) == date * Day + rule.local_time - UtcOffset(rule.timezone, date)
=============================================================================

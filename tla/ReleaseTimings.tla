---------------------------- MODULE ReleaseTimings ----------------------------
(***************************************************************************)
(* When each policy-rate decision became public, as the code documents it: *)
(* policy_rate_release_timing_registry.  A resolution is a set, {} where   *)
(* the code returns UnresolvedTiming.                                      *)
(***************************************************************************)
EXTENDS ReleaseTimingRule

Resolution(rule, decided, effective) ==
    [exact |-> rule.confidence = "EXACT", released |-> Resolve(rule, decided),
     effective |-> effective]

EndOfDay == Time(23, 59, 59)

-----------------------------------------------------------------------------
(* USD.                                                                    *)

USD_CONSERVATIVE_RULE ==
    Rule(EndOfDay, "America/New_York", "CONSERVATIVE_SAFE_BOUND",
         Date(1994, 2, 4), {Date(2013, 3, 19)})

USD_EXACT_DECISION_TIME_RULE ==
    Rule(Time(14, 0, 0), "America/New_York", "EXACT", Date(2013, 3, 19), {})

UsdPolicyTiming(stored, decision, effective) ==
    [stored_date |-> stored, decision_date |-> decision, effective_date |-> effective]

\* The date stored is the day the decision took effect, the day after it.
StandardPattern == {
    Date(2017, 3, 16), Date(2017, 6, 15), Date(2017, 12, 14), Date(2018, 3, 22),
    Date(2018, 6, 14), Date(2018, 9, 27), Date(2018, 12, 20), Date(2019, 8, 1),
    Date(2019, 9, 19), Date(2019, 10, 31), Date(2022, 3, 17), Date(2022, 5, 5),
    Date(2022, 6, 16), Date(2022, 7, 28), Date(2022, 9, 22), Date(2022, 11, 3),
    Date(2022, 12, 15), Date(2023, 2, 2), Date(2023, 3, 23), Date(2023, 5, 4),
    Date(2023, 7, 27), Date(2024, 9, 19), Date(2024, 11, 8), Date(2024, 12, 19),
    Date(2025, 9, 18), Date(2025, 10, 30), Date(2025, 12, 11), Date(2026, 9, 17)}

\* In two cases it is the day of the decision itself.
USD_POLICY_TIMINGS ==
    {UsdPolicyTiming(d, d, d + 1) : d \in {Date(2015, 12, 16), Date(2016, 12, 14)}}
      \cup {UsdPolicyTiming(d, d - 1, d) : d \in StandardPattern}

USD_IRREGULAR_DATES == {
    Date(1998, 10, 15), Date(2001, 1, 3), Date(2001, 4, 18), Date(2001, 9, 17),
    Date(2008, 1, 22), Date(2008, 10, 8), Date(2020, 3, 4), Date(2020, 3, 16)}

\* Exact only for a date of the table: no offset is computed for another.
ResolveUsd(date) ==
    LET listed == {t \in USD_POLICY_TIMINGS : t.stored_date = date}
    IN IF listed # {}
       THEN {Resolution(USD_EXACT_DECISION_TIME_RULE, t.decision_date, {t.effective_date * Day}) :
               t \in listed}
       ELSE {Resolution(r, date, {}) : r \in {x \in {USD_CONSERVATIVE_RULE} : Covers(x, date)}}

-----------------------------------------------------------------------------
(* GBP and CAD: the date stored is the date of the decision.               *)

GBP_RULES == {Rule(Time(12, 0, 0), "Europe/London", "EXACT", Date(1997, 1, 1), {})}

GBP_IRREGULAR_DATES == {
    Date(1997, 6, 2), Date(1997, 6, 6), Date(1999, 9, 8), Date(2001, 9, 18),
    Date(2008, 10, 8), Date(2020, 3, 11)}

CAD_RULES ==
    {Rule(EndOfDay, "America/Toronto", "CONSERVATIVE_SAFE_BOUND", Date(2009, 4, 21), {})}

CAD_IRREGULAR_DATES == {Date(2020, 3, 4), Date(2020, 3, 16), Date(2020, 3, 27)}

ResolveGbp(date) == {Resolution(r, date, {}) : r \in {x \in GBP_RULES : Covers(x, date)}}

ResolveCad(date) == {Resolution(r, date, {}) : r \in {x \in CAD_RULES : Covers(x, date)}}

-----------------------------------------------------------------------------
(* EUR: the date stored is the day the decision took effect, six days      *)
(* after it.                                                               *)

EUR_WEDNESDAY_ERA_START == Date(2006, 3, 8)
EUR_TIME_CHANGE_DECISION_DATE == Date(2022, 7, 21)
Wednesday == 2

EUR_RULES == {
    Rule(Time(13, 45, 0), "Europe/Brussels", "EXACT",
         Date(2004, 3, 10), {EUR_TIME_CHANGE_DECISION_DATE}),
    Rule(Time(14, 15, 0), "Europe/Brussels", "EXACT", EUR_TIME_CHANGE_DECISION_DATE, {})}

EUR_IRREGULAR_DATES == {
    Date(1999, 1, 1), Date(2005, 12, 6), Date(2006, 6, 15), Date(2001, 9, 18)}

\* Only of a Wednesday, since 2006; no other date has an override.
ResolveEur(date) ==
    IF date < EUR_WEDNESDAY_ERA_START \/ Weekday(date) # Wednesday THEN {}
    ELSE {Resolution(r, date - 6, {date * Day}) : r \in {x \in EUR_RULES : Covers(x, date - 6)}}

-----------------------------------------------------------------------------
IRREGULAR_DATES ==
    [c \in {"USD", "EUR", "GBP", "CAD"} |->
       CASE c = "USD" -> USD_IRREGULAR_DATES [] c = "EUR" -> EUR_IRREGULAR_DATES
         [] c = "GBP" -> GBP_IRREGULAR_DATES [] c = "CAD" -> CAD_IRREGULAR_DATES]

ResolveReleaseTiming(currency, period) ==
    LET date == period \div Day
    IN IF date \in IRREGULAR_DATES[currency] THEN {}
       ELSE CASE currency = "USD" -> ResolveUsd(date) [] currency = "EUR" -> ResolveEur(date)
              [] currency = "GBP" -> ResolveGbp(date) [] currency = "CAD" -> ResolveCad(date)

\* What the constructors check when the registry is imported.
ASSUME TimingsAreWellFormed ==
    /\ \A r \in {USD_CONSERVATIVE_RULE, USD_EXACT_DECISION_TIME_RULE}
                  \cup GBP_RULES \cup CAD_RULES \cup EUR_RULES : WellFormed(r)
    /\ \A t \in USD_POLICY_TIMINGS : t.decision_date <= t.effective_date
=============================================================================

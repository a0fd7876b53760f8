---------------------------- MODULE MCPolicyRates ----------------------------
(* An instance of PolicyRates on the registries the code holds: the euro,   *)
(* whose decisions are announced six days before the date they are stored   *)
(* under, and the dollar, whose decisions are announced on it or the day    *)
(* before, in two eras.                                                     *)
EXTENDS PolicyRates, PolicyRateRegistry, ReleaseTimings, TLC

MCThreeMonths == 91 * Day
MCSixMonths == 182 * Day
MCAxisSafetyMargin == 14 * Day

MCCurrencies == {"EUR", "USD"}

MCPairs == {<<"EUR", "USD">>}

Symmetric == Permutations(Workers)

MCEras == [c \in MCCurrencies |-> DefinitionsForCurrency(c)]

Observation(d, v) == [date |-> d, value |-> v]

Oct2008 == Ts(2008, 10, 29)
Dec2008 == Ts(2008, 12, 16)
Mar2016 == Ts(2016, 3, 16)
Dec2016 == Ts(2016, 12, 14)
Mar2017 == Ts(2017, 3, 16)
Jun2017 == Ts(2017, 6, 7)
Odd2017 == Ts(2017, 6, 15)    \* not a Wednesday

MainRefinancing == EUR_DEFINITION.series[1]

(* In thousandths of a percent. *)
MCPublications ==
    [n \in {MainRefinancing, "DFEDTAR", "DFEDTARU", "DFEDTARL"} |->
       CASE n = MainRefinancing -> {{Observation(Mar2016, 50), Observation(Jun2017, 0),
                                     Observation(Odd2017, 250)}}
         [] n = "DFEDTAR" -> {{Observation(Oct2008, 1000), Observation(Dec2008, 250)},
                              {Observation(Oct2008, 1500)}}
         [] n = "DFEDTARU" -> {{Observation(Dec2016, 750), Observation(Mar2017, 1000)},
                               {Observation(Dec2016, 250)}}
         [] n = "DFEDTARL" -> {{Observation(Dec2016, 500), Observation(Mar2017, 750)},
                               {Observation(Dec2016, 500), Observation(Dec2016, 250)}}]

MCPeriods == {Oct2008, Mar2016, Dec2016, Mar2017, Jun2017, Odd2017}

MCFetchedTo == {Ts(2017, 6, 20)}

(* Half a day after the decision of December 2016 was stored as taken, and  *)
(* six months on.                                                           *)
MCResearchedAt == {Dec2016 + Day \div 2 + MCSixMonths}

(* At two in the afternoon in Washington, a quarter to two in Frankfurt. *)
MCAnnouncedAt ==
    [c \in MCCurrencies |-> [p \in MCPeriods |->
       CASE c = "EUR" /\ p = Mar2016 -> Ts(2016, 3, 10) + Time(12, 45, 0)
         [] c = "EUR" /\ p # Mar2016 -> p - 6 * Day + Time(11, 45, 0)
         [] c = "USD" /\ p \in {Mar2017, Odd2017} -> p - Day + Time(18, 0, 0)
         [] OTHER -> p + Time(19, 0, 0)]]

(* Three versions of the registry, the last the one in the code.  The first *)
(* covers no decision before 2017 and takes the date stored for the date of *)
(* the decision; the second has yet to learn that the decision of December  *)
(* 2016 took effect the day after.                                          *)
SameDay(p) == {Resolution(USD_EXACT_DECISION_TIME_RULE, p \div Day, {p})}

MCRegistries ==
    [v \in 1..3 |-> [c \in MCCurrencies |-> [p \in MCPeriods |->
       CASE c = "USD" /\ p < Mar2017 /\ v = 1 -> {}
         [] c = "USD" /\ p = Mar2017 /\ v = 1 -> SameDay(p)
         [] c = "USD" /\ p = Dec2016 /\ v = 2 -> SameDay(p)
         [] OTHER -> ResolveReleaseTiming(c, p)]]]
=============================================================================

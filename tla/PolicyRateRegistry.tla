-------------------------- MODULE PolicyRateRegistry --------------------------
(***************************************************************************)
(* What a policy rate is, per currency and era, and where its raw data     *)
(* come from: policy_rate_registry.  Instants are seconds since 1970; a    *)
(* definition in effect to this day has to = {}.                           *)
(***************************************************************************)
EXTENDS ReleaseTimingRule, FiniteSets, SequencesExt

REQUIRED_CURRENCIES == {"USD", "EUR", "GBP", "JPY", "CAD"}

Ts(y, m, d) == Date(y, m, d) * Day

Series(currency, economy) ==
    [key |-> currency \o "_POLICY_RATE", economy |-> economy, currency |-> currency]

PolicyRateDefinition(macro, transformation, from, to, provider, ids) ==
    [macro |-> macro, transformation |-> transformation, from |-> from, to |-> to,
     provider |-> provider, series |-> ids]

DeclaredPolicyRateGap(currency, from, to) ==
    [currency |-> currency, from |-> from, to |-> to]

-----------------------------------------------------------------------------
USD_SERIES == Series("USD", "US")

USD_TARGET_POINT ==
    PolicyRateDefinition(USD_SERIES, "IDENTITY", Ts(1994, 2, 4), {Ts(2008, 12, 16)},
                         "FRED", <<"DFEDTAR">>)

\* The bounds in the order the midpoint takes them: upper, lower.
USD_TARGET_RANGE ==
    PolicyRateDefinition(USD_SERIES, "TARGET_RANGE_MIDPOINT", Ts(2008, 12, 16), {},
                         "FRED", <<"DFEDTARU", "DFEDTARL">>)

EUR_SERIES == Series("EUR", "EA")

\* The main refinancing operations rate, not the deposit facility's.
EUR_DEFINITION ==
    PolicyRateDefinition(EUR_SERIES, "IDENTITY", Ts(1999, 1, 1), {},
                         "ECB_SDW", <<"FM.D.U2.EUR.4F.KR.MRR_RT.LEV">>)

GBP_SERIES == Series("GBP", "GB")

GBP_DEFINITION ==
    PolicyRateDefinition(GBP_SERIES, "IDENTITY", Ts(1997, 6, 1), {},
                         "BOE_DATABASE", <<"IUDBEDR">>)

CAD_SERIES == Series("CAD", "CA")

CAD_DEFINITION ==
    PolicyRateDefinition(CAD_SERIES, "IDENTITY", Ts(1999, 2, 1), {}, "BOC_VALET", <<"V39079">>)

-----------------------------------------------------------------------------
(* JPY: the eras whose operating target was a rate.                        *)

JPY_SERIES == Series("JPY", "JP")
BOJ == "BOJ_TIME_SERIES_DATA_SEARCH"

JPY_CALL_RATE_ERA_1 ==
    PolicyRateDefinition(JPY_SERIES, "IDENTITY", Ts(1998, 4, 1), {Ts(2001, 3, 19)},
                         BOJ, <<"VERIFY_BOJ_CALL_RATE_TARGET_1998_2001">>)

JPY_CALL_RATE_ERA_2A ==
    PolicyRateDefinition(JPY_SERIES, "IDENTITY", Ts(2006, 3, 9), {Ts(2010, 10, 5)},
                         BOJ, <<"VERIFY_BOJ_CALL_RATE_TARGET_2006_2010">>)

JPY_CALL_RATE_ERA_2B ==
    PolicyRateDefinition(JPY_SERIES, "TARGET_RANGE_MIDPOINT", Ts(2010, 10, 5), {Ts(2013, 4, 4)},
                         BOJ, <<"VERIFY_BOJ_CALL_RATE_UPPER_2010_2013",
                                "VERIFY_BOJ_CALL_RATE_LOWER_2010_2013">>)

\* From the day the negative rate took effect, not from its announcement.
JPY_POLICY_RATE_BALANCE ==
    PolicyRateDefinition(JPY_SERIES, "IDENTITY", Ts(2016, 2, 16), {Ts(2024, 3, 19)},
                         BOJ, <<"VERIFY_BOJ_POLICY_RATE_BALANCE_2016_2024">>)

JPY_CALL_RATE_RANGE_2024 ==
    PolicyRateDefinition(JPY_SERIES, "TARGET_RANGE_MIDPOINT", Ts(2024, 3, 19), {Ts(2024, 7, 31)},
                         BOJ, <<"VERIFY_BOJ_CALL_RATE_UPPER_2024", "VERIFY_BOJ_CALL_RATE_LOWER_2024">>)

JPY_CALL_RATE_ERA_CURRENT ==
    PolicyRateDefinition(JPY_SERIES, "IDENTITY", Ts(2024, 7, 31), {},
                         BOJ, <<"VERIFY_BOJ_CALL_RATE_TARGET_2024_PRESENT">>)

\* The eras whose operating target was a quantity.
JPY_GAPS == {DeclaredPolicyRateGap("JPY", Ts(2001, 3, 19), Ts(2006, 3, 9)),
             DeclaredPolicyRateGap("JPY", Ts(2013, 4, 4), Ts(2016, 2, 16))}

POLICY_RATE_DEFINITIONS == {
    USD_TARGET_POINT, USD_TARGET_RANGE, EUR_DEFINITION, GBP_DEFINITION,
    JPY_CALL_RATE_ERA_1, JPY_CALL_RATE_ERA_2A, JPY_CALL_RATE_ERA_2B, JPY_POLICY_RATE_BALANCE,
    JPY_CALL_RATE_RANGE_2024, JPY_CALL_RATE_ERA_CURRENT, CAD_DEFINITION}

-----------------------------------------------------------------------------
\* definitions_for_currency: in order of validity.
DefinitionsForCurrency(currency) ==
    SetToSortSeq({d \in POLICY_RATE_DEFINITIONS : d.macro.currency = currency},
                 LAMBDA d, e : d.from < e.from)

\* PolicyRateDefinition.covers
InForce(d, t) == d.from <= t /\ \A e \in d.to : t < e

\* definition_as_of: none where nothing comparable was targeted.
DefinitionAsOf(currency, t) ==
    {d \in POLICY_RATE_DEFINITIONS : d.macro.currency = currency /\ InForce(d, t)}

CanonicalSeriesForCurrency(currency) ==
    {d.macro : d \in {x \in POLICY_RATE_DEFINITIONS : x.macro.currency = currency}}

\* The checks of the constructors of a definition and of a gap.
DefinitionIsValid(d) ==
    /\ \A e \in d.to : d.from < e
    /\ Len(d.series) > 0
    /\ Len(d.series) = IF d.transformation = "IDENTITY" THEN 1 ELSE 2

Overlaps(d, g) == d.from < g.to /\ \A e \in d.to : g.from < e

\* validate_registry: what follows a definition is the next one, or a gap
\* declared to last until it.
ValidRegistry(definitions, gaps) ==
    LET currencies == {d.macro.currency : d \in definitions}
    IN /\ REQUIRED_CURRENCIES \subseteq currencies
       /\ \A c \in currencies :
            LET mine == {d \in definitions : d.macro.currency = c}
                declared == {g \in gaps : g.currency = c}
                next(d) == {e \in mine : /\ d.from < e.from
                                         /\ ~\E x \in mine : d.from < x.from /\ x.from < e.from}
            IN /\ Cardinality({d.macro : d \in mine}) = 1
               /\ \A d, e \in mine : d.from = e.from => d = e
               /\ \A d \in mine, g \in declared : ~Overlaps(d, g)
               /\ \A d \in mine : \A e \in next(d) :
                    \E end \in d.to : \/ end = e.from
                                      \/ \E g \in declared : g.from = end /\ g.to = e.from
               /\ \A g, h \in declared : g = h \/ g.to <= h.from \/ h.to <= g.from

\* The registry is validated when it is imported.
ASSUME RegistryIsValid ==
    /\ \A d \in POLICY_RATE_DEFINITIONS : DefinitionIsValid(d)
    /\ \A g \in JPY_GAPS : g.from < g.to
    /\ ValidRegistry(POLICY_RATE_DEFINITIONS, JPY_GAPS)

\* A gap is where there is no definition; everywhere else since its first, a
\* currency has one.
ASSUME GapsAreWhereNothingIsDefined ==
    \A d \in POLICY_RATE_DEFINITIONS : \A t \in {d.from} \cup d.to :
       LET c == d.macro.currency
       IN (DefinitionAsOf(c, t) = {}) <=> \E g \in JPY_GAPS : g.currency = c /\ g.from <= t /\ t < g.to
=============================================================================

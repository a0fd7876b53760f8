------------------------- MODULE MCForecastScoring -------------------------
(* A small instance of ForecastPilots for TLC. *)
EXTENDS ForecastPilots, TLC

Level    == Target1
Decision == "CA_POLICY_RATE_DECISION_HIKE_HOLD_CUT"

Forecast(k, g, who, i, p, m, v) ==
    [claim |-> k, revision |-> 0, issue |-> i, target |-> g, originator |-> who,
     period |-> p, mode |-> m, availability |-> 0, value |-> v]

First  == Forecast("c1", Level, "bank", 1, "march", "production", 2)
Second == Forecast("c2", Level, "bank", 2, "march", "production", 5)
Study  == Forecast("c3", Level, "bank", 1, "march", "retrospective", 3)
April  == Forecast("c4", Level, "bank", 2, "april", "production", 1)
Rival  == Forecast("c5", Level, "desk", 1, "march", "production", 4)
Hold   == Forecast("c6", Decision, "bank", 1, "march", "production", 0)
MCForecasts == {First, Second, Study, April, Rival, Hold, PilotForecast}

Outcome(k, d, p, r, t, v, m) ==
    [key |-> k, revision |-> r, availability |-> t, reviewed |-> t + 1, value |-> v,
     definition |-> <<d, 0>>, period |-> p, mode |-> m]

March   == Outcome("o1", "rate", "march", 0, 0, 3, "production")
Later   == {Outcome("o1", "rate", "march", 1, 1, 4, "production"),
            Outcome("o1", "rate", "march", 1, 1, 4, "retrospective")}
InApril == Outcome("o2", "rate", "april", 0, 0, 1, "production")
Cut     == Outcome("o3", "move", "march", 0, 0, 1, "production")
Restated == [PilotOutcome EXCEPT !.revision = 1, !.availability = 1, !.value = 300]
MCOutcomeReports == {March, InApril, Cut, PilotOutcome, Restated} \cup Later

-----------------------------------------------------------------------------

Rate == OutcomeDefinition("rate", 0, Level, "press release", 0)
Move == OutcomeDefinition("move", 0, Decision, "press release", 0)

FirstReleased == Protocol("p", 0, Rate, "FIRST_RELEASE", {}, 0)
Newest        == Protocol("p", 1, Rate, "LATEST_AVAILABLE_AS_OF", {}, 0)
Revised       == Protocol("p", 2, Rate, "FIXED_RELEASE_VINTAGE", {1}, 0)
Classes       == Protocol("q", 0, Move, "FIRST_RELEASE", {}, 0)

Live    == Cohort("bank", 0, Newest, "production", "bank", <<1, 2>>, {}, 0)
Desk    == Cohort("desk", 0, Newest, "production", "desk", AlwaysOpen, {"e9"}, 0)
Movers  == Cohort("moves", 0, Classes, "production", "bank", AlwaysOpen, {}, 0)

Series    == Benchmark("desk", 0, "AUTHENTICATED_SERIES", Level, 0, {Desk}, 0)
Three     == Benchmark("three", 0, "NAIVE_NUMERIC", Level, 3, {}, 0)
NeverCut  == Benchmark("hold", 0, "NAIVE_CATEGORICAL", Decision, 0, {}, 2)

Plain    == Methodology("m", 0, Live, {}, 0)
ToDesk   == Methodology("md", 0, Live, {Series}, 0)
ToThree  == Methodology("mn", 0, Live, {Three}, 0)
ToHold   == Methodology("mc", 0, Movers, {NeverCut}, 0)

Registered == {Rate, Move, FirstReleased, Newest, Revised, Classes, Live, Desk, Movers,
               Series, Three, NeverCut, Plain, ToDesk, ToThree, ToHold}

Ask1(k, f, o, p, m, t, r) ==
    [table |-> "evaluations", key |-> k, forecast |-> f, outcome |-> o, protocol |-> p,
     mode |-> m, availability |-> t, review |-> r]

Take(k, c, m, b, r, t, a) ==
    [table |-> "snapshots", key |-> k, cohort |-> c, methodology |-> m, benchmark |-> b,
     rivals |-> r, cutoff |-> t, availability |-> a]

(* Two calls at a time over one event, its two releases arriving meanwhile. *)
OneEvent ==
    [stored |-> {Rate, FirstReleased, Newest, Revised, Live, Plain}, scripts |-> {}, runs |-> 4,
     reports |-> {March, InApril} \cup Later,
     calls |->
       {Ask1("e1", First, "o1", Newest, "production", t, 0) : t \in {1, 2}}
       \cup {Ask1("e2", Second, "o1", Newest, "production", 2, 0),
             Ask1("e3", April, "o2", Newest, "production", 1, 0),
             Ask1("e3", First, "o1", FirstReleased, "retrospective", 1, 0)}
       \cup {Take("s", Live, Plain, {}, {}, 1, 2),
             Take("s", Live, Plain, {}, {}, 2, 3), Take("s", Live, Plain, {}, {}, 2, 1)}]

(* The three kinds of benchmark, and callers who have registered nothing. *)
Unregistered == Protocol("u", 0, Rate, "FIRST_RELEASE", {}, 0)
Undefined    == Protocol("u", 0, OutcomeDefinition("u", 0, Level, "x", 0), "FIRST_RELEASE", {}, 0)
Compare3 ==
    [stored |-> Registered, scripts |-> {}, runs |-> 3, reports |-> {March, Cut},
     calls |->
       {Ask1("e1", First, "o1", Newest, "production", 1, 0),
        Ask1("e5", Rival, "o1", Newest, "production", 1, 0),
        Ask1("e6", Hold, "o3", Classes, "production", 1, 0),
        Ask1("e8", Study, "o1", Newest, "production", 1, 0),
        Ask1("e8", Study, "o1", Revised, "retrospective", 1, NoReview),
        Ask1("e7", First, "o1", Unregistered, "production", 1, 0),
        Ask1("e7", First, "o1", Undefined, "production", 1, 0),
        Take("sd", Live, ToDesk, {Series}, {Desk}, 1, 2),
        Take("sn", Live, ToThree, {Three}, {}, 1, 2),
        Take("sc", Movers, ToHold, {NeverCut}, {}, 1, 2)}]

(* The pilots, and those of releases that have changed their mind about a      *)
(* version or a cohort, correct it with the next version, or leave one out;    *)
(* one has a benchmark.  They race, and a caller of the library brings a       *)
(* protocol that differs.                                                      *)
Other(p, n, fixed) == [p EXCEPT !.version = n, !.policy = "FIXED_RELEASE_VINTAGE", !.fixed = fixed]
OtherSeries == [PilotDefinition(1) EXCEPT !.series = "ARCHIVE"]
Quarter     == Benchmark("quarter", 0, "NAIVE_NUMERIC", Level, 350, {}, 1)
Against     == Methodology("BOC-MPS-FAD-naive", 0, PilotCohort, {Quarter}, 1)
Narrow      == [PilotCohort EXCEPT !.duplicates = {"EVAL"}]
Pilots ==
    [stored |-> {}, runs |-> 3, reports |-> {PilotOutcome, Restated},
     calls |-> {PilotEvaluation(Other(PilotProtocol(1), 0, {1}), 1)},
     scripts |->
       {ImportPilot(dryRun, 1) : dryRun \in BOOLEAN}
       \cup {DemonstratePilot(dryRun, 1) : dryRun \in BOOLEAN}
       \cup {Import(FALSE, PilotDefinition(1), Other(PilotProtocol(1), n, {1}), 1) : n \in 0..2}
       \cup {Import(FALSE, OtherSeries, PilotProtocol(1), 1),
             Script(FALSE, <<Narrow, PilotMethodology>>,
                    PilotSnapshot(Narrow, PilotMethodology, 1)),
             [DemonstratePilot(FALSE, 2) EXCEPT
                !.left = <<PilotCohort, Quarter, Against>>,
                !.call = {[PilotSnapshot(PilotCohort, Against, 2) EXCEPT !.benchmark = {Quarter}]}]}]

MCPlans == {OneEvent, Compare3, Pilots}

Symmetric == Permutations(Workers)
=============================================================================

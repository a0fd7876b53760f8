----------------------------- MODULE MCDatabase -----------------------------
(* A small instance of LockPools and Migrations for TLC: the two sides of     *)
(* one database.  Backfills are tried on a database without documents, at     *)
(* its latest revision; commands come when no call is under way.              *)
EXTENDS LockPools, Migrations

Row(table, truth) == [table |-> table, truth |-> truth]
Doc(id, rows) == [since |-> At(id), rows |-> rows]

-----------------------------------------------------------------------------
(* Candles, their watermark and macro observations. *)

Candle(source) ==
    Doc(IF source = "native" THEN "91c1293c5760" ELSE "635084cc3eb0",
        {Row("candles", [instrument |-> "EUR_USD", granularity |-> "H4", start_time |-> 0,
                         source |-> source])})
Mark == Doc("3a043ed9c1ed",
            {Row("ingestion_watermarks", [instrument |-> "EUR_USD", granularity |-> "H4"])})
Macro(n, verified, bound) ==
    Doc("7f04ea660a34",
        {Row("macro_observation_vintages",
             [series_key |-> "policy_rate", observation_period |-> n, revision_sequence |-> 0,
              released_at_is_verified |-> verified, released_at_is_conservative_bound |-> bound])})

Market == {Candle("native"), Candle("aggregated"), Mark,
           Macro(1, TRUE, FALSE), Macro(2, FALSE, TRUE), Macro(3, FALSE, FALSE)}

-----------------------------------------------------------------------------
(* Events: two numeric ones of one indicator and period, a qualitative one. *)

Occurrence(k) == Row("economic_event_occurrences",
    [occurrence_key |-> k, indicator_key |-> "cpi", reference_period |-> "May"])
Statement == Row("economic_event_occurrences", [occurrence_key |-> "fomc", indicator_key |-> "rate"])
Scheduled == Row("economic_event_schedule_vintages",
    [occurrence_key |-> "e1", indicator_key |-> "cpi", reference_period |-> "May",
     revision_sequence |-> 0])
Announced == Row("economic_event_release_vintages",
    [occurrence_key |-> "fomc", revision_sequence |-> 0, source_published_at |-> 7])
Mapped == Row("economic_event_source_mappings",
    [source |-> "fed", external_event_id |-> "x", indicator_key |-> "rate", occurrence_key |-> "fomc"])

Events == {Doc("bb7551fcef3a", {Occurrence("e1"), Scheduled}),
           Doc("76a4b23b2129", {Occurrence("e2")}),
           Doc("76a4b23b2129", {Statement, Announced}),
           Doc("df99b7796566", {Statement, Mapped})}

-----------------------------------------------------------------------------
(* News: an item seen in two channels one after the other, one without a      *)
(* content type, one that its source lists in two channels at once.           *)

Item(k) == Row("news_items", [news_item_key |-> k, first_observation_mode |-> "PROSPECTIVE"])
Sourced(k) == Row("news_source_mappings",
                  [source_key |-> "agency", external_item_id |-> k, news_item_key |-> k])
News(k, n, channel, observed) ==
    [news_item_key |-> k, revision_sequence |-> n, source_channel |-> channel,
     observed_source_channels |-> observed, observation_mode |-> "PROSPECTIVE",
     source_status |-> "ACTIVE", evidence_disposition |-> "EVIDENCE_ELIGIBLE"]
Typed(truth, type) == Row("news_item_vintages", ("source_content_type" :> type) @@ truth)

Speech == {Item("n1"), Sourced("n1"), Typed(News("n1", 0, "speeches", {"speeches"}), "speech")}
SpeechAgain == Speech \cup
    {Typed(News("n1", 1, "press_monetary", {"speeches", "press_monetary"}), "monetary_policy_release")}
Untyped == {Item("n2"), Sourced("n2"),
            Row("news_item_vintages", News("n2", 0, "speeches", {"speeches"}))}
Listed == {Item("n3"), Sourced("n3"),
           Row("news_item_vintages", News("n3", 0, "daily", {"daily", "cpi"}))}

Related(n, method, left, right) == Row("news_canonical_relation_vintages",
    [left_news_item_key |-> left, left_item_revision_sequence |-> 0,
     right_news_item_key |-> right, right_item_revision_sequence |-> 0,
     revision_sequence |-> n, method |-> method, relation_kind |-> "SAME_STORY"])
Annotated == Row("news_semantic_annotation_vintages",
    [news_item_key |-> "n1", revision_sequence |-> 0, basis_news_item_revision_sequence |-> 0])
Known == {Row("intelligence_sources", [source_key |-> "agency", source_kind |-> "ORGANIZATION"]),
          Row("source_identity_vintages", [source_key |-> "agency", revision_sequence |-> 0])}
Attributed == Row("source_attribution_vintages",
    [news_item_key |-> "n1", role |-> "PUBLISHER", revision_sequence |-> 0, status |-> "CONFIRMED",
     evidence_basis_revision_sequence |-> 0, attributed_source_key |-> "agency"])
Fetched == Row("source_operational_observations",
    [source_key |-> "agency", run_id |-> "r1", attempt_number |-> 0, outcome |-> "SUCCESS"])

Seen == {Doc("504030474987", Speech), Doc("504030474987", SpeechAgain),
         Doc("504030474987", Untyped), Doc("73b1423a5949", Listed)}
Judged == {Doc("274aabcc57dd", Speech \cup Listed \cup {Related(0, "EXACT_CANONICAL_URL", "n1", "n3")}),
           Doc("274aabcc57dd",
               Speech \cup Listed \cup {Related(1, "EXACT_HEADLINE_AND_SUMMARY", "n1", "n3")}),
           Doc("4b2621787a37", Speech \cup {Annotated}),
           Doc("e23aac921014", Speech \cup Known \cup {Attributed}),
           Doc("d8995cb04276", {Fetched})}

-----------------------------------------------------------------------------
(* Forecasts: outcomes of one second and two fractions of it, and of a        *)
(* meeting; a second identity under the meeting's key.                        *)

Defined == Row("forecast_outcome_definitions",
    [definition_key |-> "d", version_sequence |-> 1, provider_source_key |-> "agency"])
Outcome(k, n, period) == Row("forecast_outcome_vintages",
    [outcome_key |-> k, revision_sequence |-> n, definition_key |-> "d",
     definition_version_sequence |-> 1, outcome_type |-> "CATEGORICAL_EVENT"] @@ period)
On(second, fraction) ==
    [target_period_kind |-> "SPECIFIC_DATE", specific_date |-> <<second, fraction>>]
MeetingOf(meeting) == [target_period_kind |-> "POLICY_MEETING", policy_meeting_identifier |-> meeting]
Measures(outcome) ==
    Known \cup {Defined, outcome,
                Row("forecast_outcome_identity_bindings",
                    Binding(outcome.truth, ExactKey(outcome.truth)))}

OutcomeDoc(outcome) == Doc("0829067d81ae", Measures(outcome))
Measurements == {OutcomeDoc(Outcome("o1", 0, On(5, 0))), OutcomeDoc(Outcome("o2", 0, On(5, 7))),
              OutcomeDoc(Outcome("o3", 0, MeetingOf("June"))), OutcomeDoc(Outcome("o3", 1, MeetingOf("July")))}

Claimed == Known \cup
    {Row("forecast_claims", [claim_key |-> "c"]),
     Row("structured_forecast_vintages",
         [claim_key |-> "c", revision_sequence |-> 0, publisher_source_key |-> "agency"])}
Protocol == Row("forecast_evaluation_protocols",
    [protocol_key |-> "p", version_sequence |-> 1, outcome_definition_key |-> "d",
     outcome_definition_version_sequence |-> 1])
Evaluated == Row("structured_forecast_evaluation_vintages",
    [evaluation_key |-> "e", revision_sequence |-> 0, forecast_claim_key |-> "c",
     forecast_revision_sequence |-> 0, protocol_key |-> "p", protocol_version_sequence |-> 1,
     outcome_definition_key |-> "d", outcome_definition_version_sequence |-> 1,
     outcome_key |-> "o3", outcome_revision_sequence |-> 0])
Scored == Claimed \cup Measures(Outcome("o3", 0, MeetingOf("June"))) \cup {Protocol, Evaluated}

Cohort == Row("forecast_performance_cohorts",
    [cohort_key |-> "h", version_sequence |-> 1, originator_publisher_source_key |-> "agency",
     protocol_key |-> "p", protocol_version_sequence |-> 1])
Method == Row("forecast_performance_methodologies",
    [methodology_key |-> "m", version_sequence |-> 1, cohort_key |-> "h",
     cohort_version_sequence |-> 1])
Naive == Row("forecast_performance_benchmarks",
    [benchmark_key |-> "b", version_sequence |-> 1, kind |-> "NAIVE_CATEGORICAL"])
Snapshot(n, pending) == Row("forecast_performance_snapshots",
    [snapshot_key |-> "s", revision_sequence |-> n, methodology_key |-> "m",
     methodology_version_sequence |-> 1, cohort_key |-> "h", cohort_version_sequence |-> 1,
     diag_pending_revision_count |-> pending])
Listing(table, n) == Row(table,
    [snapshot_key |-> "s", snapshot_revision_sequence |-> n, evaluation_key |-> "e"])
Performance == Scored \cup {Cohort, Method, Snapshot(0, 0),
                            Listing("forecast_performance_snapshot_members", 0)}

Scores == {Doc("afb65123d185", Claimed), Doc("0829067d81ae", Scored),
           Doc("0db892e6639a", Performance),
           Doc("0db892e6639a", Scored \cup {Cohort, Naive}),
           Doc("0072c7c74f86",
               Performance \cup {Snapshot(1, 2),
                                 Listing("forecast_performance_snapshot_exclusions", 1)})}

MCPlans == {{}, Market, Events, Seen, Judged, Measurements, Scores}

-----------------------------------------------------------------------------
allVars == <<vars, databaseVars>>

AtRest == \A w \in Workers : pc[w] = "idle"

MCInit == Init /\ DatabaseInit

MCNext ==
    \/ /\ documents = {} /\ db.revision = Latest
       /\ Next /\ UNCHANGED databaseVars
    \/ AtRest /\ DatabaseNext /\ UNCHANGED vars

MCFairSpec ==
    /\ MCInit /\ [][MCNext]_allVars
    /\ \A w \in Workers :
          WF_vars(Step(w)) /\ SF_vars(Connect(w)) /\ SF_vars(Lock(w)) /\ SF_vars(Checkout(w))
=============================================================================

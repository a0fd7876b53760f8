------------------------------ MODULE Revisions ------------------------------
(* alembic/versions: the chain of migrations, each as the statements its      *)
(* upgrade and its downgrade run.                                             *)
EXTENDS Schema

-----------------------------------------------------------------------------
(* The tables, as the migration that creates each creates it.                 *)

CandlesTable == Table(
    {"instrument", "granularity", "start_time", "bid_open", "bid_high", "bid_low", "bid_close",
     "ask_open", "ask_high", "ask_low", "ask_close", "volume", "is_finalized"},
    {},
    Unique(<<"instrument", "granularity", "start_time">>))

IngestionWatermarksTable == Table(
    {"instrument", "granularity", "earliest_ingested", "latest_ingested"},
    {},
    Unique(<<"instrument", "granularity">>))

MacroObservationVintagesTable == Table(
    {"series_key", "observation_period", "value", "released_at", "revision_sequence", "source"},
    {"effective_at"},
    Unique(<<"series_key", "observation_period", "revision_sequence">>))

EconomicEventOccurrencesTable == Table(
    {"indicator_key", "reference_period"},
    {"release_group_key"},
    Unique(<<"indicator_key", "reference_period">>))

EconomicEventActualValueVintagesTable == Table(
    {"indicator_key", "reference_period", "revision_sequence", "actual_value",
     "availability_confidence", "source"},
    {"availability", "raw_source_value"},
    Unique(<<"indicator_key", "reference_period", "revision_sequence">>) \cup
    Refers(<<"indicator_key", "reference_period">>, "economic_event_occurrences",
        <<"indicator_key", "reference_period">>) \cup
    Shaped({"economic_event_actual_value_vintages_avail_confidence"}))

EconomicEventConsensusVintagesTable == Table(
    {"indicator_key", "reference_period", "revision_sequence", "consensus_value",
     "availability_confidence", "source"},
    {"availability", "raw_source_value"},
    Unique(<<"indicator_key", "reference_period", "revision_sequence">>) \cup
    Refers(<<"indicator_key", "reference_period">>, "economic_event_occurrences",
        <<"indicator_key", "reference_period">>) \cup
    Shaped({"economic_event_consensus_vintages_avail_confidence"}))

EconomicEventScheduleVintagesTable == Table(
    {"indicator_key", "reference_period", "revision_sequence", "scheduled_date",
     "schedule_timezone", "status", "availability_confidence", "source"},
    {"scheduled_time", "availability"},
    Unique(<<"indicator_key", "reference_period", "revision_sequence">>) \cup
    Refers(<<"indicator_key", "reference_period">>, "economic_event_occurrences",
        <<"indicator_key", "reference_period">>) \cup
    Shaped({"economic_event_schedule_vintages_avail_confidence"}))

EconomicEventReleaseVintagesTable == Table(
    {"occurrence_key", "revision_sequence", "released_date", "released_timezone",
     "availability_confidence", "source"},
    {"released_time", "availability"},
    Unique(<<"occurrence_key", "revision_sequence">>) \cup
    Refers(<<"occurrence_key">>, "economic_event_occurrences", <<"occurrence_key">>) \cup
    Shaped({"economic_event_release_vintages_avail_confidence"}))

EconomicEventSourceMappingsTable == Table(
    {"source", "external_event_id", "indicator_key", "occurrence_key"},
    {},
    Unique(<<"source", "external_event_id", "indicator_key">>))

NewsItemsTable == Table(
    {"news_item_key", "first_seen_at", "first_observation_mode"},
    {},
    Unique(<<"news_item_key">>))

NewsSourceMappingsTable == Table(
    {"source_key", "external_item_id", "news_item_key"},
    {},
    Unique(<<"source_key", "external_item_id">>) \cup Unique(<<"news_item_key">>) \cup
    Refers(<<"news_item_key">>, "news_items", <<"news_item_key">>))

NewsItemVintagesTable == Table(
    {"news_item_key", "revision_sequence", "availability", "observation_mode", "headline",
     "authors", "source_timestamp_provenance", "source_revision_metadata", "source_status",
     "evidence_disposition"},
    {"summary", "body_text", "canonical_url", "language", "source_content_type",
     "source_published_at", "source_updated_at", "quarantine_reason"},
    Unique(<<"news_item_key", "revision_sequence">>) \cup
    Refers(<<"news_item_key">>, "news_items", <<"news_item_key">>) \cup
    Shaped({"news_item_vintages_quarantine_reason"}))

NewsCanonicalRelationVintagesTable == Table(
    {"left_news_item_key", "right_news_item_key", "revision_sequence", "availability",
     "relation_kind", "method", "left_item_revision_sequence", "right_item_revision_sequence",
     "algorithm_version"},
    {},
    Unique(<<"left_news_item_key", "right_news_item_key", "revision_sequence">>) \cup
    Refers(<<"left_news_item_key">>, "news_items", <<"news_item_key">>) \cup
    Refers(<<"right_news_item_key">>, "news_items", <<"news_item_key">>) \cup
    Refers(<<"left_news_item_key", "left_item_revision_sequence">>, "news_item_vintages",
        <<"news_item_key", "revision_sequence">>) \cup
    Refers(<<"right_news_item_key", "right_item_revision_sequence">>, "news_item_vintages",
        <<"news_item_key", "revision_sequence">>) \cup
    Natural({"revision_sequence", "left_item_revision_sequence",
        "right_item_revision_sequence"}) \cup NotEmpty({"algorithm_version"}) \cup
    OneOf("relation_kind", {"SAME_STORY", "NOT_SAME_STORY"}) \cup
    OneOf("method", {"EXACT_CANONICAL_URL", "EXACT_BODY_TEXT", "EXACT_HEADLINE_AND_SUMMARY",
        "MANUAL_REVIEW"}) \cup
    AutomaticIsSameStory({"EXACT_CANONICAL_URL", "EXACT_BODY_TEXT",
        "EXACT_HEADLINE_AND_SUMMARY"}) \cup
    Shaped({"ncrv_left_lt_right", "ncrv_not_same_story_is_manual_review"}))

NewsSemanticAnnotationVintagesTable == Table(
    {"news_item_key", "revision_sequence", "availability", "basis_news_item_revision_sequence",
     "algorithm_version", "entities", "topics", "currency_relevance"},
    {},
    Unique(<<"news_item_key", "revision_sequence">>) \cup
    Refers(<<"news_item_key">>, "news_items", <<"news_item_key">>) \cup
    Refers(<<"news_item_key", "basis_news_item_revision_sequence">>, "news_item_vintages",
        <<"news_item_key", "revision_sequence">>) \cup
    Natural({"revision_sequence", "basis_news_item_revision_sequence"}) \cup
    NotEmpty({"algorithm_version", "entities", "currency_relevance"}) \cup
    IsArray({"entities", "topics", "currency_relevance"}))

IntelligenceSourcesTable == Table(
    {"source_key", "source_kind", "registered_at"},
    {},
    Unique(<<"source_key">>) \cup
    OneOf("source_kind", {"ORGANIZATION", "PERSON", "PUBLICATION", "TECHNICAL_FEED"}))

SourceIdentityVintagesTable == Table(
    {"source_key", "revision_sequence", "availability", "algorithm_version", "display_name",
     "aliases", "evidence_kind", "evidence_description"},
    {"authoritative_identifier", "canonical_website", "correction_reason"},
    Unique(<<"source_key", "revision_sequence">>) \cup
    Refers(<<"source_key">>, "intelligence_sources", <<"source_key">>) \cup
    Natural({"revision_sequence"}) \cup
    NotEmpty({"algorithm_version", "display_name", "evidence_description"}) \cup
    IsArray({"aliases"}) \cup
    OneOf("evidence_kind", {"ADAPTER_CONFIGURATION", "SOURCE_NATIVE_METADATA",
        "AUTHORITATIVE_REFERENCE", "MANUAL_REVIEW"}))

SourceAttributionVintagesTable == Table(
    {"news_item_key", "role", "revision_sequence", "availability", "algorithm_version", "status",
     "evidence_basis_revision_sequence", "evidence_kind", "evidence_description"},
    {"attributed_source_key", "corrects_revision_sequence"},
    Unique(<<"news_item_key", "role", "revision_sequence">>) \cup
    Refers(<<"news_item_key">>, "news_items", <<"news_item_key">>) \cup
    Refers(<<"news_item_key", "evidence_basis_revision_sequence">>, "news_item_vintages",
        <<"news_item_key", "revision_sequence">>) \cup
    Refers(<<"attributed_source_key">>, "intelligence_sources", <<"source_key">>) \cup
    Natural({"revision_sequence", "evidence_basis_revision_sequence"}) \cup
    NotEmpty({"algorithm_version", "evidence_description"}) \cup
    OneOf("role", {"PUBLISHER", "ORIGINATING_CLAIMANT", "QUOTED_ACTOR"}) \cup
    OneOf("status", {"CONFIRMED", "UNRESOLVED"}) \cup
    OneOf("evidence_kind", {"ADAPTER_CONFIGURATION", "SOURCE_NATIVE_METADATA",
        "AUTHORITATIVE_REFERENCE", "MANUAL_REVIEW"}) \cup
    Shaped({"sav_status_source_key_consistency", "sav_corrects_revision_sequence"}))

SourceOperationalObservationsTable == Table(
    {"source_key", "source_channel", "run_id", "attempt_number", "kind", "outcome", "availability",
     "policy_version"},
    {"http_status"},
    Unique(<<"source_key", "run_id", "attempt_number">>) \cup
    NotEmpty({"source_key", "source_channel", "run_id", "policy_version"}) \cup
    OneOf("kind", {"ACQUISITION_ATTEMPT"}) \cup
    OneOf("outcome", {"SUCCESS", "HTTP_FAILURE", "TIMEOUT", "NETWORK_FAILURE"}) \cup
    Shaped({"soo_attempt_number", "soo_http_status"}))

ForecastClaimsTable == Table(
    {"claim_key", "registered_at"},
    {},
    Unique(<<"claim_key">>) \cup NotEmpty({"claim_key"}))

StructuredForecastVintagesTable == Table(
    {"claim_key", "revision_sequence", "availability", "algorithm_version", "forecast_type",
     "target_key", "target_period_kind", "attribution_kind", "publisher_source_key",
     "provenance_mode", "evidence_kind", "evidence_description"},
    {"calendar_year", "calendar_quarter", "calendar_month", "specific_date",
     "policy_meeting_identifier", "numeric_value", "unit", "categorical_outcome",
     "forecaster_source_key", "anonymous_respondent_id", "news_item_key", "basis_revision_sequence",
     "document_identifier", "document_locator", "official_reference_url", "content_fingerprint",
     "publisher_declared_publication_at", "original_publication_at", "correction_reason"},
    Unique(<<"claim_key", "revision_sequence">>) \cup
    Refers(<<"claim_key">>, "forecast_claims", <<"claim_key">>) \cup
    Refers(<<"publisher_source_key">>, "intelligence_sources", <<"source_key">>) \cup
    Refers(<<"forecaster_source_key">>, "intelligence_sources", <<"source_key">>) \cup
    Refers(<<"news_item_key", "basis_revision_sequence">>, "news_item_vintages", <<"news_item_key",
        "revision_sequence">>) \cup Natural({"revision_sequence"}) \cup
    NotEmpty({"algorithm_version", "target_key", "publisher_source_key",
        "evidence_description"}) \cup
    OneOf("forecast_type", {"NUMERIC_POINT", "CATEGORICAL_EVENT"}) \cup
    OneOf("target_period_kind", {"CALENDAR_YEAR", "CALENDAR_QUARTER", "CALENDAR_MONTH",
        "SPECIFIC_DATE", "POLICY_MEETING"}) \cup
    OneOf("attribution_kind", {"NAMED_INSTITUTION", "AGGREGATE_SURVEY_CONSENSUS",
        "ANONYMOUS_RESPONDENT"}) \cup
    OneOf("evidence_kind", {"NEWS_ITEM_VINTAGE_BASIS", "EXTERNAL_DOCUMENT_REFERENCE"}) \cup
    Shaped({"sfv_payload_shape", "sfv_attribution_shape", "sfv_evidence_shape"}))

ForecastOutcomeDefinitionsTable == Table(
    {"definition_key", "version_sequence", "target_key", "outcome_type", "provider_source_key",
     "required_source_series_identifier", "outcome_vintage_selection_policy", "availability",
     "supporting_definition_reference"},
    {"correction_reason"},
    Unique(<<"definition_key", "version_sequence">>) \cup
    Refers(<<"provider_source_key">>, "intelligence_sources", <<"source_key">>) \cup
    Natural({"version_sequence"}) \cup
    NotEmpty({"definition_key", "target_key", "required_source_series_identifier",
        "supporting_definition_reference"}) \cup
    OneOf("outcome_type", {"NUMERIC_POINT", "CATEGORICAL_EVENT"}) \cup
    OneOf("outcome_vintage_selection_policy", {"FIRST_RELEASE", "LATEST_AVAILABLE_AS_OF",
        "FIXED_RELEASE_VINTAGE"}))

ForecastOutcomeVintagesTable == Table(
    {"outcome_key", "revision_sequence", "definition_key", "definition_version_sequence",
     "availability", "target_period_kind", "outcome_type", "evidence_kind", "evidence_description",
     "reviewed_by", "review_method", "reviewed_at", "provenance_mode"},
    {"calendar_year", "calendar_quarter", "calendar_month", "specific_date",
     "policy_meeting_identifier", "numeric_value", "unit", "categorical_outcome", "news_item_key",
     "basis_revision_sequence", "document_identifier", "document_locator", "official_reference_url",
     "content_fingerprint", "publisher_declared_publication_at", "corroboration_reference",
     "provider_release_identifier", "provider_published_at", "content_integrity_reference",
     "correction_reason"},
    Unique(<<"outcome_key", "revision_sequence">>) \cup
    Refers(<<"definition_key", "definition_version_sequence">>, "forecast_outcome_definitions",
        <<"definition_key", "version_sequence">>) \cup
    Refers(<<"news_item_key", "basis_revision_sequence">>, "news_item_vintages", <<"news_item_key",
        "revision_sequence">>) \cup Natural({"revision_sequence"}) \cup
    NotEmpty({"outcome_key", "evidence_description", "reviewed_by", "review_method"}) \cup
    OneOf("outcome_type", {"NUMERIC_POINT", "CATEGORICAL_EVENT"}) \cup
    OneOf("target_period_kind", {"CALENDAR_YEAR", "CALENDAR_QUARTER", "CALENDAR_MONTH",
        "SPECIFIC_DATE", "POLICY_MEETING"}) \cup
    OneOf("evidence_kind", {"NEWS_ITEM_VINTAGE_BASIS", "EXTERNAL_DOCUMENT_REFERENCE"}) \cup
    OneOf("provenance_mode", {"PRODUCTION_OBSERVED", "RETROSPECTIVE_RESEARCH"}) \cup
    Shaped({"outcome_vintage_payload_shape", "outcome_vintage_evidence_shape"}))

ForecastEvaluationProtocolsTable == Table(
    {"protocol_key", "version_sequence", "supported_forecast_type", "target_key",
     "outcome_definition_key", "outcome_definition_version_sequence",
     "outcome_vintage_selection_policy", "metric", "availability", "rationale"},
    {"fixed_outcome_revision_sequence", "correction_reason"},
    Unique(<<"protocol_key", "version_sequence">>) \cup
    Refers(<<"outcome_definition_key", "outcome_definition_version_sequence">>,
        "forecast_outcome_definitions", <<"definition_key", "version_sequence">>) \cup
    Natural({"version_sequence", "outcome_definition_version_sequence"}) \cup
    NotEmpty({"protocol_key", "target_key", "outcome_definition_key", "rationale"}) \cup
    OneOf("supported_forecast_type", {"NUMERIC_POINT", "CATEGORICAL_EVENT"}) \cup
    OneOf("outcome_vintage_selection_policy", {"FIRST_RELEASE", "LATEST_AVAILABLE_AS_OF",
        "FIXED_RELEASE_VINTAGE"}) \cup OneOf("metric", {"NUMERIC_ERROR", "CATEGORICAL_MATCH"}) \cup
    Shaped({"evaluation_protocol_fixed_revision_shape"}))

StructuredForecastEvaluationVintagesTable == Table(
    {"evaluation_key", "revision_sequence", "forecast_claim_key", "forecast_revision_sequence",
     "protocol_key", "protocol_version_sequence", "outcome_definition_key",
     "outcome_definition_version_sequence", "outcome_key", "outcome_revision_sequence",
     "evaluation_mode", "algorithm_version", "availability", "metric", "forecast_reviewed_by",
     "forecast_review_method", "forecast_reviewed_at"},
    {"signed_error", "absolute_error", "result_unit", "categorical_result",
     "forecast_corroboration_reference", "correction_reason"},
    Unique(<<"evaluation_key", "revision_sequence">>) \cup
    Refers(<<"forecast_claim_key", "forecast_revision_sequence">>, "structured_forecast_vintages",
        <<"claim_key", "revision_sequence">>) \cup
    Refers(<<"protocol_key", "protocol_version_sequence">>, "forecast_evaluation_protocols",
        <<"protocol_key", "version_sequence">>) \cup
    Refers(<<"outcome_definition_key", "outcome_definition_version_sequence">>,
        "forecast_outcome_definitions", <<"definition_key", "version_sequence">>) \cup
    Refers(<<"outcome_key", "outcome_revision_sequence">>, "forecast_outcome_vintages",
        <<"outcome_key", "revision_sequence">>) \cup Natural({"revision_sequence"}) \cup
    NotEmpty({"evaluation_key", "algorithm_version", "forecast_reviewed_by",
        "forecast_review_method"}) \cup
    OneOf("evaluation_mode", {"PRODUCTION_OBSERVED", "RETROSPECTIVE_RESEARCH"}) \cup
    OneOf("metric", {"NUMERIC_ERROR", "CATEGORICAL_MATCH"}) \cup
    OneOf("categorical_result", {"MATCH", "MISMATCH"}) \cup Shaped({"evaluation_result_shape"}))

ForecastOutcomeIdentityBindingsTable == Table(
    {"definition_key", "target_period_key", "outcome_type", "unit", "outcome_key"},
    {},
    Unique(<<"definition_key", "target_period_key", "outcome_type", "unit">>) \cup
    Unique(<<"outcome_key">>) \cup
    NotEmpty({"definition_key", "target_period_key", "unit", "outcome_key"}) \cup
    OneOf("outcome_type", {"NUMERIC_POINT", "CATEGORICAL_EVENT"}))

ForecastPerformanceCohortsTable == Table(
    {"cohort_key", "version_sequence", "attribution_kind", "originator_publisher_source_key",
     "target_key", "forecast_type", "horizon_category", "protocol_key", "protocol_version_sequence",
     "evaluation_mode", "duplicate_selection_policy", "known_duplicate_evaluation_keys",
     "availability", "rationale"},
    {"originator_forecaster_source_key", "issue_window_start", "issue_window_end",
     "correction_reason"},
    Unique(<<"cohort_key", "version_sequence">>) \cup
    Refers(<<"originator_publisher_source_key">>, "intelligence_sources", <<"source_key">>) \cup
    Refers(<<"originator_forecaster_source_key">>, "intelligence_sources", <<"source_key">>) \cup
    Refers(<<"protocol_key", "protocol_version_sequence">>, "forecast_evaluation_protocols",
        <<"protocol_key", "version_sequence">>) \cup
    Natural({"version_sequence", "protocol_version_sequence"}) \cup
    NotEmpty({"target_key", "horizon_category", "protocol_key", "rationale"}) \cup
    OneOf("attribution_kind", {"NAMED_INSTITUTION", "AGGREGATE_SURVEY_CONSENSUS",
        "ANONYMOUS_RESPONDENT"}) \cup
    OneOf("forecast_type", {"NUMERIC_POINT", "CATEGORICAL_EVENT"}) \cup
    OneOf("evaluation_mode", {"PRODUCTION_OBSERVED", "RETROSPECTIVE_RESEARCH"}) \cup
    OneOf("duplicate_selection_policy", {"EARLIEST_QUALIFYING_ISSUE"}) \cup
    Shaped({"fpc_originator_shape"}))

ForecastPerformanceBenchmarksTable == Table(
    {"benchmark_key", "version_sequence", "kind", "target_key", "horizon_category", "metric",
     "availability", "rationale"},
    {"benchmark_cohort_key", "benchmark_cohort_version_sequence", "naive_categorical_class",
     "naive_numeric_reference_value", "naive_numeric_reference_description", "correction_reason"},
    Unique(<<"benchmark_key", "version_sequence">>) \cup
    Refers(<<"benchmark_cohort_key", "benchmark_cohort_version_sequence">>,
        "forecast_performance_cohorts", <<"cohort_key", "version_sequence">>) \cup
    Natural({"version_sequence"}) \cup
    NotEmpty({"target_key", "horizon_category", "rationale"}) \cup
    OneOf("kind", {"AUTHENTICATED_SERIES", "NAIVE_CATEGORICAL", "NAIVE_NUMERIC"}) \cup
    OneOf("metric", {"NUMERIC_ERROR", "CATEGORICAL_MATCH"}) \cup Shaped({"fpb_kind_shape"}))

ForecastPerformanceMethodologiesTable == Table(
    {"methodology_key", "version_sequence", "cohort_key", "cohort_version_sequence",
     "missing_data_policy", "algorithm_version", "availability", "rationale"},
    {"benchmark_key", "benchmark_version_sequence", "correction_reason"},
    Unique(<<"methodology_key", "version_sequence">>) \cup
    Refers(<<"cohort_key", "cohort_version_sequence">>, "forecast_performance_cohorts",
        <<"cohort_key", "version_sequence">>) \cup
    Refers(<<"benchmark_key", "benchmark_version_sequence">>, "forecast_performance_benchmarks",
        <<"benchmark_key", "version_sequence">>) \cup
    Natural({"version_sequence", "cohort_version_sequence"}) \cup
    NotEmpty({"algorithm_version", "rationale"}) \cup
    OneOf("missing_data_policy", {"EXCLUDE_FROM_DENOMINATOR"}) \cup Shaped({"fpm_benchmark_shape"}))

ForecastPerformanceSnapshotsTable == Table(
    {"snapshot_key", "revision_sequence", "methodology_key", "methodology_version_sequence",
     "cohort_key", "cohort_version_sequence", "evaluation_mode", "knowledge_cutoff", "availability",
     "algorithm_version", "benchmark_status", "benchmark_paired_count", "diag_raw_candidate_count",
     "diag_accepted_count", "diag_unique_forecast_issue_count", "diag_unique_target_event_count",
     "diag_distinct_target_period_count", "diag_production_count", "diag_research_count",
     "diag_missing_outcome_rate", "sample_adequacy"},
    {"numeric_n", "numeric_unit", "numeric_mean_absolute_error", "numeric_mean_signed_error",
     "numeric_root_mean_squared_error", "categorical_n", "categorical_match_count",
     "categorical_mismatch_count", "categorical_accuracy", "confusion_counts",
     "realized_class_distribution", "benchmark_key", "benchmark_version_sequence",
     "source_mean_absolute_error", "benchmark_mean_absolute_error",
     "mean_absolute_error_difference", "relative_mae_improvement", "source_accuracy",
     "benchmark_accuracy", "accuracy_difference", "diag_earliest_availability",
     "diag_latest_availability", "correction_reason"},
    Unique(<<"snapshot_key", "revision_sequence">>) \cup
    Refers(<<"cohort_key", "cohort_version_sequence">>, "forecast_performance_cohorts",
        <<"cohort_key", "version_sequence">>) \cup
    Refers(<<"methodology_key", "methodology_version_sequence">>,
        "forecast_performance_methodologies", <<"methodology_key", "version_sequence">>) \cup
    Natural({"revision_sequence", "cohort_version_sequence", "methodology_version_sequence"}) \cup
    NotEmpty({"algorithm_version"}) \cup
    OneOf("evaluation_mode", {"PRODUCTION_OBSERVED", "RETROSPECTIVE_RESEARCH"}) \cup
    OneOf("benchmark_status", {"COMPARED", "BENCHMARK_UNAVAILABLE"}) \cup
    OneOf("sample_adequacy", {"INSUFFICIENT_DATA", "DESCRIPTIVE_ONLY", "COMPARABLE_SAMPLE",
        "INFERENCE_SUPPORTED"}) \cup Shaped({"fps_summary_exclusive"}))

ForecastPerformanceSnapshotMembersTable == Table(
    {"snapshot_key", "snapshot_revision_sequence", "evaluation_key", "evaluation_revision_sequence",
     "forecast_claim_key", "forecast_revision_sequence", "outcome_key",
     "outcome_revision_sequence"},
    {},
    Unique(<<"snapshot_key", "snapshot_revision_sequence", "evaluation_key">>) \cup
    Refers(<<"snapshot_key", "snapshot_revision_sequence">>, "forecast_performance_snapshots",
        <<"snapshot_key", "revision_sequence">>) \cup
    Natural({"snapshot_revision_sequence", "evaluation_revision_sequence",
        "forecast_revision_sequence", "outcome_revision_sequence"}))

ForecastPerformanceSnapshotExclusionsTable == Table(
    {"snapshot_key", "snapshot_revision_sequence", "evaluation_key", "reason"},
    {},
    Unique(<<"snapshot_key", "snapshot_revision_sequence", "evaluation_key">>) \cup
    Refers(<<"snapshot_key", "snapshot_revision_sequence">>, "forecast_performance_snapshots",
        <<"snapshot_key", "revision_sequence">>) \cup Natural({"snapshot_revision_sequence"}))
-----------------------------------------------------------------------------
(* What a migration does to rows besides the statements of Schema.            *)

Data(what) == [do |-> what]

\* SELECT COUNT of each table, and RuntimeError over any row.
RefuseIfAny(tables) == [do |-> "refuse if any", tables |-> tables]
DropTables(ts) == [i \in DOMAIN ts |-> DropTable(ts[i])]
GuardedDrop(ts) == <<RefuseIfAny(Range(ts))>> \o DropTables(ts)

Refusing(w, refused) == [w EXCEPT !.ok = ~refused]
Mapping(w, t, F(_)) == [w EXCEPT !.rows = {IF r.table = t THEN F(r) ELSE r : r \in w.rows}]

\* Every row fails closed, whatever it said.
Unverify(w) ==
    Mapping(w, "macro_observation_vintages", LAMBDA r : With(r, "released_at_is_verified", FALSE))

\* _CONTENT_TYPE_TO_CHANNEL.
ChannelOf == [monetary_policy_release |-> "press_monetary", speech |-> "speeches",
              testimony |-> "testimony"]

NameChannels(w) ==
    LET known(r) == /\ "source_content_type" \in DOMAIN r.holds
                    /\ r.holds["source_content_type"] \in DOMAIN ChannelOf
    IN Mapping(w, "news_item_vintages",
               LAMBDA r : IF known(r)
                          THEN With(r, "source_channel", ChannelOf[r.holds["source_content_type"]])
                          ELSE r)

RefuseUnnamedChannels(w) ==
    Refusing(w, \E r \in RowsOf(w.rows, "news_item_vintages") :
                   "source_channel" \notin DOMAIN r.holds)

\* Mutant: each row gets its own channel alone, what the docstring calls wrong.
ObserveOwnChannel(w) ==
    Mapping(w, "news_item_vintages",
            LAMBDA r : With(r, "observed_source_channels", {r.holds["source_channel"]}))

\* _compute_cumulative_channels: the channels of the item's revisions so far.
ObserveChannels(w) ==
    LET soFar(r) == {q \in RowsOf(w.rows, "news_item_vintages") :
                       /\ q.holds["news_item_key"] = r.holds["news_item_key"]
                       /\ q.holds["revision_sequence"] <= r.holds["revision_sequence"]}
    IN Mapping(w, "news_item_vintages",
               LAMBDA r : With(r, "observed_source_channels",
                               {q.holds["source_channel"] : q \in soFar(r)}))

RefuseSeveralChannels(w) ==
    Refusing(w, \E r \in RowsOf(w.rows, "news_item_vintages") :
                   Cardinality(r.holds["observed_source_channels"]) > 1)

RefuseHeadlineMethod(w) ==
    Refusing(w, \E r \in RowsOf(w.rows, "news_canonical_relation_vintages") :
                   r.holds["method"] = "EXACT_HEADLINE_AND_SUMMARY")

CountNoPending(w) ==
    Mapping(w, "forecast_performance_snapshots",
            LAMBDA r : With(r, "diag_pending_revision_count", 0))

-----------------------------------------------------------------------------
(* Which measurement an outcome is of, as the bindings' migrations write it.  *)

OutcomesIn(w) == RowsOf(w.rows, "forecast_outcome_vintages")

\* CASE target_period_kind.  A specific date is its second and its microsecond;
\* -1 says that the key names no fraction.
PeriodColumn == [CALENDAR_YEAR |-> "calendar_year", POLICY_MEETING |-> "policy_meeting_identifier"]
PeriodKey(v, fraction) ==
    LET kind == v["target_period_kind"]
    IN IF kind = "SPECIFIC_DATE" THEN <<kind, v["specific_date"][1], fraction>>
       ELSE <<kind, v[PeriodColumn[kind]], -1>>

LossyKey(v) == PeriodKey(v, -1)
ExactKey(v) == PeriodKey(v, v["specific_date"][2])

Binding(v, key) ==
    [definition_key |-> v["definition_key"], target_period_key |-> key,
     outcome_type |-> v["outcome_type"], outcome_key |-> v["outcome_key"],
     unit |-> IF "unit" \in DOMAIN v THEN v["unit"] ELSE "__NO_UNIT__"]

Identity == {"definition_key", "target_period_key", "outcome_type", "unit"}
Measured(v) == Restrict(Binding(v, LossyKey(v)), Identity)

\* One identity under two keys, or one key over two identities.
RefuseConflictingOutcomes(w) ==
    Refusing(w, \E v, u \in OutcomesIn(w) :
                   (v.holds["outcome_key"] = u.holds["outcome_key"])
                      # (Measured(v.holds) = Measured(u.holds)))

BindOutcomes(w) ==
    [w EXCEPT !.rows = @ \cup
       {[table |-> "forecast_outcome_identity_bindings",
         truth |-> Binding(v.truth, ExactKey(v.truth)),
         holds |-> Binding(v.holds, LossyKey(v.holds))] : v \in OutcomesIn(w)}]

\* The bindings of specific dates keyed anew, from the first revision of their
\* outcomes; the binding's unique key refuses two of one key.
Rekeyed(w, Key(_)) ==
    LET t == "forecast_outcome_identity_bindings"
        dated(b) == {v \in OutcomesIn(w) : /\ v.holds["outcome_key"] = b.holds["outcome_key"]
                                           /\ v.holds["target_period_kind"] = "SPECIFIC_DATE"}
        first(b) == CHOOSE v \in dated(b) : \A u \in dated(b) :
                       v.holds["revision_sequence"] <= u.holds["revision_sequence"]
        after == Mapping(w, t, LAMBDA b :
                    IF b.holds["target_period_key"][1] = "SPECIFIC_DATE" /\ dated(b) # {}
                    THEN With(b, "target_period_key", Key(first(b).holds)) ELSE b)
    IN Refusing(after, \E rule \in w.schema[t].rules : ~Keeps(after.rows, t, rule))

-----------------------------------------------------------------------------
(* Running a migration's statements: nothing runs after one that raised.      *)

Performs(w, s) ==
    CASE s.do = "refuse if any" -> Refusing(w, \E t \in s.tables : RowsOf(w.rows, t) # {})
      [] s.do = "unverify" -> Unverify(w)
      [] s.do = "name channels" -> NameChannels(w)
      [] s.do = "refuse unnamed channels" -> RefuseUnnamedChannels(w)
      [] s.do = "observe channels" -> ObserveChannels(w)
      [] s.do = "refuse several channels" -> RefuseSeveralChannels(w)
      [] s.do = "refuse headline method" -> RefuseHeadlineMethod(w)
      [] s.do = "count no pending" -> CountNoPending(w)
      [] s.do = "refuse conflicting outcomes" -> RefuseConflictingOutcomes(w)
      [] s.do = "bind outcomes" -> BindOutcomes(w)
      [] s.do = "correct keys" -> Rekeyed(w, ExactKey)
      [] s.do = "shorten keys" -> Rekeyed(w, LossyKey)
      [] OTHER -> Executes(w, s)

Runs(w, statements) == FoldLeft(LAMBDA v, s : IF v.ok THEN Performs(v, s) ELSE v, w, statements)

-----------------------------------------------------------------------------
(* The migrations.                                                            *)

Revision(id, up, down) == [id |-> id, up |-> up, down |-> down]

\* The extension that makes the rows' ids.
EnablePgcrypto == Revision("06755c32d64c", <<>>, <<>>)

CreateCandles ==
    Revision("91c1293c5760", <<CreateTable("candles", CandlesTable)>>, <<DropTable("candles")>>)

Bar == <<"instrument", "granularity", "start_time">>
AddCandleSource ==
    Revision("635084cc3eb0",
        <<AddColumn("candles", "source", TRUE, <<>>),
          DropRules("candles", Unique(Bar)),
          AddRules("candles", Unique(Append(Bar, "source")))>>,
        <<DropRules("candles", Unique(Append(Bar, "source"))),
          AddRules("candles", Unique(Bar)),
          DropColumn("candles", "source")>>)

AddIngestionWatermarks ==
    Revision("3a043ed9c1ed", <<CreateTable("ingestion_watermarks", IngestionWatermarksTable)>>,
             <<DropTable("ingestion_watermarks")>>)

AddMacroObservationVintages ==
    Revision("7f04ea660a34",
        <<CreateTable("macro_observation_vintages", MacroObservationVintagesTable)>>,
        <<DropTable("macro_observation_vintages")>>)

AddReleasedAtIsVerified ==
    Revision("5707ecb39242",
        <<AddColumn("macro_observation_vintages", "released_at_is_verified", TRUE, <<TRUE>>)>>,
        <<DropColumn("macro_observation_vintages", "released_at_is_verified")>>)

\* Its downgrade only sets the default back.
FailClosed == Revision("80c0ae20257b", <<Data("unverify")>>, <<>>)

AddConservativeBound ==
    Revision("aee1fa641be6",
        <<AddColumn("macro_observation_vintages", "released_at_is_conservative_bound", TRUE,
                    <<FALSE>>)>>,
        <<DropColumn("macro_observation_vintages", "released_at_is_conservative_bound")>>)

OneConfidence == NotBoth("released_at_is_verified", "released_at_is_conservative_bound")
AddExclusiveTiming ==
    Revision("f350d505412b", <<AddRules("macro_observation_vintages", OneConfidence)>>,
             <<DropRules("macro_observation_vintages", OneConfidence)>>)

AddEconomicEventTables ==
    Revision("bb7551fcef3a",
        <<CreateTable("economic_event_occurrences", EconomicEventOccurrencesTable),
          CreateTable("economic_event_actual_value_vintages",
                      EconomicEventActualValueVintagesTable),
          CreateTable("economic_event_consensus_vintages", EconomicEventConsensusVintagesTable),
          CreateTable("economic_event_schedule_vintages", EconomicEventScheduleVintagesTable)>>,
        DropTables(<<"economic_event_schedule_vintages", "economic_event_consensus_vintages",
                     "economic_event_actual_value_vintages", "economic_event_occurrences">>))

-----------------------------------------------------------------------------
(* 76a4b23b2129: an occurrence is known by a key of its own.                  *)

EventVintages == <<"economic_event_schedule_vintages", "economic_event_consensus_vintages",
                   "economic_event_actual_value_vintages">>
OfEachVintage(F(_)) == FoldLeft(LAMBDA all, t : all \o F(t), <<>>, EventVintages)

Indicated == <<"indicator_key", "reference_period">>
ByIndicator == Refers(Indicated, "economic_event_occurrences", Indicated)
ByOccurrence == Refers(<<"occurrence_key">>, "economic_event_occurrences", <<"occurrence_key">>)
RevisionOfIndicator == Unique(Append(Indicated, "revision_sequence"))
RevisionOfOccurrence == Unique(<<"occurrence_key", "revision_sequence">>)

RekeyVintage(t) ==
    <<AddColumn(t, "occurrence_key", TRUE, <<>>),
      DropRules(t, RevisionOfIndicator),
      AddRules(t, RevisionOfOccurrence),
      AddRules(t, ByOccurrence),
      DropColumn(t, "indicator_key"),
      DropColumn(t, "reference_period")>>

UnkeyVintage(t) ==
    <<AddColumn(t, "indicator_key", TRUE, <<>>),
      AddColumn(t, "reference_period", TRUE, <<>>),
      DropRules(t, ByOccurrence),
      DropRules(t, RevisionOfOccurrence),
      DropColumn(t, "occurrence_key")>>

HardenUp ==
    OfEachVintage(LAMBDA t : <<DropRules(t, ByIndicator)>>)
    \o <<AddColumn("economic_event_occurrences", "occurrence_key", TRUE, <<>>),
         DropRules("economic_event_occurrences", Unique(Indicated)),
         AddRules("economic_event_occurrences", Unique(<<"occurrence_key">>)),
         DropNotNull("economic_event_occurrences", "reference_period")>>
    \o OfEachVintage(RekeyVintage)
    \o <<CreateTable("economic_event_release_vintages", EconomicEventReleaseVintagesTable)>>

HardenDown ==
    <<RefuseIfAny({"economic_event_occurrences", "economic_event_release_vintages"}
                     \cup Range(EventVintages)),
      DropTable("economic_event_release_vintages")>>
    \o OfEachVintage(UnkeyVintage)
    \o <<SetNotNull("economic_event_occurrences", "reference_period"),
         DropRules("economic_event_occurrences", Unique(<<"occurrence_key">>)),
         AddRules("economic_event_occurrences", Unique(Indicated)),
         DropColumn("economic_event_occurrences", "occurrence_key")>>
    \o OfEachVintage(LAMBDA t : <<AddRules(t, RevisionOfIndicator), AddRules(t, ByIndicator)>>)

HardenEventIdentity == Revision("76a4b23b2129", HardenUp, HardenDown)

-----------------------------------------------------------------------------

AddMappingTable ==
    <<CreateTable("economic_event_source_mappings", EconomicEventSourceMappingsTable)>>
\* Mutant: as its docstring says it first was, an ordinary table removal.
AddSourceMappingsUnguarded ==
    Revision("df99b7796566", AddMappingTable, <<DropTable("economic_event_source_mappings")>>)
AddSourceMappings ==
    Revision("df99b7796566", AddMappingTable,
        GuardedDrop(<<"economic_event_source_mappings">>))

SourceMappingForeignKey ==
    Revision("ecdb152af0a8",
        <<AddColumn("economic_event_release_vintages", "source_published_at", FALSE, <<>>),
          AddRules("economic_event_source_mappings", ByOccurrence)>>,
        <<DropRules("economic_event_source_mappings", ByOccurrence),
          DropColumn("economic_event_release_vintages", "source_published_at")>>)

AddNewsEvidenceTables ==
    Revision("504030474987",
        <<CreateTable("news_items", NewsItemsTable),
          CreateTable("news_source_mappings", NewsSourceMappingsTable),
          CreateTable("news_item_vintages", NewsItemVintagesTable)>>,
        GuardedDrop(<<"news_item_vintages", "news_source_mappings", "news_items">>))

ObservationModes == {"PROSPECTIVE", "BACKFILL"}
VintageEnums ==
    Natural({"revision_sequence"}) \cup OneOf("observation_mode", ObservationModes) \cup
    OneOf("source_status", {"ACTIVE", "WITHDRAWN"}) \cup
    OneOf("evidence_disposition", {"EVIDENCE_ELIGIBLE", "QUARANTINED"})
ConstrainNewsEnums ==
    Revision("b2bbebf8ee3b",
        <<AddRules("news_items", OneOf("first_observation_mode", ObservationModes)),
          AddRules("news_item_vintages", VintageEnums)>>,
        <<DropRules("news_item_vintages", VintageEnums),
          DropRules("news_items", OneOf("first_observation_mode", ObservationModes))>>)

AddSourceChannel ==
    Revision("a95058f88727",
        <<AddColumn("news_item_vintages", "source_channel", FALSE, <<>>),
          Data("name channels"), Data("refuse unnamed channels"),
          SetNotNull("news_item_vintages", "source_channel")>>,
        <<RefuseIfAny({"news_item_vintages"}), DropColumn("news_item_vintages", "source_channel")>>)

AddObservedChannels ==
    Revision("73b1423a5949",
        <<AddColumn("news_item_vintages", "observed_source_channels", FALSE, <<>>),
          Data("observe channels"),
          SetNotNull("news_item_vintages", "observed_source_channels")>>,
        <<Data("refuse several channels"),
          DropColumn("news_item_vintages", "observed_source_channels")>>)

AddCanonicalRelations ==
    Revision("274aabcc57dd",
        <<CreateTable("news_canonical_relation_vintages", NewsCanonicalRelationVintagesTable)>>,
        GuardedDrop(<<"news_canonical_relation_vintages">>))

Exact == {"EXACT_CANONICAL_URL", "EXACT_BODY_TEXT"}
MethodsAllowed(automatic) ==
    OneOf("method", automatic \cup {"MANUAL_REVIEW"}) \cup AutomaticIsSameStory(automatic)
NarrowUp == <<Data("refuse headline method"),
              DropRules("news_canonical_relation_vintages",
                        MethodsAllowed(Exact \cup {"EXACT_HEADLINE_AND_SUMMARY"})),
              AddRules("news_canonical_relation_vintages", MethodsAllowed(Exact))>>
\* Mutant: the way back restores the list of methods, and not what the
\* automatic ones may decide.
NarrowMethodHalfway ==
    Revision("3fe8c43841ee", NarrowUp,
        <<DropRules("news_canonical_relation_vintages",
                    OneOf("method", Exact \cup {"MANUAL_REVIEW"})),
          AddRules("news_canonical_relation_vintages",
                   OneOf("method", Exact \cup {"EXACT_HEADLINE_AND_SUMMARY", "MANUAL_REVIEW"}))>>)
NarrowCanonicalMethod ==
    Revision("3fe8c43841ee", NarrowUp,
        <<DropRules("news_canonical_relation_vintages", MethodsAllowed(Exact)),
          AddRules("news_canonical_relation_vintages",
                   MethodsAllowed(Exact \cup {"EXACT_HEADLINE_AND_SUMMARY"}))>>)

AddSemanticAnnotations ==
    Revision("4b2621787a37",
        <<CreateTable("news_semantic_annotation_vintages", NewsSemanticAnnotationVintagesTable)>>,
        GuardedDrop(<<"news_semantic_annotation_vintages">>))

AddSourceRegistry ==
    Revision("e23aac921014",
        <<CreateTable("intelligence_sources", IntelligenceSourcesTable),
          CreateTable("source_identity_vintages", SourceIdentityVintagesTable),
          CreateTable("source_attribution_vintages", SourceAttributionVintagesTable)>>,
        GuardedDrop(<<"source_attribution_vintages", "source_identity_vintages",
                      "intelligence_sources">>))

AddOperationalObservations ==
    Revision("d8995cb04276",
        <<CreateTable("source_operational_observations", SourceOperationalObservationsTable)>>,
        GuardedDrop(<<"source_operational_observations">>))

AddStructuredForecasts ==
    Revision("afb65123d185",
        <<CreateTable("forecast_claims", ForecastClaimsTable),
          CreateTable("structured_forecast_vintages", StructuredForecastVintagesTable)>>,
        GuardedDrop(<<"structured_forecast_vintages", "forecast_claims">>))

AddOutcomeTables ==
    Revision("0829067d81ae",
        <<CreateTable("forecast_outcome_definitions", ForecastOutcomeDefinitionsTable),
          CreateTable("forecast_outcome_vintages", ForecastOutcomeVintagesTable),
          CreateTable("forecast_evaluation_protocols", ForecastEvaluationProtocolsTable),
          CreateTable("structured_forecast_evaluation_vintages",
                      StructuredForecastEvaluationVintagesTable)>>,
        GuardedDrop(<<"structured_forecast_evaluation_vintages",
                      "forecast_evaluation_protocols", "forecast_outcome_vintages",
                      "forecast_outcome_definitions">>))

AddIdentityBinding ==
    Revision("80877afdbe75",
        <<Data("refuse conflicting outcomes"),
          CreateTable("forecast_outcome_identity_bindings", ForecastOutcomeIdentityBindingsTable),
          Data("bind outcomes")>>,
        GuardedDrop(<<"forecast_outcome_identity_bindings">>))

CorrectSpecificDateKeys ==
    Revision("3b03a0c4f0ba", <<Data("correct keys")>>, <<Data("shorten keys")>>)

AddPerformanceTables ==
    Revision("0db892e6639a",
        <<CreateTable("forecast_performance_cohorts", ForecastPerformanceCohortsTable),
          CreateTable("forecast_performance_benchmarks", ForecastPerformanceBenchmarksTable),
          CreateTable("forecast_performance_methodologies", ForecastPerformanceMethodologiesTable),
          CreateTable("forecast_performance_snapshots", ForecastPerformanceSnapshotsTable),
          CreateTable("forecast_performance_snapshot_members",
                      ForecastPerformanceSnapshotMembersTable),
          CreateTable("forecast_performance_snapshot_exclusions",
                      ForecastPerformanceSnapshotExclusionsTable)>>,
        GuardedDrop(<<"forecast_performance_snapshot_exclusions",
                      "forecast_performance_snapshot_members",
                      "forecast_performance_snapshots", "forecast_performance_methodologies",
                      "forecast_performance_benchmarks", "forecast_performance_cohorts">>))

AddPendingRevisionCount ==
    Revision("0072c7c74f86",
        <<AddColumn("forecast_performance_snapshots", "diag_pending_revision_count", FALSE, <<>>),
          Data("count no pending"),
          SetNotNull("forecast_performance_snapshots", "diag_pending_revision_count")>>,
        <<RefuseIfAny({"forecast_performance_snapshots"}),
          DropColumn("forecast_performance_snapshots", "diag_pending_revision_count")>>)

\* Each revision's down_revision is the one before it.
Chain ==
    <<EnablePgcrypto, CreateCandles, AddCandleSource, AddIngestionWatermarks,
      AddMacroObservationVintages, AddReleasedAtIsVerified, FailClosed, AddConservativeBound,
      AddExclusiveTiming, AddEconomicEventTables, HardenEventIdentity, AddSourceMappings,
      SourceMappingForeignKey, AddNewsEvidenceTables, ConstrainNewsEnums, AddSourceChannel,
      AddObservedChannels, AddCanonicalRelations, NarrowCanonicalMethod, AddSemanticAnnotations,
      AddSourceRegistry, AddOperationalObservations, AddStructuredForecasts, AddOutcomeTables,
      AddIdentityBinding, CorrectSpecificDateKeys, AddPerformanceTables, AddPendingRevisionCount>>

Latest == Len(Chain)
At(id) == CHOOSE n \in DOMAIN Chain : Chain[n].id = id
=============================================================================

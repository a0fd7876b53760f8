----------------------------- MODULE TableModels -----------------------------
(* The tables as the application's own models declare them: what the         *)
(* repositories read and write.                                              *)
EXTENDS Schema, TLC

CandleRow == Table(
    {"instrument", "granularity", "start_time", "source", "bid_open", "bid_high", "bid_low",
     "bid_close", "ask_open", "ask_high", "ask_low", "ask_close", "volume", "is_finalized"},
    {},
    Unique(<<"instrument", "granularity", "start_time", "source">>))

EconomicEventActualValueVintageRow == Table(
    {"occurrence_key", "revision_sequence", "actual_value", "availability_confidence", "source"},
    {"availability", "raw_source_value"},
    Unique(<<"occurrence_key", "revision_sequence">>) \cup
    Refers(<<"occurrence_key">>, "economic_event_occurrences", <<"occurrence_key">>) \cup
    Shaped({"economic_event_actual_value_vintages_avail_confidence"}))

EconomicEventConsensusVintageRow == Table(
    {"occurrence_key", "revision_sequence", "consensus_value", "availability_confidence", "source"},
    {"availability", "raw_source_value"},
    Unique(<<"occurrence_key", "revision_sequence">>) \cup
    Refers(<<"occurrence_key">>, "economic_event_occurrences", <<"occurrence_key">>) \cup
    Shaped({"economic_event_consensus_vintages_avail_confidence"}))

EconomicEventOccurrenceRow == Table(
    {"occurrence_key", "indicator_key"},
    {"reference_period", "release_group_key"},
    Unique(<<"occurrence_key">>))

EconomicEventReleaseVintageRow == Table(
    {"occurrence_key", "revision_sequence", "released_date", "released_timezone",
     "availability_confidence", "source"},
    {"released_time", "availability", "source_published_at"},
    Unique(<<"occurrence_key", "revision_sequence">>) \cup
    Refers(<<"occurrence_key">>, "economic_event_occurrences", <<"occurrence_key">>) \cup
    Shaped({"economic_event_release_vintages_avail_confidence"}))

EconomicEventScheduleVintageRow == Table(
    {"occurrence_key", "revision_sequence", "scheduled_date", "schedule_timezone", "status",
     "availability_confidence", "source"},
    {"scheduled_time", "availability"},
    Unique(<<"occurrence_key", "revision_sequence">>) \cup
    Refers(<<"occurrence_key">>, "economic_event_occurrences", <<"occurrence_key">>) \cup
    Shaped({"economic_event_schedule_vintages_avail_confidence"}))

EconomicEventSourceMappingRow == Table(
    {"source", "external_event_id", "indicator_key", "occurrence_key"},
    {},
    Unique(<<"source", "external_event_id", "indicator_key">>) \cup
    Refers(<<"occurrence_key">>, "economic_event_occurrences", <<"occurrence_key">>))

ForecastClaimRow == Table(
    {"claim_key", "registered_at"},
    {},
    Unique(<<"claim_key">>) \cup NotEmpty({"claim_key"}))

ForecastEvaluationProtocolRow == Table(
    {"protocol_key", "version_sequence", "supported_forecast_type", "target_key",
     "outcome_definition_key", "outcome_definition_version_sequence",
     "outcome_vintage_selection_policy", "metric", "availability", "rationale"},
    {"fixed_outcome_revision_sequence", "correction_reason"},
    Unique(<<"protocol_key", "version_sequence">>) \cup
    Refers(<<"outcome_definition_key", "outcome_definition_version_sequence">>,
        "forecast_outcome_definitions", <<"definition_key", "version_sequence">>) \cup
    Natural({"version_sequence", "outcome_definition_version_sequence"}) \cup
    NotEmpty({"protocol_key", "target_key", "outcome_definition_key", "rationale"}) \cup
    OneOf("supported_forecast_type", {"NUMERIC_POINT", "CATEGORICAL_EVENT"}) \cup
    OneOf("outcome_vintage_selection_policy", {"FIRST_RELEASE", "LATEST_AVAILABLE_AS_OF",
        "FIXED_RELEASE_VINTAGE"}) \cup OneOf("metric", {"NUMERIC_ERROR", "CATEGORICAL_MATCH"}) \cup
    Shaped({"evaluation_protocol_fixed_revision_shape"}))

ForecastOutcomeDefinitionRow == Table(
    {"definition_key", "version_sequence", "target_key", "outcome_type", "provider_source_key",
     "required_source_series_identifier", "outcome_vintage_selection_policy", "availability",
     "supporting_definition_reference"},
    {"correction_reason"},
    Unique(<<"definition_key", "version_sequence">>) \cup
    Refers(<<"provider_source_key">>, "intelligence_sources", <<"source_key">>) \cup
    Natural({"version_sequence"}) \cup
    NotEmpty({"definition_key", "target_key", "required_source_series_identifier",
        "supporting_definition_reference"}) \cup
    OneOf("outcome_type", {"NUMERIC_POINT", "CATEGORICAL_EVENT"}) \cup
    OneOf("outcome_vintage_selection_policy", {"FIRST_RELEASE", "LATEST_AVAILABLE_AS_OF",
        "FIXED_RELEASE_VINTAGE"}))

ForecastOutcomeIdentityBindingRow == Table(
    {"definition_key", "target_period_key", "outcome_type", "unit", "outcome_key"},
    {},
    Unique(<<"definition_key", "target_period_key", "outcome_type", "unit">>) \cup
    Unique(<<"outcome_key">>) \cup
    NotEmpty({"definition_key", "target_period_key", "unit", "outcome_key"}) \cup
    OneOf("outcome_type", {"NUMERIC_POINT", "CATEGORICAL_EVENT"}))

ForecastOutcomeVintageRow == Table(
    {"outcome_key", "revision_sequence", "definition_key", "definition_version_sequence",
     "availability", "target_period_kind", "outcome_type", "evidence_kind", "evidence_description",
     "reviewed_by", "review_method", "reviewed_at", "provenance_mode"},
    {"calendar_year", "calendar_quarter", "calendar_month", "specific_date",
     "policy_meeting_identifier", "numeric_value", "unit", "categorical_outcome", "news_item_key",
     "basis_revision_sequence", "document_identifier", "document_locator", "official_reference_url",
     "content_fingerprint", "publisher_declared_publication_at", "corroboration_reference",
     "provider_release_identifier", "provider_published_at", "content_integrity_reference",
     "correction_reason"},
    Unique(<<"outcome_key", "revision_sequence">>) \cup
    Refers(<<"definition_key", "definition_version_sequence">>, "forecast_outcome_definitions",
        <<"definition_key", "version_sequence">>) \cup
    Refers(<<"news_item_key", "basis_revision_sequence">>, "news_item_vintages", <<"news_item_key",
        "revision_sequence">>) \cup Natural({"revision_sequence"}) \cup
    NotEmpty({"outcome_key", "evidence_description", "reviewed_by", "review_method"}) \cup
    OneOf("outcome_type", {"NUMERIC_POINT", "CATEGORICAL_EVENT"}) \cup
    OneOf("target_period_kind", {"CALENDAR_YEAR", "CALENDAR_QUARTER", "CALENDAR_MONTH",
        "SPECIFIC_DATE", "POLICY_MEETING"}) \cup
    OneOf("evidence_kind", {"NEWS_ITEM_VINTAGE_BASIS", "EXTERNAL_DOCUMENT_REFERENCE"}) \cup
    OneOf("provenance_mode", {"PRODUCTION_OBSERVED", "RETROSPECTIVE_RESEARCH"}) \cup
    Shaped({"outcome_vintage_payload_shape", "outcome_vintage_evidence_shape"}))

ForecastPerformanceBenchmarkRow == Table(
    {"benchmark_key", "version_sequence", "kind", "target_key", "horizon_category", "metric",
     "availability", "rationale"},
    {"benchmark_cohort_key", "benchmark_cohort_version_sequence", "naive_categorical_class",
     "naive_numeric_reference_value", "naive_numeric_reference_description", "correction_reason"},
    Unique(<<"benchmark_key", "version_sequence">>) \cup
    Refers(<<"benchmark_cohort_key", "benchmark_cohort_version_sequence">>,
        "forecast_performance_cohorts", <<"cohort_key", "version_sequence">>) \cup
    Natural({"version_sequence"}) \cup
    NotEmpty({"target_key", "horizon_category", "rationale"}) \cup
    OneOf("kind", {"AUTHENTICATED_SERIES", "NAIVE_CATEGORICAL", "NAIVE_NUMERIC"}) \cup
    OneOf("metric", {"NUMERIC_ERROR", "CATEGORICAL_MATCH"}) \cup Shaped({"fpb_kind_shape"}))

ForecastPerformanceCohortRow == Table(
    {"cohort_key", "version_sequence", "attribution_kind", "originator_publisher_source_key",
     "target_key", "forecast_type", "horizon_category", "protocol_key", "protocol_version_sequence",
     "evaluation_mode", "duplicate_selection_policy", "known_duplicate_evaluation_keys",
     "availability", "rationale"},
    {"originator_forecaster_source_key", "issue_window_start", "issue_window_end",
     "correction_reason"},
    Unique(<<"cohort_key", "version_sequence">>) \cup
    Refers(<<"originator_publisher_source_key">>, "intelligence_sources", <<"source_key">>) \cup
    Refers(<<"originator_forecaster_source_key">>, "intelligence_sources", <<"source_key">>) \cup
    Refers(<<"protocol_key", "protocol_version_sequence">>, "forecast_evaluation_protocols",
        <<"protocol_key", "version_sequence">>) \cup
    Natural({"version_sequence", "protocol_version_sequence"}) \cup
    NotEmpty({"target_key", "horizon_category", "protocol_key", "rationale"}) \cup
    OneOf("attribution_kind", {"NAMED_INSTITUTION", "AGGREGATE_SURVEY_CONSENSUS",
        "ANONYMOUS_RESPONDENT"}) \cup
    OneOf("forecast_type", {"NUMERIC_POINT", "CATEGORICAL_EVENT"}) \cup
    OneOf("evaluation_mode", {"PRODUCTION_OBSERVED", "RETROSPECTIVE_RESEARCH"}) \cup
    OneOf("duplicate_selection_policy", {"EARLIEST_QUALIFYING_ISSUE"}) \cup
    Shaped({"fpc_originator_shape"}))

ForecastPerformanceMethodologyRow == Table(
    {"methodology_key", "version_sequence", "cohort_key", "cohort_version_sequence",
     "missing_data_policy", "algorithm_version", "availability", "rationale"},
    {"benchmark_key", "benchmark_version_sequence", "correction_reason"},
    Unique(<<"methodology_key", "version_sequence">>) \cup
    Refers(<<"cohort_key", "cohort_version_sequence">>, "forecast_performance_cohorts",
        <<"cohort_key", "version_sequence">>) \cup
    Refers(<<"benchmark_key", "benchmark_version_sequence">>, "forecast_performance_benchmarks",
        <<"benchmark_key", "version_sequence">>) \cup
    Natural({"version_sequence", "cohort_version_sequence"}) \cup
    NotEmpty({"algorithm_version", "rationale"}) \cup
    OneOf("missing_data_policy", {"EXCLUDE_FROM_DENOMINATOR"}) \cup Shaped({"fpm_benchmark_shape"}))

ForecastPerformanceSnapshotRow == Table(
    {"snapshot_key", "revision_sequence", "methodology_key", "methodology_version_sequence",
     "cohort_key", "cohort_version_sequence", "evaluation_mode", "knowledge_cutoff", "availability",
     "algorithm_version", "benchmark_status", "benchmark_paired_count", "diag_raw_candidate_count",
     "diag_accepted_count", "diag_unique_forecast_issue_count", "diag_unique_target_event_count",
     "diag_distinct_target_period_count", "diag_production_count", "diag_research_count",
     "diag_pending_revision_count", "diag_missing_outcome_rate", "sample_adequacy"},
    {"numeric_n", "numeric_unit", "numeric_mean_absolute_error", "numeric_mean_signed_error",
     "numeric_root_mean_squared_error", "categorical_n", "categorical_match_count",
     "categorical_mismatch_count", "categorical_accuracy", "confusion_counts",
     "realized_class_distribution", "benchmark_key", "benchmark_version_sequence",
     "source_mean_absolute_error", "benchmark_mean_absolute_error",
     "mean_absolute_error_difference", "relative_mae_improvement", "source_accuracy",
     "benchmark_accuracy", "accuracy_difference", "diag_earliest_availability",
     "diag_latest_availability", "correction_reason"},
    Unique(<<"snapshot_key", "revision_sequence">>) \cup
    Refers(<<"cohort_key", "cohort_version_sequence">>, "forecast_performance_cohorts",
        <<"cohort_key", "version_sequence">>) \cup
    Refers(<<"methodology_key", "methodology_version_sequence">>,
        "forecast_performance_methodologies", <<"methodology_key", "version_sequence">>) \cup
    Natural({"revision_sequence", "cohort_version_sequence", "methodology_version_sequence"}) \cup
    NotEmpty({"algorithm_version"}) \cup
    OneOf("evaluation_mode", {"PRODUCTION_OBSERVED", "RETROSPECTIVE_RESEARCH"}) \cup
    OneOf("benchmark_status", {"COMPARED", "BENCHMARK_UNAVAILABLE"}) \cup
    OneOf("sample_adequacy", {"INSUFFICIENT_DATA", "DESCRIPTIVE_ONLY", "COMPARABLE_SAMPLE",
        "INFERENCE_SUPPORTED"}) \cup Shaped({"fps_summary_exclusive"}))

ForecastPerformanceSnapshotMemberRow == Table(
    {"snapshot_key", "snapshot_revision_sequence", "evaluation_key", "evaluation_revision_sequence",
     "forecast_claim_key", "forecast_revision_sequence", "outcome_key",
     "outcome_revision_sequence"},
    {},
    Unique(<<"snapshot_key", "snapshot_revision_sequence", "evaluation_key">>) \cup
    Refers(<<"snapshot_key", "snapshot_revision_sequence">>, "forecast_performance_snapshots",
        <<"snapshot_key", "revision_sequence">>) \cup
    Natural({"snapshot_revision_sequence", "evaluation_revision_sequence",
        "forecast_revision_sequence", "outcome_revision_sequence"}))

ForecastPerformanceSnapshotExclusionRow == Table(
    {"snapshot_key", "snapshot_revision_sequence", "evaluation_key", "reason"},
    {},
    Unique(<<"snapshot_key", "snapshot_revision_sequence", "evaluation_key">>) \cup
    Refers(<<"snapshot_key", "snapshot_revision_sequence">>, "forecast_performance_snapshots",
        <<"snapshot_key", "revision_sequence">>) \cup Natural({"snapshot_revision_sequence"}))

IngestionWatermarkRow == Table(
    {"instrument", "granularity", "earliest_ingested", "latest_ingested"},
    {},
    Unique(<<"instrument", "granularity">>))

IntelligenceSourceRow == Table(
    {"source_key", "source_kind", "registered_at"},
    {},
    Unique(<<"source_key">>) \cup
    OneOf("source_kind", {"ORGANIZATION", "PERSON", "PUBLICATION", "TECHNICAL_FEED"}))

MacroObservationVintageRow == Table(
    {"series_key", "observation_period", "value", "released_at", "revision_sequence", "source",
     "released_at_is_verified", "released_at_is_conservative_bound"},
    {"effective_at"},
    Unique(<<"series_key", "observation_period", "revision_sequence">>) \cup
    NotBoth("released_at_is_verified", "released_at_is_conservative_bound"))

NewsCanonicalRelationVintageRow == Table(
    {"left_news_item_key", "right_news_item_key", "revision_sequence", "availability",
     "relation_kind", "method", "left_item_revision_sequence", "right_item_revision_sequence",
     "algorithm_version"},
    {},
    Unique(<<"left_news_item_key", "right_news_item_key", "revision_sequence">>) \cup
    Refers(<<"left_news_item_key">>, "news_items", <<"news_item_key">>) \cup
    Refers(<<"right_news_item_key">>, "news_items", <<"news_item_key">>) \cup
    Refers(<<"left_news_item_key", "left_item_revision_sequence">>, "news_item_vintages",
        <<"news_item_key", "revision_sequence">>) \cup
    Refers(<<"right_news_item_key", "right_item_revision_sequence">>, "news_item_vintages",
        <<"news_item_key", "revision_sequence">>) \cup
    Natural({"revision_sequence", "left_item_revision_sequence",
        "right_item_revision_sequence"}) \cup NotEmpty({"algorithm_version"}) \cup
    OneOf("relation_kind", {"SAME_STORY", "NOT_SAME_STORY"}) \cup
    OneOf("method", {"EXACT_CANONICAL_URL", "EXACT_BODY_TEXT", "MANUAL_REVIEW"}) \cup
    AutomaticIsSameStory({"EXACT_CANONICAL_URL", "EXACT_BODY_TEXT"}) \cup
    Shaped({"ncrv_left_lt_right", "ncrv_not_same_story_is_manual_review"}))

NewsItemRow == Table(
    {"news_item_key", "first_seen_at", "first_observation_mode"},
    {},
    Unique(<<"news_item_key">>) \cup OneOf("first_observation_mode", {"PROSPECTIVE", "BACKFILL"}))

NewsItemVintageRow == Table(
    {"news_item_key", "revision_sequence", "availability", "observation_mode", "headline",
     "source_channel", "observed_source_channels", "authors", "source_timestamp_provenance",
     "source_revision_metadata", "source_status", "evidence_disposition"},
    {"summary", "body_text", "canonical_url", "language", "source_content_type",
     "source_published_at", "source_updated_at", "quarantine_reason"},
    Unique(<<"news_item_key", "revision_sequence">>) \cup
    Refers(<<"news_item_key">>, "news_items", <<"news_item_key">>) \cup
    Natural({"revision_sequence"}) \cup OneOf("observation_mode", {"PROSPECTIVE", "BACKFILL"}) \cup
    OneOf("source_status", {"ACTIVE", "WITHDRAWN"}) \cup
    OneOf("evidence_disposition", {"EVIDENCE_ELIGIBLE", "QUARANTINED"}) \cup
    Shaped({"news_item_vintages_quarantine_reason"}))

NewsSemanticAnnotationVintageRow == Table(
    {"news_item_key", "revision_sequence", "availability", "basis_news_item_revision_sequence",
     "algorithm_version", "entities", "topics", "currency_relevance"},
    {},
    Unique(<<"news_item_key", "revision_sequence">>) \cup
    Refers(<<"news_item_key">>, "news_items", <<"news_item_key">>) \cup
    Refers(<<"news_item_key", "basis_news_item_revision_sequence">>, "news_item_vintages",
        <<"news_item_key", "revision_sequence">>) \cup
    Natural({"revision_sequence", "basis_news_item_revision_sequence"}) \cup
    NotEmpty({"algorithm_version", "entities", "currency_relevance"}) \cup
    IsArray({"entities", "topics", "currency_relevance"}))

NewsSourceMappingRow == Table(
    {"source_key", "external_item_id", "news_item_key"},
    {},
    Unique(<<"source_key", "external_item_id">>) \cup Unique(<<"news_item_key">>) \cup
    Refers(<<"news_item_key">>, "news_items", <<"news_item_key">>))

SourceAttributionVintageRow == Table(
    {"news_item_key", "role", "revision_sequence", "availability", "algorithm_version", "status",
     "evidence_basis_revision_sequence", "evidence_kind", "evidence_description"},
    {"attributed_source_key", "corrects_revision_sequence"},
    Unique(<<"news_item_key", "role", "revision_sequence">>) \cup
    Refers(<<"news_item_key">>, "news_items", <<"news_item_key">>) \cup
    Refers(<<"news_item_key", "evidence_basis_revision_sequence">>, "news_item_vintages",
        <<"news_item_key", "revision_sequence">>) \cup
    Refers(<<"attributed_source_key">>, "intelligence_sources", <<"source_key">>) \cup
    Natural({"revision_sequence", "evidence_basis_revision_sequence"}) \cup
    NotEmpty({"algorithm_version", "evidence_description"}) \cup
    OneOf("role", {"PUBLISHER", "ORIGINATING_CLAIMANT", "QUOTED_ACTOR"}) \cup
    OneOf("status", {"CONFIRMED", "UNRESOLVED"}) \cup
    OneOf("evidence_kind", {"ADAPTER_CONFIGURATION", "SOURCE_NATIVE_METADATA",
        "AUTHORITATIVE_REFERENCE", "MANUAL_REVIEW"}) \cup
    Shaped({"sav_status_source_key_consistency", "sav_corrects_revision_sequence"}))

SourceIdentityVintageRow == Table(
    {"source_key", "revision_sequence", "availability", "algorithm_version", "display_name",
     "aliases", "evidence_kind", "evidence_description"},
    {"authoritative_identifier", "canonical_website", "correction_reason"},
    Unique(<<"source_key", "revision_sequence">>) \cup
    Refers(<<"source_key">>, "intelligence_sources", <<"source_key">>) \cup
    Natural({"revision_sequence"}) \cup
    NotEmpty({"algorithm_version", "display_name", "evidence_description"}) \cup
    IsArray({"aliases"}) \cup
    OneOf("evidence_kind", {"ADAPTER_CONFIGURATION", "SOURCE_NATIVE_METADATA",
        "AUTHORITATIVE_REFERENCE", "MANUAL_REVIEW"}))

SourceOperationalObservationRow == Table(
    {"source_key", "source_channel", "run_id", "attempt_number", "kind", "outcome", "availability",
     "policy_version"},
    {"http_status"},
    Unique(<<"source_key", "run_id", "attempt_number">>) \cup
    NotEmpty({"source_key", "source_channel", "run_id", "policy_version"}) \cup
    OneOf("kind", {"ACQUISITION_ATTEMPT"}) \cup
    OneOf("outcome", {"SUCCESS", "HTTP_FAILURE", "TIMEOUT", "NETWORK_FAILURE"}) \cup
    Shaped({"soo_attempt_number", "soo_http_status"}))

StructuredForecastEvaluationVintageRow == Table(
    {"evaluation_key", "revision_sequence", "forecast_claim_key", "forecast_revision_sequence",
     "protocol_key", "protocol_version_sequence", "outcome_definition_key",
     "outcome_definition_version_sequence", "outcome_key", "outcome_revision_sequence",
     "evaluation_mode", "algorithm_version", "availability", "metric", "forecast_reviewed_by",
     "forecast_review_method", "forecast_reviewed_at"},
    {"signed_error", "absolute_error", "result_unit", "categorical_result",
     "forecast_corroboration_reference", "correction_reason"},
    Unique(<<"evaluation_key", "revision_sequence">>) \cup
    Refers(<<"forecast_claim_key", "forecast_revision_sequence">>, "structured_forecast_vintages",
        <<"claim_key", "revision_sequence">>) \cup
    Refers(<<"protocol_key", "protocol_version_sequence">>, "forecast_evaluation_protocols",
        <<"protocol_key", "version_sequence">>) \cup
    Refers(<<"outcome_definition_key", "outcome_definition_version_sequence">>,
        "forecast_outcome_definitions", <<"definition_key", "version_sequence">>) \cup
    Refers(<<"outcome_key", "outcome_revision_sequence">>, "forecast_outcome_vintages",
        <<"outcome_key", "revision_sequence">>) \cup Natural({"revision_sequence"}) \cup
    NotEmpty({"evaluation_key", "algorithm_version", "forecast_reviewed_by",
        "forecast_review_method"}) \cup
    OneOf("evaluation_mode", {"PRODUCTION_OBSERVED", "RETROSPECTIVE_RESEARCH"}) \cup
    OneOf("metric", {"NUMERIC_ERROR", "CATEGORICAL_MATCH"}) \cup
    OneOf("categorical_result", {"MATCH", "MISMATCH"}) \cup Shaped({"evaluation_result_shape"}))

StructuredForecastVintageRow == Table(
    {"claim_key", "revision_sequence", "availability", "algorithm_version", "forecast_type",
     "target_key", "target_period_kind", "attribution_kind", "publisher_source_key",
     "provenance_mode", "evidence_kind", "evidence_description"},
    {"calendar_year", "calendar_quarter", "calendar_month", "specific_date",
     "policy_meeting_identifier", "numeric_value", "unit", "categorical_outcome",
     "forecaster_source_key", "anonymous_respondent_id", "news_item_key", "basis_revision_sequence",
     "document_identifier", "document_locator", "official_reference_url", "content_fingerprint",
     "publisher_declared_publication_at", "original_publication_at", "correction_reason"},
    Unique(<<"claim_key", "revision_sequence">>) \cup
    Refers(<<"claim_key">>, "forecast_claims", <<"claim_key">>) \cup
    Refers(<<"publisher_source_key">>, "intelligence_sources", <<"source_key">>) \cup
    Refers(<<"forecaster_source_key">>, "intelligence_sources", <<"source_key">>) \cup
    Refers(<<"news_item_key", "basis_revision_sequence">>, "news_item_vintages", <<"news_item_key",
        "revision_sequence">>) \cup Natural({"revision_sequence"}) \cup
    NotEmpty({"algorithm_version", "target_key", "publisher_source_key",
        "evidence_description"}) \cup
    OneOf("forecast_type", {"NUMERIC_POINT", "CATEGORICAL_EVENT"}) \cup
    OneOf("target_period_kind", {"CALENDAR_YEAR", "CALENDAR_QUARTER", "CALENDAR_MONTH",
        "SPECIFIC_DATE", "POLICY_MEETING"}) \cup
    OneOf("attribution_kind", {"NAMED_INSTITUTION", "AGGREGATE_SURVEY_CONSENSUS",
        "ANONYMOUS_RESPONDENT"}) \cup
    OneOf("evidence_kind", {"NEWS_ITEM_VINTAGE_BASIS", "EXTERNAL_DOCUMENT_REFERENCE"}) \cup
    Shaped({"sfv_payload_shape", "sfv_attribution_shape", "sfv_evidence_shape"}))

\* Base.metadata once every model is imported.
ModelSchema ==
    "candles" :> CandleRow @@
    "economic_event_actual_value_vintages" :> EconomicEventActualValueVintageRow @@
    "economic_event_consensus_vintages" :> EconomicEventConsensusVintageRow @@
    "economic_event_occurrences" :> EconomicEventOccurrenceRow @@
    "economic_event_release_vintages" :> EconomicEventReleaseVintageRow @@
    "economic_event_schedule_vintages" :> EconomicEventScheduleVintageRow @@
    "economic_event_source_mappings" :> EconomicEventSourceMappingRow @@
    "forecast_claims" :> ForecastClaimRow @@
    "forecast_evaluation_protocols" :> ForecastEvaluationProtocolRow @@
    "forecast_outcome_definitions" :> ForecastOutcomeDefinitionRow @@
    "forecast_outcome_identity_bindings" :> ForecastOutcomeIdentityBindingRow @@
    "forecast_outcome_vintages" :> ForecastOutcomeVintageRow @@
    "forecast_performance_benchmarks" :> ForecastPerformanceBenchmarkRow @@
    "forecast_performance_cohorts" :> ForecastPerformanceCohortRow @@
    "forecast_performance_methodologies" :> ForecastPerformanceMethodologyRow @@
    "forecast_performance_snapshots" :> ForecastPerformanceSnapshotRow @@
    "forecast_performance_snapshot_members" :> ForecastPerformanceSnapshotMemberRow @@
    "forecast_performance_snapshot_exclusions" :> ForecastPerformanceSnapshotExclusionRow @@
    "ingestion_watermarks" :> IngestionWatermarkRow @@
    "intelligence_sources" :> IntelligenceSourceRow @@
    "macro_observation_vintages" :> MacroObservationVintageRow @@
    "news_canonical_relation_vintages" :> NewsCanonicalRelationVintageRow @@
    "news_items" :> NewsItemRow @@
    "news_item_vintages" :> NewsItemVintageRow @@
    "news_semantic_annotation_vintages" :> NewsSemanticAnnotationVintageRow @@
    "news_source_mappings" :> NewsSourceMappingRow @@
    "source_attribution_vintages" :> SourceAttributionVintageRow @@
    "source_identity_vintages" :> SourceIdentityVintageRow @@
    "source_operational_observations" :> SourceOperationalObservationRow @@
    "structured_forecast_evaluation_vintages" :> StructuredForecastEvaluationVintageRow @@
    "structured_forecast_vintages" :> StructuredForecastVintageRow
=============================================================================

---------------------------- MODULE ForecastPilots ----------------------------
(***************************************************************************)
(* The two pilot scripts: one imports a survey's forecast of a policy rate *)
(* and evaluates it, the other takes a snapshot of the evaluations so far. *)
(* They run at an instant of their own, and every release of them carries  *)
(* its definitions with it.  Rates are in hundredths of a percent.         *)
(***************************************************************************)
EXTENDS ForecastDefinitions

CONSTANTS
    ReviewedAt,     \* when the operator authenticated both documents
    RegisteredAt    \* the registration of cohort and methodology, and the cutoff

ASSUME PilotsAssumption == {ReviewedAt, RegisteredAt} \subseteq Nat

Target1 == "CA_POLICY_RATE_LEVEL_AFTER_MEETING"
Meeting == "BOC-2024-12-11"
AlwaysOpen == <<0, 99>>

\* _forecast_candidate, as it was recorded.
PilotForecast ==
    [claim |-> "BOC-MPS-2024Q3", revision |-> 0, issue |-> 0, target |-> Target1,
     originator |-> "BANK_OF_CANADA", period |-> Meeting, mode |-> "retrospective",
     availability |-> 0, value |-> 375]

\* _outcome_definition
PilotDefinition(now) ==
    OutcomeDefinition("BOC-RATE-FAD-OUTCOME", 0, Target1, "PRESS-RELEASE", now)

\* _outcome_candidate, as it is captured.
PilotOutcome ==
    [key |-> "BOC-RATE-DECISION", revision |-> 0, availability |-> 0, reviewed |-> ReviewedAt,
     value |-> 325, definition |-> Id(PilotDefinition(0)), period |-> Meeting,
     mode |-> "retrospective"]

\* _protocol
PilotProtocol(now) ==
    Protocol("boc-rate-fad-protocol", 0, PilotDefinition(now), "FIRST_RELEASE", {}, now)

\* _cohort
PilotCohort ==
    Cohort("BOC-MPS-FAD", 0, PilotProtocol(0), "retrospective", "BANK_OF_CANADA", AlwaysOpen, {},
           RegisteredAt)

\* _methodology
PilotMethodology == Methodology("BOC-MPS-FAD-methodology", 0, PilotCohort, {}, RegisteredAt)

Script(dryRun, left, call) == [dryRun |-> dryRun, left |-> left, call |-> {call}]

\* What the import asks for under protocol p.
PilotEvaluation(p, now) ==
    [table |-> "evaluations", key |-> "EVAL", forecast |-> PilotForecast,
     outcome |-> PilotOutcome.key, protocol |-> p, mode |-> "retrospective",
     availability |-> now, review |-> ReviewedAt]

\* What the demonstration asks for of cohort c.
PilotSnapshot(c, m, now) ==
    [table |-> "snapshots", key |-> "PERF", cohort |-> c, methodology |-> m, benchmark |-> {},
     rivals |-> {}, cutoff |-> RegisteredAt, availability |-> now]

\* import_pilot_forecast_evaluation.py, with its definitions d and p.
Import(dryRun, d, p, now) == Script(dryRun, <<d, p>>, PilotEvaluation(p, now))

ImportPilot(dryRun, now) == Import(dryRun, PilotDefinition(now), PilotProtocol(now), now)

\* demonstrate_forecast_performance_pilot.py
DemonstratePilot(dryRun, now) ==
    Script(dryRun, <<PilotCohort, PilotMethodology>>,
           PilotSnapshot(PilotCohort, PilotMethodology, now))
=============================================================================

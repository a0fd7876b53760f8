------------------------- MODULE ForecastDefinitions -------------------------
(***************************************************************************)
(* The registered definitions that scores rest on, and the scripts that    *)
(* register them before they score:                                        *)
(*   RecordForecastOutcomeDefinition       what an outcome measures;       *)
(*   RecordForecastEvaluationProtocol      which outcome a forecast meets; *)
(*   DefineForecastPerformanceCohort       which forecasts count;          *)
(*   DefineForecastPerformanceBenchmark    what they are compared with;    *)
(*   DefineForecastPerformanceMethodology  how.                            *)
(* The five have the same steps over five tables of numbered versions: the *)
(* versions of the key are read, and later the next one is inserted unless *)
(* it has been meanwhile.  A script scores with the definitions it carries *)
(* and a caller of the library with whatever it has: neither reads what is *)
(* stored.  Scores agree with the definitions on record as far as the two  *)
(* were compared, so a history variable keeps the definitions that went    *)
(* on uncompared and differ.                                               *)
(***************************************************************************)
EXTENDS ForecastScoring, Sequences

CONSTANTS
    Plans,          \* what is stored at first, and what may then be called,
                    \* how often, while which outcomes arrive
    NoScript

VARIABLES
    plan,
    definitions,    \* committed rows of the five tables
    script,         \* per worker, what its script has left to do
    divergent       \* history: definitions gone on with although not on record

definitionVars == <<plan, definitions, script, divergent>>
vars == <<scoringVars, definitionVars>>

-----------------------------------------------------------------------------
(* The definitions.                                                        *)

Target(type, unit, period) == [type |-> type, unit |-> unit, period |-> period]

\* FORECAST_TARGET_REGISTRY: each target admits one type of forecast.
Targets ==
    [EA_HICP_YOY_ANNUAL_AVERAGE |->
        Target("NUMERIC_POINT", "PERCENT_YOY", "CALENDAR_YEAR"),
     US_REAL_GDP_GROWTH_QOQ_SAAR |->
        Target("NUMERIC_POINT", "PERCENT_QOQ_SAAR", "CALENDAR_QUARTER"),
     CA_REAL_GDP_GROWTH_YOY_YEAR_END |->
        Target("NUMERIC_POINT", "PERCENT_YOY", "CALENDAR_YEAR"),
     CA_POLICY_RATE_LEVEL_AFTER_MEETING |->
        Target("NUMERIC_POINT", "PERCENT", "POLICY_MEETING"),
     CA_POLICY_RATE_DECISION_HIKE_HOLD_CUT |->
        Target("CATEGORICAL_EVENT", "", "POLICY_MEETING"),
     CA_UNEMPLOYMENT_RATE_QUARTERLY_AVERAGE |->
        Target("NUMERIC_POINT", "PERCENT", "CALENDAR_QUARTER")]

Admits(target, type) == target \in DOMAIN Targets /\ Targets[target].type = type

Metric(type) == IF type = "NUMERIC_POINT" THEN "NUMERIC_ERROR" ELSE "CATEGORICAL_MATCH"

\* Rows of forecast_outcome_definition_versions.
OutcomeDefinition(k, n, target, series, t) ==
    [table |-> "definitions", key |-> k, version |-> n, target |-> target,
     type |-> Targets[target].type, series |-> series, availability |-> t]

\* Rows of forecast_evaluation_protocol_versions; fixed has at most one revision.
Protocol(k, n, definition, policy, fixed, t) ==
    [table |-> "protocols", key |-> k, version |-> n, target |-> definition.target,
     type |-> definition.type, definition |-> Id(definition), policy |-> policy, fixed |-> fixed,
     metric |-> Metric(definition.type), availability |-> t]

\* Rows of forecast_performance_cohorts; an open window reaches over all issues.
\* The originator stands for the kind of attribution and its sources.
Cohort(k, n, protocol, mode, originator, window, duplicates, t) ==
    [table |-> "cohorts", key |-> k, version |-> n, target |-> protocol.target,
     type |-> protocol.type, protocol |-> Id(protocol), mode |-> mode, originator |-> originator,
     opens |-> window[1], closes |-> window[2], duplicates |-> duplicates, availability |-> t]

\* Rows of forecast_performance_benchmarks: a reference value or class, or the
\* cohort whose evaluations are the reference.
Benchmark(k, n, kind, target, reference, cohort, t) ==
    [table |-> "benchmarks", key |-> k, version |-> n, kind |-> kind, target |-> target,
     metric |-> Metric(Targets[target].type), reference |-> reference,
     cohort |-> {Id(c) : c \in cohort}, availability |-> t]

\* Rows of forecast_performance_methodologies.
Methodology(k, n, cohort, benchmark, t) ==
    [table |-> "methodologies", key |-> k, version |-> n, cohort |-> Id(cohort),
     benchmark |-> {Id(b) : b \in benchmark}, availability |-> t]

\* What each class insists on when it is made.
IsOutcomeDefinition(d) == Admits(d.target, d.type)

IsProtocol(p) ==
    /\ Admits(p.target, p.type)
    /\ p.metric = Metric(p.type)
    /\ p.policy \in {"FIRST_RELEASE", "FIXED_RELEASE_VINTAGE", "LATEST_AVAILABLE_AS_OF"}
    /\ p.policy = "FIXED_RELEASE_VINTAGE" <=> Cardinality(p.fixed) = 1
    /\ p.policy # "FIXED_RELEASE_VINTAGE" <=> p.fixed = {}

IsCohort(c) ==
    /\ Admits(c.target, c.type)
    /\ c.mode \in Modes
    /\ c.opens <= c.closes

IsBenchmark(b) ==
    /\ b.target \in DOMAIN Targets
    /\ b.kind = "AUTHENTICATED_SERIES" <=> Cardinality(b.cohort) = 1
    /\ b.kind # "AUTHENTICATED_SERIES" <=> b.cohort = {}
    /\ b.kind = "NAIVE_NUMERIC" => b.metric = "NUMERIC_ERROR"
    /\ b.kind = "NAIVE_CATEGORICAL" => b.metric = "CATEGORICAL_MATCH"

IsMethodology(m) == Cardinality(m.benchmark) <= 1

IsDefinition(d) ==
    /\ {d.version, d.availability} \subseteq Nat
    /\ CASE d.table = "definitions"   -> IsOutcomeDefinition(d)
         [] d.table = "protocols"     -> IsProtocol(d)
         [] d.table = "cohorts"       -> IsCohort(d)
         [] d.table = "benchmarks"    -> IsBenchmark(d)
         [] d.table = "methodologies" -> IsMethodology(d)

\* What a script registers, and what the scripts of a plan do.
Carried(s)   == {s.left[n] : n \in 1..Len(s.left)}
Carriable(p) == UNION {Carried(s) : s \in p.scripts}

\* What may be asked for under a plan, and the definition it is asked under.
Asked(p)   == p.calls \cup UNION {s.call : s \in p.scripts}
Brought(q) == IF q.table = "evaluations" THEN q.protocol ELSE q.cohort

IsEvaluationCall(q) ==
    /\ q.forecast \in Forecasts /\ q.mode \in Modes
    /\ q.protocol.table = "protocols" /\ IsProtocol(q.protocol)
    /\ {"target", "definition", "policy", "fixed"} \subseteq DOMAIN q.protocol

IsSnapshotCall(q) ==
    /\ q.cutoff \in Nat
    /\ q.cohort.table = "cohorts" /\ IsCohort(q.cohort)
    /\ {"protocol", "mode", "duplicates", "target", "originator", "opens", "closes"}
          \subseteq DOMAIN q.cohort

IsCall(q) ==
    /\ q.availability \in Nat
    /\ \/ q.table = "evaluations" /\ IsEvaluationCall(q)
       \/ q.table = "snapshots" /\ IsSnapshotCall(q)

ScriptsOf(p) == [dryRun : BOOLEAN, left : Seq(Carriable(p)), call : SUBSET Asked(p)]

ASSUME DefinitionsAssumption ==
    \A p \in Plans :
       /\ p.runs \in 0..MaxCalls /\ p.reports \subseteq OutcomeReports
       /\ IsFiniteSet(p.stored)
       /\ \A d \in p.stored \cup Carriable(p) : IsDefinition(d)
       /\ \A q \in Asked(p) : IsCall(q)
       /\ p.scripts \subseteq ScriptsOf(p) /\ NoScript \notin ScriptsOf(p)
       /\ \A s \in p.scripts : s.left # <<>>

\* The rows that foreign keys ask for.
Rests(d) ==
    CASE d.table = "definitions"   -> {}
      [] d.table = "protocols"     -> {<<"definitions", d.definition>>}
      [] d.table = "cohorts"       -> {<<"protocols", d.protocol>>}
      [] d.table = "benchmarks"    -> {<<"cohorts", c>> : c \in d.cohort}
      [] d.table = "methodologies" ->
           {<<"cohorts", d.cohort>>} \cup {<<"benchmarks", b>> : b \in d.benchmark}

Stored(table, id) == {d \in definitions : d.table = table /\ Id(d) = id}

Grounded(d) == \A r \in Rests(d) : Stored(r[1], r[2]) # {}

-----------------------------------------------------------------------------
(* Registering.                                                            *)

\* What the script registers next.
Due(w) == Head(script[w].left)

\* list_outcome_definition_versions, list_protocol_versions and their like.
Versions(d) == {x \in definitions : x.table = d.table /\ x.key = d.key}

SameVersion(d) == {x \in Versions(d) : x.version = d.version}

\* Mutant: a version that is taken is taken to be the same.
SameKey(x, d) == Id(x) = Id(d)

\* _content_of: all but the instant of the registration.
SameContent(x, d) == [x EXCEPT !.availability = 0] = [d EXCEPT !.availability = 0]

\* What is stored under the name of d says the same.
OnRecord(d) == \E x \in SameVersion(d) : SameContent(x, d)

\* Somebody goes on with d as it is.
Diverge(d) == divergent' = divergent \cup {x \in {d} : ~OnRecord(x)}

\* What is stored at first has its versions, once each, and a script scores with
\* what it carries.
ASSUME PlansAssumption ==
    \A p \in Plans :
       /\ \A d \in p.stored :
             /\ \A x \in p.stored : x.table = d.table /\ Id(x) = Id(d) => x = d
             /\ d.version > 0 => \E x \in p.stored : /\ x.table = d.table /\ x.key = d.key
                                                     /\ x.version = d.version - 1
       /\ \A s \in p.scripts : \A q \in s.call : Brought(q) \in Carried(s)

\* One past the last version.
NextVersion(d) == Max({x.version : x \in Versions(d)} \cup {-1}) + 1

\* The script is done with one definition.  One that only tries ends before it
\* scores.
Advance(w) ==
    LET s    == script[w]
        left == Tail(s.left)
        over == left = <<>> /\ (s.dryRun \/ s.call = {})
    IN /\ script' = [script EXCEPT ![w] = IF over THEN NoScript ELSE [s EXCEPT !.left = left]]
       /\ IF over THEN Finish(w, "DONE")
          ELSE /\ pc' = [pc EXCEPT ![w] = IF left = <<>> THEN "call" ELSE "list"]
               /\ UNCHANGED <<latest, outcome>>

\* The call raises, and with it the script.
Abort(w, r) == Finish(w, r) /\ script' = [script EXCEPT ![w] = NoScript]

\* Scripts of any release start beside each other.
StartScript(w) ==
    /\ pc[w] = "idle" /\ made < plan.runs
    /\ \E s \in plan.scripts : script' = [script EXCEPT ![w] = s]
    /\ pc' = [pc EXCEPT ![w] = "list"]
    /\ made' = made + 1
    /\ UNCHANGED <<candidate, latest, outcome, plan, definitions, divergent>>
    /\ UNCHANGED Tables

\* The first half of each of the five: what is stored decides.
Compare(w, table) ==
    /\ pc[w] = "list" /\ Due(w).table = table
    /\ LET d == Due(w)
           held == SameVersion(d)
           next == held = {} /\ d.version = NextVersion(d)
       IN \/ OnRecord(d) /\ Advance(w)
          \/ held # {} /\ ~OnRecord(d) /\ Abort(w, "CONFLICT")
          \/ held = {} /\ ~next /\ Abort(w, "OUT_OF_SEQUENCE")
          \/ next /\ script[w].dryRun /\ Advance(w)
          \/ /\ next /\ ~script[w].dryRun
             /\ pc' = [pc EXCEPT ![w] = "insert"]
             /\ UNCHANGED <<latest, outcome, script>>
    /\ UNCHANGED <<candidate, made, plan, definitions, divergent>> /\ UNCHANGED Tables

\* The second half.  A version inserted meanwhile makes this one UNCHANGED too,
\* whatever it holds, and the script goes on with its own; one whose foreign keys
\* name nothing is refused.
Insert(w, table) ==
    /\ pc[w] = "insert" /\ Due(w).table = table
    /\ LET d == Due(w)
           taken == SameVersion(d) # {}
       IN \/ taken /\ Advance(w) /\ Diverge(d) /\ UNCHANGED definitions
          \/ /\ ~taken /\ ~Grounded(d) /\ Abort(w, "INTEGRITY")
             /\ UNCHANGED <<definitions, divergent>>
          \/ /\ ~taken /\ Grounded(d) /\ Advance(w)
             /\ definitions' = definitions \cup {d}
             /\ UNCHANGED divergent
    /\ UNCHANGED <<candidate, made, plan>> /\ UNCHANGED Tables

Register(w, table) == Compare(w, table) \/ Insert(w, table)

RecordForecastOutcomeDefinition(w)      == Register(w, "definitions")
RecordForecastEvaluationProtocol(w)     == Register(w, "protocols")
DefineForecastPerformanceCohort(w)      == Register(w, "cohorts")
DefineForecastPerformanceBenchmark(w)   == Register(w, "benchmarks")
DefineForecastPerformanceMethodology(w) == Register(w, "methodologies")

-----------------------------------------------------------------------------
(* Scoring.                                                                *)

\* EvaluateStructuredForecast also reads the definition its protocol pins.
EvaluateUnder(w, q) ==
    LET pinned == Stored("definitions", q.protocol.definition)
    IN \/ pinned = {} /\ Refuse(w, "MISSING_DEFINITION") /\ UNCHANGED Tables
       \/ \E d \in pinned : Evaluate(w, q, d)

Call(w, q) ==
    \/ q.table = "evaluations" /\ EvaluateUnder(w, q)
    \/ q.table = "snapshots" /\ TakeSnapshot(w, q)

\* A caller of the library, under a definition that nothing compares.
Ask(w) ==
    /\ pc[w] = "idle" /\ made < plan.runs
    /\ \E q \in plan.calls : Call(w, q) /\ Diverge(Brought(q))
    /\ made' = made + 1
    /\ UNCHANGED <<plan, definitions, script>>

\* A script that has registered its definitions.
Score(w) ==
    /\ pc[w] = "call"
    /\ \E q \in script[w].call : Call(w, q)
    /\ script' = [script EXCEPT ![w] = NoScript]
    /\ UNCHANGED <<made, plan, definitions, divergent>>

\* An outcome is captured under a stored definition.
Capture ==
    /\ \E o \in plan.reports : Stored("definitions", o.definition) # {} /\ RecordOutcome(o)
    /\ UNCHANGED definitionVars

\* The row's foreign keys are looked at last, and only if it is inserted.
Refers(c) ==
    IF c.table = "evaluations"
    THEN {<<"protocols", c.basis.protocol>>, <<"definitions", c.basis.definition>>}
    ELSE {<<"cohorts", c.basis.cohort>>, <<"methodologies", c.basis.methodology>>}

Unreferenced(w) ==
    /\ pc[w] = "add" /\ Inserted(w)
    /\ \E r \in Refers(candidate[w]) : Stored(r[1], r[2]) = {}

RefuseToAdd(w) ==
    /\ Unreferenced(w)
    /\ Finish(w, "INTEGRITY")
    /\ UNCHANGED <<candidate, made, definitionVars>> /\ UNCHANGED Tables

Record(w) ==
    /\ \/ ReadLatest(w) \/ ReadHistory(w)
       \/ ~Unreferenced(w) /\ (AddEvaluation(w) \/ AddSnapshot(w))
    /\ UNCHANGED definitionVars

Init ==
    /\ ScoringInit
    /\ plan \in Plans
    /\ definitions = plan.stored
    /\ script = [w \in Workers |-> NoScript]
    /\ divergent = {}

Next ==
    \/ Capture
    \/ \E w \in Workers :
          \/ StartScript(w)
          \/ RecordForecastOutcomeDefinition(w) \/ RecordForecastEvaluationProtocol(w)
          \/ DefineForecastPerformanceCohort(w) \/ DefineForecastPerformanceBenchmark(w)
          \/ DefineForecastPerformanceMethodology(w)
          \/ Ask(w) \/ Score(w) \/ Record(w) \/ RefuseToAdd(w)

Spec == Init /\ [][Next]_vars

-----------------------------------------------------------------------------
(* What a reader of the scores relies on.                                  *)

\* An outcome that protocol p would have resolved, of the definition it pins.
Pins(p, e) ==
    LET o == OutcomeOf(e)
    IN /\ o.definition = p.definition
       /\ ForecastOf(e).target = p.target
       /\ p.policy = "FIRST_RELEASE" => o.revision = 0
       /\ p.policy = "FIXED_RELEASE_VINTAGE" => o.revision \in p.fixed

\* What a name given by a score may stand for: the definition stored under it, or
\* one that somebody went on with in spite of it.
Meant(table, id) == {d \in definitions \cup divergent : d.table = table /\ Id(d) = id}

\* A score is explained by the definitions on record unless its caller went on with
\* one that nothing had compared with them: a script that lost a registration to
\* another release between the two halves, or a caller of the library with an object
\* of its own.  A script that compared never scores under a definition that differs
\* from the one stored, and whoever scores gives names under which something is
\* stored: an evaluation met an outcome, of the stored definition it names, that
\* such a protocol would have chosen; a snapshot counts only what such a cohort
\* admits.  Each stored version follows the one before it
\* (record_forecast_evaluation_protocol.py:83-117,
\* evaluate_structured_forecast.py:322-339,
\* record_forecast_performance_snapshot.py:322-353).
ScoresAreOnRecord ==
    /\ \A e \in evaluations :
          /\ Stored("protocols", e.basis.protocol) # {}
          /\ Stored("definitions", e.basis.definition) # {}
          /\ OutcomeOf(e).definition = e.basis.definition
          /\ \E p \in Meant("protocols", e.basis.protocol) : Pins(p, e)
    /\ \A s \in snapshots :
          /\ Stored("cohorts", s.basis.cohort) # {}
          /\ \E c \in Meant("cohorts", s.basis.cohort) :
                /\ s.basis.mode = c.mode
                /\ \A e \in evaluations : Member(e) \in s.facts.members =>
                      e.basis.mode = c.mode /\ Exclusion(e, c) = "NONE"
    /\ \A d \in definitions : d.version > 0 =>
          \E x \in Versions(d) : x.version = d.version - 1
=============================================================================

--------------------------- MODULE ForecastScoring ---------------------------
(***************************************************************************)
(* Scoring forecasts: EvaluateStructuredForecast pins one forecast vintage *)
(* and one outcome vintage per evaluation; BuildForecastPerformance-       *)
(* PopulationAsOf selects the evaluations of a cohort known by a cutoff;   *)
(* RecordForecastPerformanceSnapshot freezes the selection.                *)
(*                                                                         *)
(* Both recorders have the shape of StructuredForecast: the latest vintage *)
(* and the history of the key are read at two moments, the row is inserted *)
(* later unless its revision was taken.  The rows of the two tables differ *)
(* in what their basis and their facts are.  Forecast vintages are given;  *)
(* outcome vintages arrive while calls are in flight.  ForecastDefinitions *)
(* has the registered definitions the calls name, and the callers.         *)
(***************************************************************************)
EXTENDS Integers, FiniteSets, FiniteSetsExt

CONSTANTS
    Forecasts,      \* the stored forecast vintages
    OutcomeReports, \* the outcome vintages that may be recorded
    SomeData, ComparableSample,  \* _INSUFFICIENT_BELOW and _COMPARABLE_AT_LEAST
    Workers, MaxCalls,           \* concurrency, and the bound on calls
    NoRow, NoCandidate, NoReview

VARIABLES
    outcomes, evaluations, snapshots,  \* committed rows
    pc,          \* per worker, what it is about to do
    candidate,   \* what it is about to record
    latest,      \* the latest vintage of the key it read
    outcome,     \* how its last call ended
    made

scoringVars == <<outcomes, evaluations, snapshots, pc, candidate, latest, outcome, made>>

ASSUME ScoringAssumption ==
    /\ {MaxCalls, SomeData, ComparableSample} \subseteq Nat
    /\ \A f \in Forecasts : {f.issue, f.availability, f.revision} \subseteq Nat
    /\ \A f, g \in Forecasts : f.claim = g.claim /\ f.revision = g.revision => f = g
    /\ \A o \in OutcomeReports : {o.availability, o.reviewed, o.revision} \subseteq Nat

Modes == {"production", "retrospective"}
Steps == {"idle", "list", "insert", "call", "latest", "history", "add"}
Ends  == {"NONE", "CREATED", "REVISION_ADDED", "UNCHANGED", "REJECTED",
          "OUT_OF_ORDER", "DETERMINISM", "TOO_EARLY",
          "DONE", "CONFLICT", "OUT_OF_SEQUENCE", "INTEGRITY", "MISSING_DEFINITION"}

-----------------------------------------------------------------------------
(* Evaluating one forecast.                                                *)

\* ResolveForecastOutcomeAsOf under the protocol's policy: the vintages of
\* outcome key k it may return at t, none when nothing has matured.
Resolved(p, k, t) ==
    LET known == {o \in outcomes : o.key = k /\ o.availability <= t}
    IN CASE p.policy = "FIRST_RELEASE" -> {o \in known : o.revision = 0}
         [] p.policy = "FIXED_RELEASE_VINTAGE" -> {o \in known : o.revision \in p.fixed}
         [] p.policy = "LATEST_AVAILABLE_AS_OF" ->
              {o \in known : \A x \in known :
                  \/ x.availability < o.availability
                  \/ x.availability = o.availability /\ x.revision <= o.revision}

\* Mutant: the outcome's provenance is not looked at.
AdmissibleByForecastMode(q, definition, o) ==
    /\ q.forecast.target = q.protocol.target
    /\ q.review # NoReview
    /\ q.mode = "production" => q.forecast.mode = "production"
    /\ o.definition = q.protocol.definition
    /\ o.period = q.forecast.period
    /\ \A t \in {q.forecast.availability, q.protocol.availability,
                 definition.availability, o.availability, q.review, o.reviewed} : t <= q.availability

\* AssessForecastEvaluationAdmissibility: the forecast fits the protocol, its
\* evidence was authenticated, nothing retrospective enters a production
\* evaluation, and no input was known or reviewed after the evaluation.  A target
\* has one type and one unit, so those are not compared.
Admissible(q, definition, o) ==
    /\ q.forecast.target = q.protocol.target
    /\ q.review # NoReview
    /\ q.mode = "production" => q.forecast.mode = "production" /\ o.mode = "production"
    /\ o.definition = q.protocol.definition
    /\ o.period = q.forecast.period
    /\ \A t \in {q.forecast.availability, q.protocol.availability,
                 definition.availability, o.availability, q.review, o.reviewed} : t <= q.availability

\* _compute_result: the signed error, or whether the class was missed.
Error(type, value, o) ==
    CASE type = "NUMERIC_POINT"     -> o.value - value
      [] type = "CATEGORICAL_EVENT" -> IF o.value = value THEN 0 ELSE 1

\* The key and the version of a registered definition.
Id(d) == <<d.key, d.version>>

\* The vintage before it has a revision number.  The review is the instant it
\* was made at, which stands for the whole review.
Evaluation(q, o) ==
    [table |-> "evaluations", key |-> q.key, availability |-> q.availability,
     basis |-> [claim |-> q.forecast.claim, claimRevision |-> q.forecast.revision,
                protocol |-> Id(q.protocol), definition |-> q.protocol.definition,
                outcome |-> o.key, outcomeRevision |-> o.revision, mode |-> q.mode],
     facts |-> [error |-> Error(q.protocol.type, q.forecast.value, o), review |-> q.review],
     inKeyOrder |-> TRUE]

-----------------------------------------------------------------------------
(* Selecting a population.                                                 *)

ForecastOf(e) == CHOOSE f \in Forecasts : /\ f.claim = e.basis.claim
                                          /\ f.revision = e.basis.claimRevision
OutcomeOf(e)  == CHOOSE o \in outcomes : /\ o.key = e.basis.outcome
                                         /\ o.revision = e.basis.outcomeRevision

\* The evaluations of a cohort's mode under any version of its protocol.
Scored(c) == {e \in evaluations : e.basis.mode = c.mode /\ e.basis.protocol[1] = c.protocol[1]}

\* Mutant: the latest evaluation of each key, whenever it became known.
KnownEver(c, t) ==
    LET known == Scored(c)
    IN {e \in known : \A x \in known : x.key = e.key => x.revision <= e.revision}

\* list_latest_evaluations_for_protocol_as_of: per key, the latest vintage of
\* the cohort's mode available by t.
Known(c, t) ==
    LET known == {e \in Scored(c) : e.availability <= t}
    IN {e \in known : \A x \in known : x.key = e.key =>
           \/ x.availability < e.availability
           \/ x.availability = e.availability /\ x.revision <= e.revision}

\* _classify: why an evaluation is outside the cohort, the first reason found.
Exclusion(e, c) ==
    LET f == ForecastOf(e)
    IN CASE e.basis.protocol # c.protocol -> "INCOMPATIBLE_PROTOCOL"
         [] e.key \in c.duplicates        -> "KNOWN_DUPLICATE_SYNDICATED"
         [] f.target # c.target           -> "INCOMPATIBLE_TARGET"
         [] f.originator # c.originator   -> "INCOMPATIBLE_ORIGINATOR"
         [] f.issue \notin c.opens..c.closes -> "OUTSIDE_ISSUE_WINDOW"
         [] OTHER                         -> "NONE"

Eligible(c, t) == {e \in Known(c, t) : Exclusion(e, c) = "NONE"}

\* Mutant: every eligible evaluation counts.
NoDuplicates(c, t) == {Eligible(c, t)}

\* _resolve_duplicates: of the eligible evaluations that share an outcome, one
\* with the earliest issue is accepted; the order of the rows breaks ties.
Selections(c, t) ==
    {s \in SUBSET Eligible(c, t) :
       \A e \in Eligible(c, t) :
          LET rivals == {x \in Eligible(c, t) : x.basis.outcome = e.basis.outcome}
          IN \E x \in rivals :
                /\ s \cap rivals = {x}
                /\ \A y \in rivals : ForecastOf(x).issue <= ForecastOf(y).issue}

Member(e) == [key |-> e.key, revision |-> e.revision, basis |-> e.basis]

\* The sums behind the mean signed, mean absolute and root mean squared errors;
\* of classes, the absolute one counts those missed.
Magnitude(n) == IF n < 0 THEN -n ELSE n
Summary(accepted) ==
    [n |-> Cardinality(accepted),
     signed   |-> MapThenSumSet(LAMBDA e : e.facts.error, accepted),
     absolute |-> MapThenSumSet(LAMBDA e : Magnitude(e.facts.error), accepted),
     squared  |-> MapThenSumSet(LAMBDA e : e.facts.error * e.facts.error, accepted)]

Unavailable == [status |-> "BENCHMARK_UNAVAILABLE", benchmark |-> {}, paired |-> 0,
                source |-> 0, reference |-> 0]

Compared(b, paired, reference) ==
    [status |-> "COMPARED", benchmark |-> {Id(b)}, paired |-> Cardinality(paired),
     source |-> Summary(paired).absolute, reference |-> reference]

\* _benchmark_comparison: the cohort against one reference value or class for
\* all its outcomes, or against the evaluations another cohort has of the same
\* outcomes.
Comparison(q, accepted, rivals) ==
    LET paired == {e \in accepted : \E x \in rivals : x.basis.outcome = e.basis.outcome}
        others == {x \in rivals : \E e \in paired : x.basis.outcome = e.basis.outcome}
        series(b) == b.kind = "AUTHENTICATED_SERIES"
        scored(b) == IF series(b) THEN paired ELSE accepted
        missed(b, e) == Magnitude(Error(q.cohort.type, b.reference, OutcomeOf(e)))
        reference(b) == IF series(b) THEN Summary(others).absolute
                        ELSE MapThenSumSet(LAMBDA e : missed(b, e), accepted)
        usable == {b \in q.benchmark : scored(b) # {}}
    IN IF usable = {} THEN Unavailable
       ELSE LET b == CHOOSE b \in usable : TRUE IN Compared(b, scored(b), reference(b))

Exclusions(c, t, accepted) ==
    {[key |-> e.key,
      reason |-> IF e \in Eligible(c, t)
                 THEN "SUPERSEDED_BY_EARLIER_QUALIFYING_ISSUE" ELSE Exclusion(e, c)] :
       e \in Known(c, t) \ accepted}

\* _classify_sample_adequacy
Adequacy(accepted, periods, mode) ==
    CASE Cardinality(accepted) < SomeData \/ Cardinality(periods) < SomeData -> "INSUFFICIENT_DATA"
      [] mode = "retrospective" \/ Cardinality(periods) < ComparableSample   -> "DESCRIPTIVE_ONLY"
      [] OTHER -> "COMPARABLE_SAMPLE"

Span(accepted) ==
    LET instants == {e.availability : e \in accepted}
    IN IF accepted = {} THEN {} ELSE {Min(instants), Max(instants)}

\* AssessForecastPerformanceEvidence
Diagnostics(c, accepted, excluded, paired) ==
    LET periods == {OutcomeOf(e).period : e \in accepted}
        given(reason) == {x \in excluded : x.reason = reason}
    IN [raw        |-> Cardinality(accepted) + Cardinality(excluded),
        accepted   |-> Cardinality(accepted),
        excluded   |-> {<<reason, Cardinality(given(reason))>> : reason \in {x.reason : x \in excluded}},
        issues     |-> Cardinality({e.basis.claim : e \in accepted}),
        events     |-> Cardinality({e.basis.outcome : e \in accepted}),
        periods    |-> Cardinality(periods),
        paired     |-> paired,
        production |-> Cardinality({e \in accepted : e.basis.mode = "production"}),
        span       |-> Span(accepted),
        adequacy   |-> Adequacy(accepted, periods, c.mode)]

\* One way to freeze what was selected, its members in key order or not.
Snapshot(q, accepted, rivals, ordered) ==
    LET excluded   == Exclusions(q.cohort, q.cutoff, accepted)
        comparison == Comparison(q, accepted, rivals)
    IN [table |-> "snapshots", key |-> q.key, availability |-> q.availability,
        basis |-> [cohort |-> Id(q.cohort), methodology |-> Id(q.methodology),
                   mode |-> q.cohort.mode, cutoff |-> q.cutoff],
        facts |-> [members |-> {Member(e) : e \in accepted}, exclusions |-> excluded,
                   summary |-> Summary(accepted), comparison |-> comparison,
                   diagnostics |-> Diagnostics(q.cohort, accepted, excluded, comparison.paired)],
        inKeyOrder |-> ordered]

\* The snapshots a caller may derive from one reading of the evaluations, and
\* what the recorder derives anew; a benchmark's population is of that reading
\* too.  Rows come in no particular order, and so do the members.
Snapshots(q) ==
    LET orders(accepted) ==
          IF Cardinality(accepted) <= 1 /\ Cardinality(Known(q.cohort, q.cutoff) \ accepted) <= 1
          THEN {TRUE} ELSE BOOLEAN
        references == IF q.rivals = {} THEN {{}}
                      ELSE UNION {Selections(c, q.cutoff) : c \in q.rivals}
    IN UNION {{Snapshot(q, accepted, rivals, ordered) :
                 rivals \in references, ordered \in orders(accepted)} :
                accepted \in Selections(q.cohort, q.cutoff)}

\* _required_minimum_availability: no snapshot before the definitions it names,
\* its cutoff, its evaluations and the reviews they rest on.
KnewEverything(q, s) ==
    LET accepted == {e \in evaluations : Member(e) \in s.facts.members}
    IN \A t \in {q.cutoff, q.cohort.availability, q.methodology.availability}
                \cup {b.availability : b \in q.benchmark}
                \cup UNION {{e.availability, e.facts.review, OutcomeOf(e).reviewed} :
                               e \in accepted} : t <= q.availability

-----------------------------------------------------------------------------
(* Recording: the same steps for the two tables.                           *)

RowsOf(c) == {v \in IF c.table = "evaluations" THEN evaluations ELSE snapshots : v.key = c.key}

\* latest_evaluation_vintage, latest_snapshot_vintage.
IsLatest(l, c) ==
    /\ l \in RowsOf(c)
    /\ \A v \in RowsOf(c) : \/ v.availability < l.availability
                            \/ v.availability = l.availability /\ v.revision <= l.revision

\* The row a candidate becomes, after the latest one.
Row(c, l) ==
    [key |-> c.key, revision |-> IF l = NoRow THEN 0 ELSE l.revision + 1,
     availability |-> c.availability, basis |-> c.basis, facts |-> c.facts]

\* A snapshot reads back as it was, but with its members in key order.
ReadsBack(c) == c.inKeyOrder

SamePayload(v, c) == ReadsBack(c) /\ v.facts = c.facts

\* The determinism check over the key's whole history.
Contradicted(c) == \E v \in RowsOf(c) : v.basis = c.basis /\ ~SamePayload(v, c)

OutOfOrder(c, l) == l # NoRow /\ c.availability < l.availability

Repeats(c, l) == l # NoRow /\ l.basis = c.basis /\ SamePayload(l, c)

ScoringInit ==
    /\ outcomes = {} /\ evaluations = {} /\ snapshots = {}
    /\ pc = [w \in Workers |-> "idle"]
    /\ candidate = [w \in Workers |-> NoCandidate]
    /\ latest = [w \in Workers |-> NoRow]
    /\ outcome = [w \in Workers |-> "NONE"]
    /\ made = 0

Tables == <<outcomes, evaluations, snapshots>>

\* Another process records an outcome vintage, the next of its key in number and
\* not before the last in time.
RecordOutcome(o) ==
    /\ LET held == {x \in outcomes : x.key = o.key}
       IN /\ o.revision = Cardinality(held)
          /\ \A x \in held : x.availability <= o.availability
    /\ outcomes' = outcomes \cup {o}
    /\ UNCHANGED <<evaluations, snapshots, pc, candidate, latest, outcome, made>>

Begin(w, c) ==
    /\ candidate' = [candidate EXCEPT ![w] = c]
    /\ pc' = [pc EXCEPT ![w] = "latest"]
    /\ UNCHANGED <<latest, outcome>>

\* The call returns or raises r.  Its candidate is kept to be looked at.
Finish(w, r) ==
    /\ pc' = [pc EXCEPT ![w] = "idle"]
    /\ latest' = [latest EXCEPT ![w] = NoRow]
    /\ outcome' = [outcome EXCEPT ![w] = r]

\* A call refused before it has a candidate.
Refuse(w, r) == Finish(w, r) /\ candidate' = [candidate EXCEPT ![w] = NoCandidate]

\* The outcome is resolved and the forecast assessed under the definition that
\* the protocol pins; nothing else is read.
Evaluate(w, q, definition) ==
    /\ LET admitted == {o \in Resolved(q.protocol, q.outcome, q.availability) :
                          Admissible(q, definition, o)}
       IN \/ admitted = {} /\ Refuse(w, "REJECTED")
          \/ \E o \in admitted : Begin(w, Evaluation(q, o))
    /\ UNCHANGED Tables

\* The caller builds the population, derives the snapshot and has it recorded;
\* what the recorder derives from the same population is the same.
TakeSnapshot(w, q) ==
    /\ \E s \in Snapshots(q) :
          \/ ~KnewEverything(q, s) /\ Refuse(w, "TOO_EARLY")
          \/ KnewEverything(q, s) /\ Begin(w, s)
    /\ UNCHANGED Tables

ReadLatest(w) ==
    /\ pc[w] = "latest"
    /\ \E l \in RowsOf(candidate[w]) \cup {NoRow} :
          /\ IF RowsOf(candidate[w]) = {} THEN l = NoRow
             ELSE l # NoRow /\ IsLatest(l, candidate[w])
          /\ \/ OutOfOrder(candidate[w], l) /\ Finish(w, "OUT_OF_ORDER")
             \/ /\ ~OutOfOrder(candidate[w], l)
                /\ latest' = [latest EXCEPT ![w] = l]
                /\ pc' = [pc EXCEPT ![w] = "history"]
                /\ UNCHANGED outcome
    /\ UNCHANGED <<candidate, made>> /\ UNCHANGED Tables

ReadHistory(w) ==
    /\ pc[w] = "history"
    /\ LET c == candidate[w]
       IN \/ Contradicted(c) /\ Finish(w, "DETERMINISM")
          \/ ~Contradicted(c) /\ Repeats(c, latest[w]) /\ Finish(w, "UNCHANGED")
          \/ /\ ~Contradicted(c) /\ ~Repeats(c, latest[w])
             /\ pc' = [pc EXCEPT ![w] = "add"]
             /\ UNCHANGED <<latest, outcome>>
    /\ UNCHANGED <<candidate, made>> /\ UNCHANGED Tables

Inserted(w) == ~\E v \in RowsOf(candidate[w]) : v.revision = Row(candidate[w], latest[w]).revision

Add(w) ==
    /\ pc[w] = "add"
    /\ Finish(w, IF ~Inserted(w) THEN "UNCHANGED"
                 ELSE IF latest[w] = NoRow THEN "CREATED" ELSE "REVISION_ADDED")
    /\ UNCHANGED <<candidate, made, outcomes>>

\* add_evaluation_vintage
AddEvaluation(w) ==
    /\ candidate[w] # NoCandidate /\ candidate[w].table = "evaluations"
    /\ Add(w)
    /\ evaluations' = evaluations \cup
          (IF Inserted(w) THEN {Row(candidate[w], latest[w])} ELSE {})
    /\ UNCHANGED snapshots

\* add_snapshot_vintage: the row, its members and its exclusions together.
AddSnapshot(w) ==
    /\ candidate[w] # NoCandidate /\ candidate[w].table = "snapshots"
    /\ Add(w)
    /\ snapshots' = snapshots \cup
          (IF Inserted(w) THEN {Row(candidate[w], latest[w])} ELSE {})
    /\ UNCHANGED evaluations

-----------------------------------------------------------------------------
(* What a reader of a snapshot relies on.                                  *)

\* Revisions of a key are numbered from zero without gap and in time order, in
\* both tables, and a call past its reads has a candidate for one of them.
TypeOK ==
    /\ outcomes \subseteq OutcomeReports
    /\ pc \in [Workers -> Steps] /\ outcome \in [Workers -> Ends] /\ made \in 0..MaxCalls
    /\ \A w \in Workers : pc[w] \in {"latest", "history", "add"}
                            => candidate[w].table \in {"evaluations", "snapshots"}
    /\ \A table \in {evaluations, snapshots} : \A v \in table :
          /\ v.revision \in 0..(Cardinality({x \in table : x.key = v.key}) - 1)
          /\ \A x \in table : /\ x.key = v.key /\ x.revision < v.revision
                              => x.availability <= v.availability

\* A production snapshot rests on production evidence only: no retrospective
\* forecast, outcome or evaluation is ever behind one, whatever order the three
\* ledgers grew in (assess_forecast_evaluation_admissibility.py:13-17).
ProductionFromProduction ==
    \A s \in snapshots : s.basis.mode = "production" =>
       \A e \in evaluations : Member(e) \in s.facts.members =>
          /\ e.basis.mode = "production"
          /\ ForecastOf(e).mode = "production"
          /\ OutcomeOf(e).mode = "production"

\* Nothing claims to have been known before what it rests on: a snapshot not
\* before its cutoff, its members not after the cutoff, and each of them not
\* before its forecast, its outcome and the reviews of both.
NoHindsight ==
    /\ \A e \in evaluations :
          \A t \in {ForecastOf(e).availability, OutcomeOf(e).availability,
                    OutcomeOf(e).reviewed, e.facts.review} : t <= e.availability
    /\ \A s \in snapshots :
          /\ s.basis.cutoff <= s.availability
          /\ \A e \in evaluations : Member(e) \in s.facts.members =>
                e.availability <= s.basis.cutoff

\* Every event counts once, by the forecast issued first: members never share an
\* outcome, nothing is both counted and excluded, and whatever was superseded
\* has a member of the same outcome that was issued no later.
EarliestIssueCounts ==
    \A s \in snapshots :
       LET accepted == {e \in evaluations : Member(e) \in s.facts.members}
           keys == {e.key : e \in accepted}
       IN /\ \A e, x \in accepted : e.basis.outcome = x.basis.outcome => e = x
          /\ \A x \in s.facts.exclusions :
                /\ x.key \notin keys
                /\ x.reason = "SUPERSEDED_BY_EARLIER_QUALIFYING_ISSUE" =>
                     \E e \in accepted, v \in evaluations :
                        /\ v.key = x.key /\ v.availability <= s.basis.cutoff
                        /\ v.basis.outcome = e.basis.outcome
                        /\ ForecastOf(e).issue <= ForecastOf(v).issue

\* One basis is never stored with two payloads, although the history was checked
\* some time before the row was written (record_forecast_performance_snapshot.py:375-382).
BasisIsDeterministic ==
    \A table \in {evaluations, snapshots} : \A v, x \in table :
       v.key = x.key /\ v.basis = x.basis => v.facts = x.facts
=============================================================================

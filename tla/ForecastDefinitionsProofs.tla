---------------------- MODULE ForecastDefinitionsProofs ----------------------
(***************************************************************************)
(* That scores rest on evidence known when they claim it was, that a       *)
(* population counts every event once by its earliest forecast, that       *)
(* production rests on production, and that each score is explained by the *)
(* definitions on record or by one its caller went on with uncompared:     *)
(* proved for any forecasts, outcomes, plans and number of calls.          *)
(*                                                                         *)
(* The argument: a key and a revision number name one row for ever, in all *)
(* three ledgers, so what a candidate was derived from is what its row     *)
(* refers to when it is read; a definition on record stays what it is; and *)
(* whatever somebody goes on with is either on record or kept as divergent.*)
(***************************************************************************)
EXTENDS ForecastDefinitions, FiniteSetTheorems, WellFoundedInduction, TLAPS

(* The three ledgers.                                                      *)

\* A key and a revision name one row, numbered from 0.
Numbered(table) ==
    /\ IsFiniteSet(table)
    /\ \A v \in table :
          /\ v.revision \in Nat /\ v.revision < Cardinality({x \in table : x.key = v.key})
          /\ \A x \in table : x.key = v.key /\ x.revision = v.revision => x = v

\* Rows are in time order without gap, and what they say follows from their basis.
Ordered(table) ==
    \A v \in table :
       /\ v.availability \in Nat
       /\ \A n \in Nat : n <= v.revision => \E x \in table : x.key = v.key /\ x.revision = n
       /\ \A x \in table : x.key = v.key =>
             /\ x.revision < v.revision => x.availability <= v.availability
             /\ x.basis = v.basis => x.facts = v.facts

Ledgers ==
    /\ Numbered(outcomes) /\ outcomes \subseteq OutcomeReports
    /\ Numbered(evaluations) /\ Ordered(evaluations)
    /\ Numbered(snapshots) /\ Ordered(snapshots)

(* The definitions.                                                        *)

\* Something is stored under the name of d and says the same.
Standing(d) ==
    /\ Stored(d.table, Id(d)) # {}
    /\ \A x \in Stored(d.table, Id(d)) : SameContent(x, d)

\* It is on record, or known to have been gone on with although it is not.
Accounted(d) == Standing(d) \/ d \in divergent

Follows(d) == d.version > 0 => \E x \in Versions(d) : x.version = d.version - 1

Registry ==
    /\ plan \in Plans /\ IsFiniteSet(definitions)
    /\ definitions \subseteq plan.stored \cup Carriable(plan)
    /\ \A d, x \in definitions : x.table = d.table /\ Id(x) = Id(d) => x = d
    /\ \A d \in definitions : Follows(d)

(* What is recorded, or is about to be.                                    *)

\* An evaluation answers a call with a forecast and an outcome that the protocol
\* admits, known to it and fit for its mode.
Answers(e, q, o) ==
    LET f == q.forecast  p == q.protocol IN
    /\ q.table = "evaluations"
    /\ e.basis.claim = f.claim /\ e.basis.claimRevision = f.revision
    /\ e.basis.outcome = o.key /\ e.basis.outcomeRevision = o.revision
    /\ e.basis.protocol = Id(p) /\ e.basis.definition = p.definition
    /\ \A t \in {f.availability, o.availability, o.reviewed, e.facts.review} : t <= e.availability
    /\ e.basis.mode = "production" => f.mode = "production" /\ o.mode = "production"
    /\ o.definition = p.definition /\ f.target = p.target
    /\ p.policy = "FIRST_RELEASE" => o.revision = 0
    /\ p.policy = "FIXED_RELEASE_VINTAGE" => o.revision \in p.fixed

EvaluationOK(e) ==
    \E q \in Asked(plan) : Accounted(Brought(q)) /\ \E o \in outcomes : Answers(e, q, o)

\* The evaluations a snapshot counts.
Counted(s) == {e \in evaluations : Member(e) \in s.facts.members}

\* Members are of the cohort and the cutoff.
Admits1(s, c) ==
    /\ s.basis.cohort = Id(c) /\ s.basis.mode = c.mode
    /\ \A e \in Counted(s) : /\ e.basis.mode = c.mode /\ Exclusion(e, c) = "NONE"
                             /\ e.availability <= s.basis.cutoff

Superseded(x, s) ==
    \E e \in Counted(s), v \in evaluations :
       /\ v.key = x.key /\ v.availability <= s.basis.cutoff
       /\ v.basis.outcome = e.basis.outcome
       /\ ForecastOf(e).issue <= ForecastOf(v).issue

\* Every event counts once, by its earliest forecast.
CountsOnce(s) ==
    /\ s.basis.cutoff <= s.availability
    /\ \A m \in s.facts.members : \E e \in evaluations : Member(e) = m
    /\ \A e, x \in Counted(s) : e.basis.outcome = x.basis.outcome => e = x
    /\ \A x \in s.facts.exclusions :
          /\ x.key \notin {e.key : e \in Counted(s)}
          /\ x.reason = "SUPERSEDED_BY_EARLIER_QUALIFYING_ISSUE" => Superseded(x, s)

SnapshotOK(s) ==
    /\ CountsOnce(s)
    /\ \E q \in Asked(plan) :
          q.table = "snapshots" /\ Accounted(Brought(q)) /\ Admits1(s, Brought(q))

\* Something is stored under the names an evaluation gives.
Named(e) ==
    /\ Stored("protocols", e.basis.protocol) # {}
    /\ Stored("definitions", e.basis.definition) # {}

Recorded ==
    /\ \A e \in evaluations : EvaluationOK(e) /\ Named(e)
    /\ \A s \in snapshots : SnapshotOK(s) /\ Stored("cohorts", s.basis.cohort) # {}

(* The calls in flight.                                                    *)

CandidateOK(c) ==
    /\ c.availability \in Nat
    /\ \/ c.table = "evaluations" /\ EvaluationOK(c)
       \/ c.table = "snapshots" /\ SnapshotOK(c)

\* What a call remembers of the latest row is a row of its key, not after its
\* candidate.
RemembersLatest(w) ==
    pc[w] \in {"history", "add"} /\ latest[w] # NoRow =>
       latest[w] \in RowsOf(candidate[w]) /\ latest[w].availability <= candidate[w].availability

\* Nothing up to the latest row it read contradicts what a call is about to add.
Checked(w) ==
    pc[w] = "add" /\ latest[w] # NoRow =>
       \A v \in RowsOf(candidate[w]) :
          v.revision <= latest[w].revision /\ v.basis = candidate[w].basis
             => v.facts = candidate[w].facts

\* A script in its course: what it no longer has to register is accounted for, and
\* what it is about to insert follows the version before.
ScriptOK(w) ==
    /\ pc[w] \in {"list", "insert", "call"} <=> script[w] # NoScript
    /\ script[w] # NoScript => script[w] \in ScriptsOf(plan) /\
          \E s \in plan.scripts :
             /\ script[w].call = s.call /\ script[w].left \in Seq(Carried(s))
             /\ \A d \in Carried(s) :
                   d \in Carried(script[w]) \/ script[w].dryRun \/ Accounted(d)
    /\ pc[w] \in {"list", "insert"} => script[w].left # <<>>
    /\ pc[w] = "call" => script[w].left = <<>> /\ ~script[w].dryRun
    /\ pc[w] = "insert" => ~script[w].dryRun /\ Follows(Due(w))

CallOK(w) ==
    /\ pc[w] \in {"latest", "history", "add"} => CandidateOK(candidate[w])
    /\ RemembersLatest(w) /\ Checked(w) /\ ScriptOK(w)

Control ==
    /\ pc \in [Workers -> Steps] /\ outcome \in [Workers -> Ends] /\ made \in 0..MaxCalls
    /\ DOMAIN candidate = Workers /\ DOMAIN latest = Workers /\ DOMAIN script = Workers

IInv ==
    /\ Control /\ Ledgers /\ Registry /\ Recorded
    /\ \A w \in Workers : CallOK(w)

-----------------------------------------------------------------------------
(* Numbers.                                                                *)

\* Whatever holds of 0, and of n + 1 if of n, holds of every number: the numbers it
\* fails for would have a least one.
LEMMA Upwards ==
  ASSUME NEW T, T \subseteq Nat, 0 \in T, \A n \in T : n + 1 \in T
  PROVE  \A n \in Nat : n \in T
<1> DEFINE U == Nat \ T
<1>1. SUFFICES ASSUME U # {} PROVE FALSE
  OBVIOUS
<1>2. PICK x \in U : \A y \in U : ~(<<y, x>> \in OpToRel(<, Nat))
  BY <1>1, WFMin, NatLessThanWellFounded, Zenon
<1>3. x - 1 \in U
  <2>1. x \in Nat /\ x # 0
    OBVIOUS
  <2>2. x - 1 \in Nat /\ (x - 1 \in T => x \in T)
    BY <2>1
  <2> QED
    BY <2>2
<1>4. <<x - 1, x>> \in OpToRel(<, Nat)
  BY <1>3, SMT DEF OpToRel
<1> QED
  BY <1>2, <1>3, <1>4

\* A finite set of numbers has a greatest one.
LEMMA MaxExists ==
  ASSUME NEW S, IsFiniteSet(S), S \subseteq Int, S # {}
  PROVE  Max(S) \in S
<1> DEFINE HasMax(U) == \E x \in U : \A y \in U : x >= y
           T == {n \in Nat : \A U : IsFiniteSet(U) /\ U \subseteq Int /\ U # {}
                                    /\ Cardinality(U) = n => HasMax(U)}
<1>1. 0 \in T
  BY FS_EmptySet
<1>2. ASSUME NEW n \in T PROVE n + 1 \in T
  <2>1. SUFFICES ASSUME NEW U, IsFiniteSet(U), U \subseteq Int, U # {}, Cardinality(U) = n + 1
                 PROVE  HasMax(U)
    OBVIOUS
  <2>2. PICK x \in U : TRUE
    BY <2>1
  <2> DEFINE V == U \ {x}
  <2>3. IsFiniteSet(V) /\ V \subseteq Int /\ Cardinality(V) = n
    <3>1. IsFiniteSet(V) /\ Cardinality(V) = Cardinality(U) - 1
      BY <2>1, <2>2, FS_RemoveElement
    <3>2. n \in Nat /\ V \subseteq Int
      BY <2>1
    <3> HIDE DEF T, V
    <3> QED
      BY <2>1, <3>1, <3>2
  <2>4. CASE V = {}
    BY <2>1, <2>2, <2>4
  <2>5. CASE V # {}
    <3>1. PICK m \in V : \A y \in V : m >= y
      BY <2>3, <2>5
    <3>2. x \in Int /\ m \in Int /\ m \in U /\ \A y \in U : y \in V \/ y = x
      BY <2>1, <2>2
    <3>3. CASE m >= x
      BY <3>1, <3>2, <3>3
    <3>4. CASE ~(m >= x)
      <4>1. \A y \in U : y \in Int /\ x >= y
        BY <2>1, <3>1, <3>2, <3>4
      <4> QED
        BY <2>2, <4>1
    <3> QED
      BY <3>3, <3>4
  <2> QED
    BY <2>4, <2>5
<1>3. T \subseteq Nat
  OBVIOUS
<1>4. \A n \in T : IsFiniteSet(S) /\ S \subseteq Int /\ S # {} /\ Cardinality(S) = n => HasMax(S)
  OBVIOUS
<1> HIDE DEF T
<1>5. HasMax(S)
  BY <1>1, <1>2, <1>3, <1>4, Upwards, FS_CardinalityType
<1> QED
  BY <1>5 DEF Max

\* The next version of a definition follows one that is stored.
LEMMA NextFollows ==
  ASSUME IsFiniteSet(definitions), \A x \in definitions : x.version \in Nat,
         NEW d, d.version \in Nat, d.version = NextVersion(d)
  PROVE  Follows(d)
<1> DEFINE V == Versions(d)
           S == {x.version : x \in V}
           f == [x \in V |-> x.version]
<1>1. IsFiniteSet(V) /\ \A x \in V : x.version \in Nat
  BY FS_Subset DEF Versions
<1>2. IsFiniteSet(S)
  <2>1. f \in Surjection(V, S)
    BY DEF Surjection
  <2> HIDE DEF f, V, S
  <2> QED
    BY <1>1, <2>1, FS_Surjection
<1>3. Max(S \cup {-1}) \in S \cup {-1}
  <2>0. S \subseteq Int
    BY <1>1
  <2> HIDE DEF S
  <2>1. IsFiniteSet(S \cup {-1}) /\ S \cup {-1} \subseteq Int /\ S \cup {-1} # {}
    BY <1>2, <2>0, FS_AddElement
  <2> QED
    BY <2>1, MaxExists
<1>4. d.version = Max(S \cup {-1}) + 1
  BY DEF NextVersion
<1>5. ASSUME d.version > 0 PROVE \E x \in Versions(d) : x.version = d.version - 1
  <2>1. Max(S \cup {-1}) \in S
    <3> HIDE DEF S
    <3> QED
      BY <1>3, <1>4, <1>5
  <2>2. PICK x \in V : x.version = Max(S \cup {-1})
    BY <2>1
  <2>3. x.version \in Nat
    BY <1>1
  <2> HIDE DEF S
  <2> QED
    BY <1>4, <2>2, <2>3
<1> QED
  BY <1>5 DEF Follows

-----------------------------------------------------------------------------
(* Ledgers.                                                                *)

\* Another row under a free number, none beyond the next, leaves rows numbered.
LEMMA NumberedGrows ==
  ASSUME NEW T, Numbered(T), NEW r,
         r.revision \in Nat, r.revision <= Cardinality({x \in T : x.key = r.key}),
         \A x \in T : x.key = r.key => x.revision # r.revision
  PROVE  Numbered(T \cup {r})
<1> DEFINE Of(U, k) == {x \in U : x.key = k}
<1>1. IsFiniteSet(T) /\ \A k : IsFiniteSet(Of(T, k)) /\ Cardinality(Of(T, k)) \in Nat
  BY FS_Subset, FS_CardinalityType DEF Numbered
<1>2. IsFiniteSet(T \cup {r})
  BY <1>1, FS_AddElement
<1>3. \A k : k # r.key => Of(T \cup {r}, k) = Of(T, k)
  OBVIOUS
<1>4. Of(T \cup {r}, r.key) = Of(T, r.key) \cup {r} /\ r \notin Of(T, r.key)
  OBVIOUS
<1>5. Cardinality(Of(T \cup {r}, r.key)) = Cardinality(Of(T, r.key)) + 1
  <2> HIDE DEF Of
  <2> QED
    BY <1>1, <1>4, FS_AddElement
<1>6. ASSUME NEW v \in T \cup {r}
      PROVE  v.revision \in Nat /\ v.revision < Cardinality(Of(T \cup {r}, v.key))
  <2>1. CASE v \in T
    <3>1. v.revision \in Nat /\ v.revision < Cardinality(Of(T, v.key))
      BY <2>1 DEF Numbered
    <3> HIDE DEF Of
    <3>2. CASE v.key = r.key
      BY <1>1, <1>5, <3>1, <3>2
    <3>3. CASE v.key # r.key
      BY <1>3, <3>1, <3>3
    <3> QED
      BY <3>2, <3>3
  <2>2. CASE v = r
    <3>1. r.revision <= Cardinality(Of(T, r.key))
      OBVIOUS
    <3> HIDE DEF Of
    <3> QED
      BY <1>1, <1>5, <2>2, <3>1
  <2> QED
    BY <2>1, <2>2
<1>7. \A v, x \in T \cup {r} : x.key = v.key /\ x.revision = v.revision => x = v
  BY DEF Numbered
<1> QED
  BY <1>2, <1>6, <1>7 DEF Numbered

\* A revision number is free only behind everything the key has.
LEMMA NothingBehind ==
  ASSUME NEW T, Numbered(T), Ordered(T), NEW l \in T,
         \A x \in T : x.key = l.key => x.revision # l.revision + 1,
         NEW v \in T, v.key = l.key
  PROVE  /\ v.revision \in Nat /\ l.revision \in Nat /\ v.revision <= l.revision
         /\ v.availability <= l.availability /\ v.availability \in Nat /\ l.availability \in Nat
<1>1. v.revision \in Nat /\ l.revision \in Nat /\ v.availability \in Nat /\ l.availability \in Nat
  BY DEF Numbered, Ordered
<1>2. v.revision <= l.revision
  <2> SUFFICES ASSUME l.revision < v.revision PROVE FALSE
    BY <1>1
  <2>1. l.revision + 1 \in Nat /\ l.revision + 1 <= v.revision
    BY <1>1
  <2>2. \E x \in T : x.key = v.key /\ x.revision = l.revision + 1
    BY <2>1 DEF Ordered
  <2> QED
    BY <2>2
<1>3. v.availability <= l.availability
  <2>1. CASE v.revision = l.revision
    <3>1. v = l
      BY <2>1 DEF Numbered
    <3> QED
      BY <1>1, <3>1
  <2>2. CASE v.revision < l.revision
    BY <2>2 DEF Ordered
  <2> QED
    BY <1>1, <1>2, <2>1, <2>2
<1> QED
  BY <1>1, <1>2, <1>3

\* A row behind everything its key has.
Fits(T, r) ==
    /\ r.revision \in Nat /\ r.availability \in Nat
    /\ \A v \in T : v.key = r.key =>
          /\ v.revision < r.revision /\ v.availability <= r.availability
          /\ v.basis = r.basis => v.facts = r.facts
    /\ r.revision # 0 => \E l \in T : l.key = r.key /\ l.revision + 1 = r.revision

LEMMA FittingGrows ==
  ASSUME NEW T, Numbered(T), Ordered(T), NEW r, Fits(T, r)
  PROVE  Numbered(T \cup {r}) /\ Ordered(T \cup {r})
<1> DEFINE Of(k) == {x \in T : x.key = k}
<1>1. \A v \in T : v.revision \in Nat /\ v.availability \in Nat
  BY DEF Numbered, Ordered
<1>2. Numbered(T \cup {r})
  <2>1. \A x \in T : x.key = r.key => x.revision # r.revision
    BY <1>1 DEF Fits
  <2>2. r.revision <= Cardinality(Of(r.key))
    <3>0. Cardinality(Of(r.key)) \in Nat
      BY FS_Subset, FS_CardinalityType DEF Numbered
    <3>1. CASE r.revision = 0
      BY <3>0, <3>1
    <3>2. CASE r.revision # 0
      <4>1. PICK l \in T : l.key = r.key /\ l.revision + 1 = r.revision
        BY <3>2 DEF Fits
      <4>2. l.revision \in Nat /\ l.revision < Cardinality(Of(r.key))
        BY <4>1 DEF Numbered
      <4> QED
        BY <3>0, <4>1, <4>2
    <3> QED
      BY <3>1, <3>2
  <2> QED
    BY <2>1, <2>2, NumberedGrows DEF Fits
<1>3. ASSUME NEW v \in T \cup {r}, NEW n \in Nat, n <= v.revision
      PROVE  \E x \in T \cup {r} : x.key = v.key /\ x.revision = n
  <2>1. CASE v \in T
    BY <1>3, <2>1 DEF Ordered
  <2>2. CASE v = r /\ n = r.revision
    BY <2>2
  <2>3. CASE v = r /\ n # r.revision
    <3>1. r.revision # 0 /\ r.revision \in Nat
      BY <1>3, <2>3 DEF Fits
    <3>2. PICK l \in T : l.key = r.key /\ l.revision + 1 = r.revision
      BY <3>1 DEF Fits
    <3>3. n <= l.revision
      BY <1>1, <1>3, <2>3, <3>1, <3>2
    <3> QED
      BY <2>3, <3>2, <3>3 DEF Ordered
  <2> QED
    BY <2>1, <2>2, <2>3
<1>4. ASSUME NEW v \in T \cup {r}, NEW x \in T \cup {r}, x.key = v.key
      PROVE  /\ x.revision < v.revision => x.availability <= v.availability
             /\ x.basis = v.basis => x.facts = v.facts
  <2>1. CASE v \in T /\ x \in T
    BY <1>4, <2>1 DEF Ordered
  <2>2. CASE v = r /\ x = r
    BY <2>2 DEF Fits
  <2>3. CASE v = r /\ x \in T
    BY <1>4, <2>3 DEF Fits
  <2>4. CASE v \in T /\ x = r
    BY <1>1, <1>4, <2>4 DEF Fits
  <2> QED
    BY <2>1, <2>2, <2>3, <2>4
<1>5. \A v \in T \cup {r} : v.availability \in Nat
  BY <1>1 DEF Fits
<1> QED
  BY <1>2, <1>3, <1>4, <1>5 DEF Ordered

-----------------------------------------------------------------------------
(* What a step writes.                                                     *)

\* A version is inserted.
Inserts(w) ==
    /\ pc[w] = "insert" /\ SameVersion(Due(w)) = {}
    /\ definitions' = definitions \cup {Due(w)}
    /\ UNCHANGED Tables

\* The row a call may add, and the table it belongs to.
RowOf(w) == Row(candidate[w], latest[w])

IsFor(w, table) == candidate[w].table = table

Appends(w) ==
    /\ pc[w] = "add" /\ Inserted(w) /\ ~Unreferenced(w)
    /\ outcomes' = outcomes /\ definitions' = definitions
    /\ \/ /\ IsFor(w, "evaluations")
          /\ evaluations' = evaluations \cup {RowOf(w)} /\ snapshots' = snapshots
       \/ /\ IsFor(w, "snapshots")
          /\ snapshots' = snapshots \cup {RowOf(w)} /\ evaluations' = evaluations

Idle1 == UNCHANGED <<outcomes, evaluations, snapshots, definitions>>

Captures == \E o \in plan.reports : RecordOutcome(o) /\ definitions' = definitions

LEMMA OnlyTheseWrite ==
  ASSUME [Next]_vars
  PROVE  /\ plan' = plan /\ divergent \subseteq divergent'
         /\ Idle1 \/ Captures \/ \E w \in Workers : Inserts(w) \/ Appends(w)
<1> USE DEF Idle1, Tables, definitionVars
<1>1. CASE UNCHANGED vars
  BY <1>1 DEF vars, scoringVars
<1>2. CASE Capture
  BY <1>2 DEF Capture, Captures
<1>3. ASSUME NEW w \in Workers, StartScript(w) PROVE plan' = plan /\ Idle1 /\ divergent \subseteq divergent'
  BY <1>3 DEF StartScript
<1>4. ASSUME NEW w \in Workers, NEW table, Register(w, table)
      PROVE  plan' = plan /\ (Idle1 \/ Inserts(w)) /\ divergent \subseteq divergent'
  BY <1>4 DEF Register, Compare, Insert, Inserts, Diverge
<1>5. ASSUME NEW w \in Workers, NEW q, Call(w, q) PROVE UNCHANGED Tables
  BY <1>5 DEF Call, EvaluateUnder, Evaluate, TakeSnapshot
<1>6. ASSUME NEW w \in Workers, Ask(w) \/ Score(w) PROVE plan' = plan /\ Idle1 /\ divergent \subseteq divergent'
  <2>1. UNCHANGED Tables
    BY <1>5, <1>6 DEF Ask, Score
  <2> QED
    BY <1>6, <2>1 DEF Ask, Score, Diverge
<1>7. ASSUME NEW w \in Workers, Record(w)
      PROVE  plan' = plan /\ (Idle1 \/ Appends(w)) /\ divergent \subseteq divergent'
  <2>1. CASE ReadLatest(w) \/ ReadHistory(w)
    BY <1>7, <2>1 DEF Record, ReadLatest, ReadHistory
  <2>2. CASE ~Unreferenced(w) /\ AddEvaluation(w)
    BY <1>7, <2>2 DEF Record, AddEvaluation, Add, Appends, IsFor, RowOf
  <2>3. CASE ~Unreferenced(w) /\ AddSnapshot(w)
    BY <1>7, <2>3 DEF Record, AddSnapshot, Add, Appends, IsFor, RowOf
  <2> QED
    BY <1>7, <2>1, <2>2, <2>3 DEF Record
<1>8. ASSUME NEW w \in Workers, RefuseToAdd(w) PROVE plan' = plan /\ Idle1 /\ divergent \subseteq divergent'
  BY <1>8 DEF RefuseToAdd
<1> QED
  BY <1>1, <1>2, <1>3, <1>4, <1>6, <1>7, <1>8
     DEF Next, RecordForecastOutcomeDefinition, RecordForecastEvaluationProtocol,
         DefineForecastPerformanceCohort, DefineForecastPerformanceBenchmark,
         DefineForecastPerformanceMethodology

\* The table of a candidate.
TableOf(w) == IF candidate[w].table = "evaluations" THEN evaluations ELSE snapshots

\* A row that is added is behind everything its key has: were anything added since
\* the latest row was read, its number would be taken.
LEMMA AddedFits ==
  ASSUME IInv, NEW w \in Workers, Appends(w)
  PROVE  /\ Fits(TableOf(w), RowOf(w))
         /\ RowOf(w).key = candidate[w].key /\ RowOf(w).availability = candidate[w].availability
         /\ RowOf(w).basis = candidate[w].basis /\ RowOf(w).facts = candidate[w].facts
<1> DEFINE c == candidate[w]
           l == latest[w]
           T == TableOf(w)
           r == RowOf(w)
<1>1. /\ r.key = c.key /\ r.availability = c.availability /\ r.basis = c.basis /\ r.facts = c.facts
      /\ r.revision = IF l = NoRow THEN 0 ELSE l.revision + 1
  BY DEF RowOf, Row
<1>2. Numbered(T) /\ Ordered(T) /\ RowsOf(c) = {v \in T : v.key = c.key}
  BY DEF IInv, Ledgers, TableOf, RowsOf
<1>3. \A v \in T : v.key = c.key => v.revision # r.revision
  BY <1>2 DEF Appends, Inserted, RowOf
<1>4. /\ c.availability \in Nat
      /\ l # NoRow => l \in T /\ l.key = c.key /\ l.availability <= c.availability
      /\ l # NoRow => \A v \in T : v.key = c.key /\ v.revision <= l.revision /\ v.basis = c.basis
                                     => v.facts = c.facts
  BY <1>2 DEF IInv, CallOK, CandidateOK, RemembersLatest, Checked, Appends
<1> HIDE DEF c, l, T, r
<1>5. CASE l = NoRow
  <2>1. ASSUME NEW v \in T, v.key = c.key PROVE FALSE
    <3>0. v.revision \in Nat
      BY <1>2 DEF Numbered
    <3>1. 0 \in Nat /\ 0 <= v.revision
      BY <3>0
    <3>2. \E x \in T : x.key = v.key /\ x.revision = 0
      BY <1>2, <3>1 DEF Ordered
    <3> QED
      BY <1>1, <1>3, <1>5, <2>1, <3>2
  <2>2. Fits(T, r)
    BY <1>1, <1>4, <1>5, <2>1 DEF Fits
  <2> QED
    BY <1>1, <2>2 DEF c, T, r
<1>6. CASE l # NoRow
  <2>1. l \in T /\ l.revision \in Nat /\ l.availability \in Nat
    BY <1>2, <1>4, <1>6 DEF Numbered, Ordered
  <2>2. ASSUME NEW v \in T, v.key = c.key
        PROVE  /\ v.revision < r.revision /\ v.availability <= c.availability
               /\ v.basis = c.basis => v.facts = c.facts
    <3>1. /\ v.revision \in Nat /\ v.revision <= l.revision
          /\ v.availability <= l.availability /\ v.availability \in Nat
      BY <1>1, <1>2, <1>3, <1>4, <1>6, <2>1, <2>2, NothingBehind
    <3> QED
      BY <1>1, <1>4, <1>6, <2>1, <2>2, <3>1
  <2>3. Fits(T, r)
    BY <1>1, <1>4, <1>6, <2>1, <2>2 DEF Fits
  <2> QED
    BY <1>1, <2>3 DEF c, T, r
<1> QED
  BY <1>5, <1>6

\* All tables only grow, and a row of evaluations has a name of its own.
LEMMA TablesGrow ==
  ASSUME IInv, [Next]_vars
  PROVE  /\ outcomes \subseteq outcomes' /\ evaluations \subseteq evaluations'
         /\ snapshots \subseteq snapshots' /\ definitions \subseteq definitions'
         /\ \A e \in evaluations' : e \in evaluations
               \/ \A x \in evaluations : ~(x.key = e.key /\ x.revision = e.revision)
<1>1. CASE Idle1
  BY <1>1 DEF Idle1
<1>2. CASE Captures
  BY <1>2 DEF Captures, RecordOutcome
<1>3. ASSUME NEW w \in Workers, Inserts(w)
      PROVE  /\ definitions \subseteq definitions'
             /\ outcomes' = outcomes /\ evaluations' = evaluations /\ snapshots' = snapshots
  BY <1>3 DEF Inserts, Tables
<1>4. ASSUME NEW w \in Workers, Appends(w), NEW e \in evaluations', e \notin evaluations, NEW x \in evaluations
      PROVE  ~(x.key = e.key /\ x.revision = e.revision)
  <2>1. e = RowOf(w) /\ TableOf(w) = evaluations
    BY <1>4 DEF Appends, IsFor, TableOf
  <2>2. Fits(evaluations, e)
    BY <1>4, <2>1, AddedFits
  <2>3. x.revision \in Nat
    BY DEF IInv, Ledgers, Numbered
  <2> QED
    BY <2>2, <2>3 DEF Fits
<1>5. ASSUME NEW w \in Workers, Appends(w)
      PROVE  /\ outcomes' = outcomes /\ definitions' = definitions
             /\ evaluations \subseteq evaluations' /\ snapshots \subseteq snapshots'
  BY <1>5 DEF Appends
<1> QED
  BY <1>1, <1>2, <1>3, <1>4, <1>5, OnlyTheseWrite

LEMMA LedgersStep == IInv /\ [Next]_vars => Ledgers'
<1> SUFFICES ASSUME IInv, [Next]_vars PROVE Ledgers'
  OBVIOUS
<1> USE DEF Ledgers
<1>0. Ledgers /\ plan \in Plans
  BY DEF IInv, Registry
<1>1. CASE Idle1
  BY <1>0, <1>1 DEF Idle1
<1>2. ASSUME NEW o \in plan.reports, RecordOutcome(o) PROVE Ledgers'
  <2>1. o \in OutcomeReports /\ o.revision \in Nat
    BY <1>0, DefinitionsAssumption, ScoringAssumption
  <2>2. /\ o.revision = Cardinality({x \in outcomes : x.key = o.key})
        /\ outcomes' = outcomes \cup {o} /\ evaluations' = evaluations /\ snapshots' = snapshots
    BY <1>2 DEF RecordOutcome
  <2>3. ASSUME NEW x \in outcomes, x.key = o.key PROVE x.revision # o.revision
    <3>1. x.revision < Cardinality({y \in outcomes : y.key = o.key}) /\ x.revision \in Nat
      BY <1>0, <2>3 DEF Numbered
    <3> QED
      BY <2>1, <2>2, <3>1
  <2>4. Numbered(outcomes \cup {o})
    <3>1. o.revision <= Cardinality({x \in outcomes : x.key = o.key})
      BY <2>1, <2>2
    <3>2. Numbered(outcomes)
      BY <1>0
    <3> QED
      BY <2>1, <2>3, <3>1, <3>2, NumberedGrows
  <2> QED
    BY <1>0, <2>1, <2>2, <2>4
<1>3. ASSUME NEW w \in Workers, Inserts(w) PROVE Ledgers'
  BY <1>0, <1>3 DEF Inserts, Tables
<1>4. ASSUME NEW w \in Workers, Appends(w) PROVE Ledgers'
  <2>1. Numbered(TableOf(w) \cup {RowOf(w)}) /\ Ordered(TableOf(w) \cup {RowOf(w)})
    BY <1>0, <1>4, AddedFits, FittingGrows DEF TableOf
  <2> QED
    BY <1>0, <1>4, <2>1 DEF Appends, IsFor, TableOf
<1> QED
  BY <1>1, <1>2, <1>3, <1>4, OnlyTheseWrite DEF Captures

-----------------------------------------------------------------------------
(* Definitions.                                                            *)

LEMMA SameVersionIsStored ==
  ASSUME NEW d
  PROVE  SameVersion(d) = Stored(d.table, Id(d))
BY DEF SameVersion, Versions, Stored, Id

\* What a script is about to register is carried by one.
LEMMA DueIsCarried ==
  ASSUME IInv, NEW w \in Workers, pc[w] \in {"list", "insert"}
  PROVE  /\ Due(w) \in Carried(script[w]) /\ Due(w) \in Carriable(plan)
         /\ Due(w).version \in Nat
<1>1. script[w] # NoScript /\ script[w].left # <<>>
  BY DEF IInv, CallOK, ScriptOK
<1>2. PICK s \in plan.scripts : script[w].left \in Seq(Carried(s))
  BY <1>1 DEF IInv, CallOK, ScriptOK
<1>3. Due(w) = script[w].left[1] /\ 1 \in 1..Len(script[w].left)
  BY <1>1, <1>2 DEF Due
<1>4. Due(w) \in Carried(script[w]) /\ Due(w) \in Carried(s)
  BY <1>2, <1>3 DEF Carried
<1>5. Due(w) \in Carriable(plan)
  BY <1>4 DEF Carriable
<1>6. Due(w).version \in Nat
  BY <1>5, DefinitionsAssumption DEF IInv, Registry, IsDefinition
<1> QED
  BY <1>4, <1>5, <1>6

LEMMA StoredTypes ==
  ASSUME IInv, NEW d \in definitions
  PROVE  d.version \in Nat
BY DefinitionsAssumption DEF IInv, Registry, IsDefinition

LEMMA RegistryStep == IInv /\ [Next]_vars => Registry'
<1> SUFFICES ASSUME IInv, [Next]_vars PROVE Registry'
  OBVIOUS
<1>0. Registry
  BY DEF IInv
<1>1. CASE definitions' = definitions
  <2>1. \A d : Follows(d)' <=> Follows(d)
    BY <1>1 DEF Follows, Versions
  <2>2. plan' = plan
    BY OnlyTheseWrite
  <2> QED
    BY <1>0, <1>1, <2>1, <2>2 DEF Registry
<1>2. ASSUME NEW w \in Workers, Inserts(w) PROVE Registry'
  <2>1. PICK d : d = Due(w)
    OBVIOUS
  <2>2. definitions' = definitions \cup {d} /\ d \in Carriable(plan) /\ SameVersion(d) = {}
    BY <1>2, <2>1, DueIsCarried DEF Inserts
  <2>3. IsFiniteSet(definitions')
    BY <1>0, <2>2, FS_AddElement DEF Registry
  <2>4. ASSUME NEW x \in definitions', NEW y \in definitions', x.table = y.table, Id(x) = Id(y)
        PROVE  x = y
    BY <1>0, <2>2, <2>4, SameVersionIsStored DEF Registry, Stored
  <2>5. Follows(d)
    BY <1>2, <2>1 DEF Inserts, IInv, CallOK, ScriptOK
  <2>6. \A x : Follows(x) => Follows(x)'
    BY <2>2 DEF Follows, Versions
  <2>7. \A x \in definitions' : Follows(x)'
    BY <1>0, <2>2, <2>5, <2>6 DEF Registry
  <2>8. plan' = plan
    BY OnlyTheseWrite
  <2> QED
    BY <1>0, <2>2, <2>3, <2>4, <2>7, <2>8 DEF Registry
<1> QED
  BY <1>1, <1>2, OnlyTheseWrite DEF Idle1, Captures, Appends

\* A version that is stored keeps what it says.
LEMMA StandingStays ==
  ASSUME IInv, [Next]_vars, NEW d, Standing(d)
  PROVE  Standing(d)'
<1>1. CASE definitions' = definitions
  BY <1>1 DEF Standing, Stored
<1>2. ASSUME NEW w \in Workers, Inserts(w) PROVE Standing(d)'
  <2>1. PICK x : x = Due(w)
    OBVIOUS
  <2>2. definitions' = definitions \cup {x} /\ Stored(x.table, Id(x)) = {}
    BY <1>2, <2>1, SameVersionIsStored DEF Inserts
  <2>3. Stored(d.table, Id(d))' = Stored(d.table, Id(d))
    BY <2>2 DEF Standing, Stored
  <2> QED
    BY <2>3 DEF Standing
<1> QED
  BY <1>1, <1>2, OnlyTheseWrite DEF Idle1, Captures, Appends

LEMMA AccountedStays ==
  ASSUME IInv, [Next]_vars, NEW d, Accounted(d)
  PROVE  Accounted(d)'
BY StandingStays, OnlyTheseWrite DEF Accounted

\* What is on record says the same as all that is stored under the name.
LEMMA OnRecordStands ==
  ASSUME IInv, NEW d, OnRecord(d)
  PROVE  Standing(d)
<1>1. PICK x \in Stored(d.table, Id(d)) : SameContent(x, d)
  BY SameVersionIsStored DEF OnRecord
<1>2. \A y \in Stored(d.table, Id(d)) : y = x
  BY DEF IInv, Registry, Stored
<1> QED
  BY <1>1, <1>2 DEF Standing

\* Whoever goes on with a definition as it is leaves it accounted for.
LEMMA GoingOnAccounts ==
  ASSUME IInv, [Next]_vars, NEW d, Diverge(d)
  PROVE  Accounted(d)'
<1>1. CASE OnRecord(d)
  BY <1>1, OnRecordStands, StandingStays DEF Accounted
<1>2. CASE ~OnRecord(d)
  BY <1>2 DEF Diverge, Accounted
<1> QED
  BY <1>1, <1>2

LEMMA FollowsStays ==
  ASSUME IInv, [Next]_vars, NEW d, Follows(d)
  PROVE  Follows(d)'
BY TablesGrow DEF Follows, Versions

-----------------------------------------------------------------------------
(* What is recorded stays explained.                                       *)

\* What is accounted for once a step is over explains the evaluations it makes.
LEMMA EvaluationExplained ==
  ASSUME IInv, [Next]_vars, NEW e, NEW q \in Asked(plan), NEW d, d = Brought(q), Accounted(d)',
         NEW o \in outcomes, Answers(e, q, o)
  PROVE  EvaluationOK(e)'
<1>1. o \in outcomes'
  BY TablesGrow
<1>2. q \in Asked(plan)'
  BY OnlyTheseWrite
<1> QED
  BY <1>1, <1>2 DEF EvaluationOK

LEMMA EvaluationStays ==
  ASSUME IInv, [Next]_vars, NEW e, EvaluationOK(e)
  PROVE  EvaluationOK(e)'
<1>1. PICK q \in Asked(plan) : Accounted(Brought(q)) /\ \E o \in outcomes : Answers(e, q, o)
  BY DEF EvaluationOK
<1>2. PICK d : d = Brought(q)
  OBVIOUS
<1>3. Accounted(d)'
  BY <1>1, <1>2, AccountedStays
<1> QED
  BY <1>1, <1>2, <1>3, EvaluationExplained

LEMMA CountedStays ==
  ASSUME IInv, [Next]_vars, NEW s, CountsOnce(s)
  PROVE  Counted(s)' = Counted(s)
<1>1. \A m \in s.facts.members : \E e \in evaluations : Member(e) = m
  BY DEF CountsOnce
<1>2. ASSUME NEW e \in evaluations', Member(e) \in s.facts.members PROVE e \in evaluations
  <2>1. PICK x \in evaluations : Member(x) = Member(e)
    BY <1>1, <1>2
  <2>2. x.key = e.key /\ x.revision = e.revision
    BY <2>1 DEF Member
  <2> QED
    BY <2>2, TablesGrow
<1> QED
  BY <1>2, TablesGrow DEF Counted

LEMMA SnapshotExplained ==
  ASSUME IInv, [Next]_vars, NEW s, CountsOnce(s), NEW q \in Asked(plan), q.table = "snapshots",
         NEW d, d = Brought(q), Accounted(d)', Admits1(s, d)
  PROVE  SnapshotOK(s)'
<1>1. Counted(s)' = Counted(s) /\ evaluations \subseteq evaluations'
  BY CountedStays, TablesGrow
<1>2. q \in Asked(plan)'
  BY OnlyTheseWrite
<1>3. Admits1(s, d)'
  BY <1>1 DEF Admits1
<1>4. \A x : Superseded(x, s) => Superseded(x, s)'
  BY <1>1 DEF Superseded
<1>5. /\ \A m \in s.facts.members : \E e \in evaluations' : Member(e) = m
      /\ \A x \in s.facts.exclusions :
            /\ x.key \notin {e.key : e \in Counted(s)'}
            /\ x.reason = "SUPERSEDED_BY_EARLIER_QUALIFYING_ISSUE" => Superseded(x, s)'
  BY <1>1, <1>4 DEF CountsOnce
<1>6. /\ s.basis.cutoff <= s.availability
      /\ \A e, x \in Counted(s)' : e.basis.outcome = x.basis.outcome => e = x
  BY <1>1 DEF CountsOnce
<1>7. CountsOnce(s)'
  BY <1>5, <1>6 DEF CountsOnce
<1> QED
  BY <1>2, <1>3, <1>7 DEF SnapshotOK

LEMMA SnapshotStays ==
  ASSUME IInv, [Next]_vars, NEW s, SnapshotOK(s)
  PROVE  SnapshotOK(s)'
<1>1. PICK q \in Asked(plan) :
         q.table = "snapshots" /\ Accounted(Brought(q)) /\ Admits1(s, Brought(q))
  BY DEF SnapshotOK
<1>2. PICK d : d = Brought(q)
  OBVIOUS
<1>3. Accounted(d)' /\ Admits1(s, d) /\ CountsOnce(s)
  BY <1>1, <1>2, AccountedStays DEF SnapshotOK
<1> QED
  BY <1>1, <1>2, <1>3, SnapshotExplained

-----------------------------------------------------------------------------
(* What a call begins with.                                                *)

LEMMA AskedAreCalls ==
  ASSUME IInv, NEW q \in Asked(plan)
  PROVE  IsCall(q)
BY DefinitionsAssumption DEF IInv, Registry

\* A script that scores has registered all it carries, or gone on with it.
LEMMA ScriptsAreAccounted ==
  ASSUME IInv, NEW w \in Workers, pc[w] = "call", NEW q \in script[w].call
  PROVE  q \in Asked(plan) /\ Accounted(Brought(q))
<1>1. script[w] # NoScript /\ script[w].left = <<>> /\ ~script[w].dryRun
  BY DEF IInv, CallOK, ScriptOK
<1>2. PICK s \in plan.scripts :
         /\ script[w].call = s.call
         /\ \A d \in Carried(s) : d \in Carried(script[w]) \/ script[w].dryRun \/ Accounted(d)
  BY <1>1 DEF IInv, CallOK, ScriptOK
<1>3. Carried(script[w]) = {}
  BY <1>1 DEF Carried
<1>4. Brought(q) \in Carried(s)
  BY <1>2, PlansAssumption DEF IInv, Registry
<1>5. Accounted(Brought(q))
  BY <1>1, <1>2, <1>3, <1>4
<1> QED
  BY <1>2, <1>5 DEF Asked

\* An evaluation answers its call.
LEMMA EvaluationMade ==
  ASSUME IInv, NEW q \in Asked(plan), q.table = "evaluations", NEW definition, NEW o \in Resolved(q.protocol, q.outcome, q.availability),
         Admissible(q, definition, o)
  PROVE  /\ o \in outcomes /\ Answers(Evaluation(q, o), q, o)
         /\ Evaluation(q, o).availability \in Nat /\ Evaluation(q, o).table = "evaluations"
<1> DEFINE e == Evaluation(q, o)
<1>1. q.availability \in Nat /\ IsProtocol(q.protocol)
  BY AskedAreCalls DEF IsCall, IsEvaluationCall
<1>2. q.protocol.policy \in {"FIRST_RELEASE", "FIXED_RELEASE_VINTAGE", "LATEST_AVAILABLE_AS_OF"}
  BY <1>1 DEF IsProtocol
<1>3. /\ o \in outcomes
      /\ q.protocol.policy = "FIRST_RELEASE" => o.revision = 0
      /\ q.protocol.policy = "FIXED_RELEASE_VINTAGE" => o.revision \in q.protocol.fixed
  <2>1. CASE q.protocol.policy = "FIRST_RELEASE"
    BY <2>1 DEF Resolved
  <2>2. CASE q.protocol.policy = "FIXED_RELEASE_VINTAGE"
    BY <2>2 DEF Resolved
  <2>3. CASE q.protocol.policy = "LATEST_AVAILABLE_AS_OF"
    BY <2>3 DEF Resolved
  <2> QED
    BY <1>2, <2>1, <2>2, <2>3
<1>4. /\ e.table = "evaluations" /\ e.availability = q.availability
      /\ e.basis.claim = q.forecast.claim /\ e.basis.claimRevision = q.forecast.revision
      /\ e.basis.outcome = o.key /\ e.basis.outcomeRevision = o.revision
      /\ e.basis.protocol = Id(q.protocol) /\ e.basis.definition = q.protocol.definition
      /\ e.basis.mode = q.mode /\ e.facts.review = q.review
  BY DEF Evaluation
<1> HIDE DEF e
<1>5. Answers(e, q, o)
  BY <1>3, <1>4 DEF Answers, Admissible
<1> QED
  BY <1>1, <1>3, <1>4, <1>5 DEF e

\* Of the evaluations known of a key the latest one is unique.
LEMMA KnownOnce ==
  ASSUME IInv, NEW c, NEW t, NEW e \in Known(c, t), NEW x \in Known(c, t), e.key = x.key
  PROVE  e = x
<1>1. e \in evaluations /\ x \in evaluations
  BY DEF Known, Scored
<1>2. /\ e.availability \in Nat /\ x.availability \in Nat
      /\ e.revision \in Nat /\ x.revision \in Nat
  BY <1>1 DEF IInv, Ledgers, Numbered, Ordered
<1>3. /\ \/ x.availability < e.availability
         \/ x.availability = e.availability /\ x.revision <= e.revision
      /\ \/ e.availability < x.availability
         \/ e.availability = x.availability /\ e.revision <= x.revision
  BY DEF Known
<1>4. e.revision = x.revision
  BY <1>2, <1>3
<1> QED
  BY <1>1, <1>4 DEF IInv, Ledgers, Numbered

\* A selection accepts one of the earliest issues of every outcome.
LEMMA SelectionsCountOnce ==
  ASSUME NEW c, NEW t, NEW A \in Selections(c, t)
  PROVE  /\ A \subseteq Eligible(c, t)
         /\ \A e, x \in A : e.basis.outcome = x.basis.outcome => e = x
         /\ \A v \in Eligible(c, t) : \E x \in A :
               /\ v.basis.outcome = x.basis.outcome
               /\ ForecastOf(x).issue <= ForecastOf(v).issue
<1> DEFINE Rivals(e) == {x \in Eligible(c, t) : x.basis.outcome = e.basis.outcome}
<1>1. /\ A \subseteq Eligible(c, t)
      /\ \A e \in Eligible(c, t) : \E x \in Rivals(e) :
            /\ A \cap Rivals(e) = {x}
            /\ \A y \in Rivals(e) : ForecastOf(x).issue <= ForecastOf(y).issue
  BY DEF Selections
<1>2. \A e \in Eligible(c, t) : e \in Rivals(e)
  OBVIOUS
<1>3. ASSUME NEW e \in A, NEW x \in A, e.basis.outcome = x.basis.outcome PROVE e = x
  <2>1. e \in Rivals(e) /\ x \in Rivals(e)
    BY <1>1, <1>3
  <2>2. PICK y \in Rivals(e) : A \cap Rivals(e) = {y}
    BY <1>1
  <2> QED
    BY <2>1, <2>2
<1>4. ASSUME NEW v \in Eligible(c, t)
      PROVE  \E x \in A : /\ v.basis.outcome = x.basis.outcome
                          /\ ForecastOf(x).issue <= ForecastOf(v).issue
  <2>1. PICK x \in Rivals(v) : /\ A \cap Rivals(v) = {x}
                               /\ \A y \in Rivals(v) : ForecastOf(x).issue <= ForecastOf(y).issue
    BY <1>1
  <2>2. x \in A /\ x.basis.outcome = v.basis.outcome
    BY <2>1
  <2> QED
    BY <1>2, <2>1, <2>2
<1> QED
  BY <1>1, <1>3, <1>4

\* No exclusion by the cohort's own rules is called superseded.
LEMMA ExclusionsDiffer ==
  ASSUME NEW e, NEW c
  PROVE  Exclusion(e, c) # "SUPERSEDED_BY_EARLIER_QUALIFYING_ISSUE"
BY DEF Exclusion

\* A snapshot counts what its cohort admits.
LEMMA SnapshotMade ==
  ASSUME IInv, NEW q \in Asked(plan), q.table = "snapshots",
         NEW s \in Snapshots(q), KnewEverything(q, s)
  PROVE  /\ CountsOnce(s) /\ Admits1(s, Brought(q))
         /\ s.availability \in Nat /\ s.table = "snapshots"
<1> DEFINE c == q.cohort
           t == q.cutoff
<1>1. q.availability \in Nat /\ t <= q.availability /\ Brought(q) = c
  BY AskedAreCalls DEF IsCall, KnewEverything, Brought
<1>2. PICK A \in Selections(c, t) : \E rivals, ordered : s = Snapshot(q, A, rivals, ordered)
  <2> DEFINE Orders(A) ==
               IF Cardinality(A) <= 1 /\ Cardinality(Known(c, t) \ A) <= 1 THEN {TRUE} ELSE BOOLEAN
             References == IF q.rivals = {} THEN {{}} ELSE UNION {Selections(d, t) : d \in q.rivals}
             Of(A) == {Snapshot(q, A, rivals, ordered) : rivals \in References, ordered \in Orders(A)}
  <2>1. Snapshots(q) = UNION {Of(A) : A \in Selections(c, t)}
    BY DEF Snapshots
  <2> HIDE DEF Of
  <2>2. PICK A \in Selections(c, t) : s \in Of(A)
    BY <2>1
  <2> HIDE DEF Orders, References
  <2>3. \E rivals \in References, ordered \in Orders(A) : s = Snapshot(q, A, rivals, ordered)
    BY <2>2 DEF Of
  <2> QED
    BY <2>2, <2>3
<1>3. /\ s.table = "snapshots" /\ s.availability = q.availability
      /\ s.basis.cohort = Id(c) /\ s.basis.mode = c.mode /\ s.basis.cutoff = t
      /\ s.facts.members = {Member(e) : e \in A} /\ s.facts.exclusions = Exclusions(c, t, A)
  BY <1>2 DEF Snapshot
<1> HIDE DEF c, t
<1>4. /\ A \subseteq Eligible(c, t) /\ Eligible(c, t) \subseteq Known(c, t)
      /\ Known(c, t) \subseteq evaluations
  BY SelectionsCountOnce DEF Eligible, Known, Scored
<1>5. Counted(s) = A
  <2>1. \A e \in evaluations, x \in A : Member(e) = Member(x) => e = x
    <3>1. ASSUME NEW e \in evaluations, NEW x \in A, Member(e) = Member(x) PROVE e = x
      <4>1. e.key = x.key /\ e.revision = x.revision /\ x \in evaluations
        BY <1>4, <3>1 DEF Member
      <4> QED
        BY <4>1 DEF IInv, Ledgers, Numbered
    <3> QED
      BY <3>1
  <2> QED
    BY <1>3, <1>4, <2>1 DEF Counted
<1>6. Admits1(s, c)
  <2>1. \A e \in A : /\ e.basis.mode = c.mode /\ Exclusion(e, c) = "NONE"
                     /\ e.availability <= t
    BY <1>4 DEF Eligible, Known, Scored
  <2> QED
    BY <1>3, <1>5, <2>1 DEF Admits1
<1>7. ASSUME NEW x \in s.facts.exclusions
      PROVE  /\ x.key \notin {e.key : e \in A}
             /\ x.reason = "SUPERSEDED_BY_EARLIER_QUALIFYING_ISSUE" => Superseded(x, s)
  <2>1. PICK v \in Known(c, t) \ A :
           /\ x.key = v.key
           /\ x.reason = IF v \in Eligible(c, t) THEN "SUPERSEDED_BY_EARLIER_QUALIFYING_ISSUE"
                         ELSE Exclusion(v, c)
    BY <1>3 DEF Exclusions
  <2>2. \A e \in A : e.key # v.key
    BY <1>4, <2>1, KnownOnce
  <2>3. ASSUME x.reason = "SUPERSEDED_BY_EARLIER_QUALIFYING_ISSUE" PROVE Superseded(x, s)
    <3>1. v \in Eligible(c, t)
      BY <2>1, <2>3, ExclusionsDiffer
    <3>2. PICK e \in A : /\ v.basis.outcome = e.basis.outcome
                         /\ ForecastOf(e).issue <= ForecastOf(v).issue
      BY <3>1, SelectionsCountOnce
    <3>3. v.availability <= t /\ v \in evaluations
      BY <1>4, <2>1 DEF Known
    <3> QED
      BY <1>3, <1>5, <2>1, <3>2, <3>3 DEF Superseded
  <2> QED
    BY <2>1, <2>2, <2>3
<1>8. \A m \in s.facts.members : \E e \in evaluations : Member(e) = m
  BY <1>3, <1>4
<1>9. \A e, x \in Counted(s) : e.basis.outcome = x.basis.outcome => e = x
  BY <1>5, SelectionsCountOnce
<1>10. CountsOnce(s)
  BY <1>1, <1>3, <1>5, <1>7, <1>8, <1>9 DEF CountsOnce
<1> QED
  BY <1>1, <1>3, <1>6, <1>10

-----------------------------------------------------------------------------
(* Every step keeps the invariant.                                         *)

\* A row says what its candidate said.
LEMMA RowsAreCandidates ==
  ASSUME NEW c, NEW r, r.availability = c.availability, r.basis = c.basis, r.facts = c.facts
  PROVE  /\ EvaluationOK(c) => EvaluationOK(r)
         /\ SnapshotOK(c) => SnapshotOK(r)
BY DEF EvaluationOK, Answers, SnapshotOK, CountsOnce, Counted, Admits1, Superseded

LEMMA RecordedStep == IInv /\ [Next]_vars => Recorded'
<1> SUFFICES ASSUME IInv, [Next]_vars PROVE Recorded'
  OBVIOUS
<1>1. \A table, id : Stored(table, id) \subseteq Stored(table, id)'
  BY TablesGrow DEF Stored
<1>2. ASSUME NEW w \in Workers, Appends(w)
      PROVE  /\ IsFor(w, "evaluations") =>
                   EvaluationOK(RowOf(w)) /\ Named(RowOf(w))
             /\ IsFor(w, "snapshots") =>
                   SnapshotOK(RowOf(w)) /\ Stored("cohorts", RowOf(w).basis.cohort) # {}
  <2>1. PICK c : c = candidate[w]
    OBVIOUS
  <2>2. CandidateOK(c)
    BY <1>2, <2>1 DEF Appends, IInv, CallOK
  <2>3. PICK r : r = RowOf(w)
    OBVIOUS
  <2>4. r.availability = c.availability /\ r.basis = c.basis /\ r.facts = c.facts
    BY <1>2, <2>1, <2>3, AddedFits
  <2>5. \A x \in Refers(c) : Stored(x[1], x[2]) # {}
    BY <1>2, <2>1 DEF Appends, Unreferenced
  <2>6. c.table = "evaluations" => EvaluationOK(r) /\ Named(r)
    BY <2>2, <2>4, <2>5, RowsAreCandidates DEF CandidateOK, Refers, Named
  <2>7. c.table = "snapshots" => SnapshotOK(r) /\ Stored("cohorts", r.basis.cohort) # {}
    BY <2>2, <2>4, <2>5, RowsAreCandidates DEF CandidateOK, Refers
  <2> QED
    BY <2>1, <2>3, <2>6, <2>7 DEF IsFor
<1>3. ASSUME NEW e \in evaluations'
      PROVE  EvaluationOK(e) /\ Named(e)
  <2>1. CASE e \in evaluations
    BY <2>1 DEF IInv, Recorded
  <2>2. CASE e \notin evaluations
    <3>1. PICK w \in Workers : Appends(w) /\ IsFor(w, "evaluations") /\ e = RowOf(w)
      BY <2>2, OnlyTheseWrite DEF Idle1, Captures, RecordOutcome, Inserts, Tables, Appends
    <3> QED
      BY <1>2, <3>1
  <2> QED
    BY <2>1, <2>2
<1>4. ASSUME NEW s \in snapshots'
      PROVE  SnapshotOK(s) /\ Stored("cohorts", s.basis.cohort) # {}
  <2>1. CASE s \in snapshots
    BY <2>1 DEF IInv, Recorded
  <2>2. CASE s \notin snapshots
    <3>1. PICK w \in Workers : Appends(w) /\ IsFor(w, "snapshots") /\ s = RowOf(w)
      BY <2>2, OnlyTheseWrite DEF Idle1, Captures, RecordOutcome, Inserts, Tables, Appends
    <3> QED
      BY <1>2, <3>1
  <2> QED
    BY <2>1, <2>2
<1>5. ASSUME NEW e \in evaluations'
      PROVE  EvaluationOK(e)' /\ Named(e)'
  BY <1>1, <1>3, EvaluationStays DEF Named
<1>6. ASSUME NEW s \in snapshots'
      PROVE  SnapshotOK(s)' /\ Stored("cohorts", s.basis.cohort)' # {}
  BY <1>1, <1>4, SnapshotStays
<1> QED
  BY <1>5, <1>6 DEF Recorded

\* A step of one call.
Move(w) ==
    \/ StartScript(w) \/ (\E table : Register(w, table))
    \/ Ask(w) \/ Score(w) \/ Record(w) \/ RefuseToAdd(w)

LEMMA OneMoves == Next => Capture \/ \E w \in Workers : Move(w)
BY DEF Next, Move, RecordForecastOutcomeDefinition, RecordForecastEvaluationProtocol,
       DefineForecastPerformanceCohort, DefineForecastPerformanceBenchmark,
       DefineForecastPerformanceMethodology

LEMMA CaptureTouchesNoCall ==
  Capture => UNCHANGED <<pc, candidate, latest, outcome, made, script>>
BY DEF Capture, RecordOutcome, definitionVars

\* What of a call may change, and what its step leaves alone.
Touches(w) ==
    /\ pc' \in [Workers -> Steps] /\ outcome' \in [Workers -> Ends]
    /\ DOMAIN candidate' = Workers /\ DOMAIN latest' = Workers /\ DOMAIN script' = Workers
    /\ \A u \in Workers : u # w =>
          /\ pc'[u] = pc[u] /\ candidate'[u] = candidate[u]
          /\ latest'[u] = latest[u] /\ script'[u] = script[u]

LEMMA OnlyOneMoves ==
  ASSUME IInv, NEW w \in Workers, Move(w)
  PROVE  Touches(w) /\ made' \in 0..MaxCalls
<1>0. Control /\ plan \in Plans /\ MaxCalls \in Nat
  BY ScoringAssumption DEF IInv, Registry
<1> USE DEF Control, Touches, Steps, Ends, Finish, Refuse, Begin, Advance, Abort, definitionVars
<1>1. CASE StartScript(w) \/ Ask(w)
  <2>1. made' = made + 1 /\ made < plan.runs /\ plan.runs \in 0..MaxCalls
    BY <1>0, <1>1, DefinitionsAssumption DEF StartScript, Ask
  <2>2. made' \in 0..MaxCalls
    BY <1>0, <2>1
  <2>3. CASE StartScript(w)
    BY <1>0, <2>2, <2>3 DEF StartScript
  <2>4. CASE Ask(w)
    <3>1. PICK q \in plan.calls : Call(w, q) /\ script' = script
      BY <2>4 DEF Ask
    <3>2. CASE q.table = "evaluations" /\ EvaluateUnder(w, q)
      BY <1>0, <2>2, <3>1, <3>2 DEF EvaluateUnder, Evaluate
    <3>3. CASE q.table = "snapshots" /\ TakeSnapshot(w, q)
      BY <1>0, <2>2, <3>1, <3>3 DEF TakeSnapshot
    <3> QED
      BY <3>1, <3>2, <3>3 DEF Call
  <2> QED
    BY <1>1, <2>3, <2>4
<1>2. ASSUME NEW table, Compare(w, table) PROVE Touches(w) /\ made' = made
  BY <1>0, <1>2 DEF Compare
<1>3. ASSUME NEW table, Insert(w, table) PROVE Touches(w) /\ made' = made
  BY <1>0, <1>3 DEF Insert
<1>4. ASSUME Score(w) PROVE Touches(w) /\ made' = made
  <2>1. PICK q \in script[w].call : Call(w, q) /\ script' = [script EXCEPT ![w] = NoScript]
    BY <1>4 DEF Score
  <2>2. made' = made
    BY <1>4 DEF Score
  <2>3. CASE q.table = "evaluations" /\ EvaluateUnder(w, q)
    BY <1>0, <2>1, <2>2, <2>3 DEF EvaluateUnder, Evaluate
  <2>4. CASE q.table = "snapshots" /\ TakeSnapshot(w, q)
    BY <1>0, <2>1, <2>2, <2>4 DEF TakeSnapshot
  <2> QED
    BY <2>1, <2>3, <2>4 DEF Call
<1>5. ASSUME Record(w) PROVE Touches(w) /\ made' = made
  BY <1>0, <1>5 DEF Record, ReadLatest, ReadHistory, AddEvaluation, AddSnapshot, Add
<1>6. ASSUME RefuseToAdd(w) PROVE Touches(w) /\ made' = made
  BY <1>0, <1>6 DEF RefuseToAdd
<1> QED
  BY <1>0, <1>1, <1>2, <1>3, <1>4, <1>5, <1>6 DEF Move, Register

LEMMA ControlStep == IInv /\ [Next]_vars => Control'
<1> SUFFICES ASSUME IInv, [Next]_vars PROVE Control'
  OBVIOUS
<1>1. CASE UNCHANGED vars \/ Capture
  BY <1>1, CaptureTouchesNoCall DEF vars, scoringVars, definitionVars, IInv, Control
<1>2. ASSUME NEW w \in Workers, Move(w) PROVE Control'
  BY <1>2, OnlyOneMoves DEF Touches, Control
<1> QED
  BY <1>1, <1>2, OneMoves

-----------------------------------------------------------------------------
(* What calls know.                                                        *)

LEMMA CandidateStays ==
  ASSUME IInv, [Next]_vars, NEW c, CandidateOK(c)
  PROVE  CandidateOK(c)'
BY EvaluationStays, SnapshotStays DEF CandidateOK

\* The rows of a key, for a given candidate, only grow, and behind those it has.
LEMMA RowsGrow ==
  ASSUME IInv, [Next]_vars, NEW c
  PROVE  /\ RowsOf(c) \subseteq RowsOf(c)'
         /\ \A v \in RowsOf(c)' : v \in RowsOf(c)
               \/ \A l \in RowsOf(c) : l.revision \in Nat /\ v.revision \in Nat /\ l.revision < v.revision
<1>1. RowsOf(c) \subseteq RowsOf(c)'
  BY TablesGrow DEF RowsOf
<1>2. CASE evaluations' = evaluations /\ snapshots' = snapshots
  BY <1>2 DEF RowsOf
<1>3. ASSUME NEW w \in Workers, Appends(w), NEW v \in RowsOf(c)', v \notin RowsOf(c), NEW l \in RowsOf(c)
      PROVE  l.revision \in Nat /\ v.revision \in Nat /\ l.revision < v.revision
  <2>1. PICK r : r = RowOf(w)
    OBVIOUS
  <2>2. v = r /\ l \in TableOf(w) /\ l.key = v.key
    BY <1>3, <2>1 DEF Appends, IsFor, RowsOf, TableOf
  <2>3. Fits(TableOf(w), r)
    BY <1>3, <2>1, AddedFits
  <2>4. l.revision \in Nat
    BY <2>2 DEF IInv, Ledgers, Numbered, TableOf
  <2> QED
    BY <2>2, <2>3, <2>4 DEF Fits
<1> QED
  BY <1>1, <1>2, <1>3, OnlyTheseWrite DEF Idle1, Captures, RecordOutcome, Inserts, Tables

\* What a call knows stays true while another one moves.
LEMMA OthersKnow ==
  ASSUME IInv, [Next]_vars, NEW u \in Workers,
         pc'[u] = pc[u], candidate'[u] = candidate[u], latest'[u] = latest[u],
         script'[u] = script[u]
  PROVE  CallOK(u)'
<1>0. CallOK(u)
  BY DEF IInv
<1>1. PICK c : c = candidate[u]
  OBVIOUS
<1>2. PICK l : l = latest[u]
  OBVIOUS
<1>3. pc'[u] \in {"latest", "history", "add"} => CandidateOK(c)'
  BY <1>0, <1>1, CandidateStays DEF CallOK
<1>4. pc'[u] \in {"history", "add"} /\ l # NoRow => l \in RowsOf(c)' /\ l.availability <= c.availability
  BY <1>0, <1>1, <1>2, RowsGrow DEF CallOK, RemembersLatest
<1>5. ASSUME pc'[u] = "add", l # NoRow, NEW v \in RowsOf(c)',
             v.revision <= l.revision, v.basis = c.basis
      PROVE  v.facts = c.facts
  <2>1. l \in RowsOf(c)
    BY <1>0, <1>1, <1>2, <1>5 DEF CallOK, RemembersLatest
  <2>2. v \in RowsOf(c)
    BY <1>5, <2>1, RowsGrow
  <2> QED
    BY <1>0, <1>1, <1>2, <1>5, <2>2 DEF CallOK, Checked
<1>6. ScriptOK(u)'
  <2>1. PICK d : d = Due(u)
    OBVIOUS
  <2>2. d = Due(u)' /\ plan' = plan
    BY <2>1, OnlyTheseWrite DEF Due
  <2>3. pc[u] = "insert" => Follows(d)'
    BY <1>0, <2>1, FollowsStays DEF CallOK, ScriptOK
  <2>4. \A x : Accounted(x) => Accounted(x)'
    BY AccountedStays
  <2> QED
    BY <1>0, <2>2, <2>3, <2>4 DEF CallOK, ScriptOK
<1>7. RemembersLatest(u)'
  BY <1>1, <1>2, <1>4 DEF RemembersLatest
<1>8. Checked(u)'
  BY <1>1, <1>2, <1>5 DEF Checked
<1> QED
  BY <1>1, <1>3, <1>6, <1>7, <1>8 DEF CallOK

\* A call that has ended knows nothing, and one that begins has its candidate.
LEMMA EndKnows ==
  ASSUME NEW w \in Workers, pc'[w] = "idle", script'[w] = NoScript
  PROVE  CallOK(w)'
BY DEF CallOK, RemembersLatest, Checked, ScriptOK

LEMMA BeginKnows ==
  ASSUME NEW w \in Workers, NEW c, CandidateOK(c)',
         pc'[w] = "latest", candidate'[w] = c, script'[w] = NoScript
  PROVE  CallOK(w)'
BY DEF CallOK, RemembersLatest, Checked, ScriptOK

LEMMA CallerKnows ==
  ASSUME IInv, [Next]_vars, NEW w \in Workers, NEW q \in Asked(plan),
         NEW p, p = Brought(q), Accounted(p)', Call(w, q), script'[w] = NoScript
  PROVE  CallOK(w)'
<1>0. DOMAIN candidate = Workers /\ pc \in [Workers -> Steps]
  BY DEF IInv, Control
<1>1. ASSUME NEW r, Refuse(w, r) PROVE CallOK(w)'
  BY <1>0, <1>1, EndKnows DEF Refuse, Finish
<1>2. ASSUME NEW c, CandidateOK(c)', Begin(w, c) PROVE CallOK(w)'
  BY <1>0, <1>2, BeginKnows DEF Begin
<1>3. CASE q.table = "evaluations" /\ EvaluateUnder(w, q)
  <2>1. ASSUME NEW d, Evaluate(w, q, d) PROVE CallOK(w)'
    <3>1. CASE Refuse(w, "REJECTED")
      BY <1>1, <3>1
    <3>2. CASE ~Refuse(w, "REJECTED")
      <4>1. PICK o \in Resolved(q.protocol, q.outcome, q.availability) :
               Admissible(q, d, o) /\ Begin(w, Evaluation(q, o))
        BY <2>1, <3>2 DEF Evaluate
      <4>2. PICK c : c = Evaluation(q, o)
        OBVIOUS
      <4>3. /\ o \in outcomes /\ Answers(c, q, o)
            /\ c.availability \in Nat /\ c.table = "evaluations"
        BY <1>3, <4>1, <4>2, EvaluationMade
      <4>4. CandidateOK(c)'
        BY <4>3, EvaluationExplained DEF CandidateOK
      <4> QED
        BY <1>2, <4>1, <4>2, <4>4
    <3> QED
      BY <3>1, <3>2
  <2> QED
    BY <1>1, <1>3, <2>1 DEF EvaluateUnder
<1>4. CASE q.table = "snapshots" /\ TakeSnapshot(w, q)
  <2>1. PICK s \in Snapshots(q) :
           \/ Refuse(w, "TOO_EARLY")
           \/ KnewEverything(q, s) /\ Begin(w, s)
    BY <1>4 DEF TakeSnapshot
  <2>2. CASE KnewEverything(q, s) /\ Begin(w, s)
    <3>1. /\ CountsOnce(s) /\ Admits1(s, p)
          /\ s.availability \in Nat /\ s.table = "snapshots"
      BY <1>4, <2>2, SnapshotMade
    <3>2. CandidateOK(s)'
      BY <1>4, <3>1, SnapshotExplained DEF CandidateOK
    <3> QED
      BY <1>2, <2>2, <3>2
  <2> QED
    BY <1>1, <2>1, <2>2
<1> QED
  BY <1>3, <1>4 DEF Call

LEMMA ReaderKnows ==
  ASSUME IInv, [Next]_vars, NEW w \in Workers, ReadLatest(w), script' = script
  PROVE  CallOK(w)'
<1>0. /\ pc[w] = "latest" /\ DOMAIN latest = Workers /\ pc \in [Workers -> Steps]
      /\ script[w] = NoScript /\ candidate' = candidate
  BY DEF ReadLatest, IInv, Control, CallOK, ScriptOK
<1>1. PICK c : c = candidate[w]
  OBVIOUS
<1>2. CandidateOK(c) /\ CandidateOK(c)' /\ c = candidate'[w]
  BY <1>0, <1>1, CandidateStays DEF IInv, CallOK
<1>3. CASE Finish(w, "OUT_OF_ORDER")
  BY <1>0, <1>3, EndKnows DEF Finish
<1>4. CASE ~Finish(w, "OUT_OF_ORDER")
  <2>1. PICK l \in RowsOf(c) \cup {NoRow} :
           /\ IF RowsOf(c) = {} THEN l = NoRow ELSE l # NoRow /\ IsLatest(l, c)
           /\ ~OutOfOrder(c, l)
           /\ latest' = [latest EXCEPT ![w] = l] /\ pc' = [pc EXCEPT ![w] = "history"]
    BY <1>1, <1>4 DEF ReadLatest
  <2>2. pc'[w] = "history" /\ latest'[w] = l
    BY <1>0, <2>1
  <2>3. l # NoRow => l \in RowsOf(c)' /\ l.availability <= c.availability
    <3>1. SUFFICES ASSUME l # NoRow PROVE l \in RowsOf(c)' /\ l.availability <= c.availability
      OBVIOUS
    <3>2. l \in RowsOf(c) /\ l \in RowsOf(c)'
      BY <2>1, <3>1, RowsGrow
    <3>3. l.availability \in Nat /\ c.availability \in Nat
      BY <1>2, <3>2 DEF CandidateOK, IInv, Ledgers, Ordered, RowsOf
    <3> QED
      BY <2>1, <3>1, <3>2, <3>3 DEF OutOfOrder
  <2>4. RemembersLatest(w)'
    BY <1>2, <2>2, <2>3 DEF RemembersLatest
  <2>5. Checked(w)' /\ ScriptOK(w)'
    BY <1>0, <2>2 DEF Checked, ScriptOK
  <2> QED
    BY <1>2, <2>4, <2>5 DEF CallOK
<1> QED
  BY <1>3, <1>4

\* A call that goes on to add has found nothing in the history against it.
LEMMA HistorianKnows ==
  ASSUME IInv, [Next]_vars, NEW w \in Workers, ReadHistory(w), script' = script
  PROVE  CallOK(w)'
<1>0. /\ pc[w] = "history" /\ pc \in [Workers -> Steps]
      /\ script[w] = NoScript /\ candidate' = candidate
      /\ evaluations' = evaluations /\ snapshots' = snapshots
  BY DEF ReadHistory, Tables, IInv, Control, CallOK, ScriptOK
<1>1. PICK c : c = candidate[w]
  OBVIOUS
<1>2. CandidateOK(c)' /\ c = candidate'[w] /\ RowsOf(c)' = RowsOf(c)
  BY <1>0, <1>1, CandidateStays DEF IInv, CallOK, RowsOf
<1>3. ASSUME NEW r, Finish(w, r) PROVE CallOK(w)'
  BY <1>0, <1>3, EndKnows DEF Finish
<1>4. CASE \A r : ~Finish(w, r)
  <2>1. ~Contradicted(c) /\ pc' = [pc EXCEPT ![w] = "add"] /\ latest' = latest
    BY <1>1, <1>4 DEF ReadHistory
  <2>2. pc'[w] = "add"
    BY <1>0, <2>1
  <2>3. \A v \in RowsOf(c) : v.basis = c.basis => v.facts = c.facts
    BY <2>1 DEF Contradicted, SamePayload
  <2>4. Checked(w)'
    BY <1>2, <2>3 DEF Checked
  <2>5. RemembersLatest(w)'
    BY <1>0, <1>1, <1>2, <2>1 DEF IInv, CallOK, RemembersLatest
  <2>6. ScriptOK(w)'
    BY <1>0, <2>2 DEF ScriptOK
  <2> QED
    BY <1>2, <2>4, <2>5, <2>6 DEF CallOK
<1> QED
  BY <1>3, <1>4

-----------------------------------------------------------------------------
(* What scripts know.                                                      *)

LEMMA StarterKnows ==
  ASSUME IInv, [Next]_vars, NEW w \in Workers, StartScript(w)
  PROVE  CallOK(w)'
<1>0. DOMAIN script = Workers /\ pc \in [Workers -> Steps] /\ plan \in Plans /\ plan' = plan
  BY OnlyTheseWrite DEF IInv, Control, Registry
<1>1. PICK s \in plan.scripts : script' = [script EXCEPT ![w] = s]
  BY DEF StartScript
<1>2. script'[w] = s /\ pc'[w] = "list"
  BY <1>0, <1>1 DEF StartScript
<1>3. s \in ScriptsOf(plan) /\ s # NoScript /\ s.left # <<>>
  BY <1>0, DefinitionsAssumption
<1>4. s.left \in Seq(Carried(s))
  <2>1. s.left \in Seq(Carriable(plan))
    BY <1>3 DEF ScriptsOf
  <2>2. \A n \in 1..Len(s.left) : s.left[n] \in Carried(s)
    BY DEF Carried
  <2> QED
    BY <2>1, <2>2
<1>5. ScriptOK(w)'
  BY <1>0, <1>2, <1>3, <1>4 DEF ScriptOK
<1> QED
  BY <1>2, <1>5 DEF CallOK, RemembersLatest, Checked

\* A script that goes on leaves what it was at accounted for, or only tries.
LEMMA AdvanceKnows ==
  ASSUME IInv, [Next]_vars, NEW w \in Workers, pc[w] \in {"list", "insert"}, Advance(w),
         NEW d, d = Due(w), script[w].dryRun \/ Accounted(d)'
  PROVE  CallOK(w)'
<1>0. /\ DOMAIN script = Workers /\ pc \in [Workers -> Steps] /\ plan' = plan
      /\ script[w] # NoScript /\ script[w] \in ScriptsOf(plan) /\ script[w].left # <<>>
      /\ NoScript \notin ScriptsOf(plan)
  BY OnlyTheseWrite, DefinitionsAssumption DEF IInv, Control, CallOK, ScriptOK, Registry
<1>1. PICK z : z = script[w]
  OBVIOUS
<1>2. PICK left : left = Tail(z.left)
  OBVIOUS
<1>3. PICK s \in plan.scripts :
         /\ z.call = s.call /\ z.left \in Seq(Carried(s))
         /\ \A x \in Carried(s) : x \in Carried(z) \/ z.dryRun \/ Accounted(x)
  BY <1>0, <1>1 DEF IInv, CallOK, ScriptOK
<1>4. /\ z.left \in Seq(Carriable(plan)) /\ z.left # <<>>
      /\ z.dryRun \in BOOLEAN /\ z.call \in SUBSET Asked(plan)
  BY <1>0, <1>1 DEF ScriptsOf
<1>5. left \in Seq(Carriable(plan)) /\ left \in Seq(Carried(s)) /\ Len(left) = Len(z.left) - 1
      /\ \A n \in 1..Len(left) : left[n] = z.left[n + 1]
  BY <1>2, <1>3, <1>4
<1>6. DEFINE n1 == [z EXCEPT !.left = left]
<1>7. /\ n1 \in ScriptsOf(plan) /\ n1.left = left
      /\ n1.call = z.call /\ n1.dryRun = z.dryRun
  BY <1>0, <1>1, <1>5 DEF ScriptsOf
<1> HIDE DEF n1
<1>8. ASSUME NEW x \in Carried(s) PROVE x \in Carried(n1) \/ n1.dryRun \/ Accounted(x)'
  <2>1. CASE z.dryRun \/ Accounted(x)
    BY <1>7, <2>1, AccountedStays
  <2>2. CASE x \in Carried(z)
    <3>1. PICK n \in 1..Len(z.left) : x = z.left[n]
      BY <2>2 DEF Carried
    <3>2. CASE n = 1
      <4>1. x = d
        BY <1>1, <1>4, <3>1, <3>2 DEF Due
      <4> QED
        BY <1>1, <1>7, <4>1
    <3>3. CASE n # 1
      <4>1. n - 1 \in 1..Len(left) /\ (n - 1) + 1 = n
        BY <1>4, <1>5, <3>1, <3>3
      <4>2. x = left[n - 1]
        BY <1>5, <3>1, <4>1
      <4> QED
        BY <1>7, <4>1, <4>2 DEF Carried
    <3> QED
      BY <3>2, <3>3
  <2> QED
    BY <1>3, <2>1, <2>2
<1>9. CASE left = <<>> /\ (z.dryRun \/ z.call = {})
  <2>1. script' = [script EXCEPT ![w] = NoScript] /\ Finish(w, "DONE")
    BY <1>1, <1>2, <1>9 DEF Advance
  <2> QED
    BY <1>0, <2>1, EndKnows DEF Finish
<1>10. CASE ~(left = <<>> /\ (z.dryRun \/ z.call = {}))
  <2>1. /\ script' = [script EXCEPT ![w] = n1]
        /\ pc' = [pc EXCEPT ![w] = IF left = <<>> THEN "call" ELSE "list"]
    BY <1>1, <1>2, <1>10 DEF Advance, n1
  <2>2. script'[w] = n1 /\ pc'[w] = IF left = <<>> THEN "call" ELSE "list"
    BY <1>0, <2>1
  <2>3. n1 # NoScript
    BY <1>0, <1>7
  <2>4. /\ n1.call = s.call /\ n1.left \in Seq(Carried(s))
        /\ s \in plan'.scripts /\ n1 \in ScriptsOf(plan)'
    BY <1>0, <1>3, <1>5, <1>7
  <2>5. pc'[w] = "call" => n1.left = <<>> /\ ~n1.dryRun
    BY <1>7, <1>10, <2>2
  <2>6. pc'[w] = "list" => n1.left # <<>>
    BY <1>7, <2>2
  <2>7. ScriptOK(w)'
    BY <1>8, <2>2, <2>3, <2>4, <2>5, <2>6 DEF ScriptOK
  <2> QED
    BY <2>2, <2>7 DEF CallOK, RemembersLatest, Checked
<1> QED
  BY <1>9, <1>10

LEMMA AbortKnows ==
  ASSUME IInv, NEW w \in Workers, NEW r, Abort(w, r)
  PROVE  CallOK(w)'
BY EndKnows DEF Abort, Finish, IInv, Control

LEMMA ComparerKnows ==
  ASSUME IInv, [Next]_vars, NEW w \in Workers, NEW table, Compare(w, table)
  PROVE  CallOK(w)'
<1>0. /\ pc[w] = "list" /\ pc \in [Workers -> Steps]
      /\ definitions' = definitions /\ plan' = plan
  BY DEF Compare, IInv, Control
<1>1. PICK d : d = Due(w)
  OBVIOUS
<1>2. d.version \in Nat /\ Registry
  BY <1>0, <1>1, DueIsCarried DEF IInv
<1>3. CASE OnRecord(d) /\ Advance(w)
  <2>1. Accounted(d)'
    BY <1>3, OnRecordStands, StandingStays DEF Accounted
  <2> QED
    BY <1>0, <1>1, <1>3, <2>1, AdvanceKnows
<1>4. CASE \E r : Abort(w, r)
  BY <1>4, AbortKnows
<1>5. CASE script[w].dryRun /\ Advance(w)
  BY <1>0, <1>1, <1>5, AdvanceKnows
<1>6. CASE /\ SameVersion(d) = {} /\ d.version = NextVersion(d)
           /\ ~script[w].dryRun /\ pc' = [pc EXCEPT ![w] = "insert"] /\ script' = script
  <2>1. Follows(d)
    BY <1>2, <1>6, StoredTypes, NextFollows DEF Registry
  <2>2. Follows(d)'
    BY <2>1, FollowsStays
  <2>3. d = Due(w)' /\ pc'[w] = "insert"
    BY <1>0, <1>1, <1>6 DEF Due
  <2>4. \A x : Accounted(x) => Accounted(x)'
    BY AccountedStays
  <2>5. ScriptOK(w)
    BY DEF IInv, CallOK
  <2>6. ScriptOK(w)'
    BY <1>0, <1>6, <2>2, <2>3, <2>4, <2>5 DEF ScriptOK
  <2> QED
    BY <2>3, <2>6 DEF CallOK, RemembersLatest, Checked
<1> QED
  BY <1>1, <1>3, <1>4, <1>5, <1>6 DEF Compare

\* A script whose version was inserted meanwhile goes on with its own.
LEMMA InserterKnows ==
  ASSUME IInv, [Next]_vars, NEW w \in Workers, NEW table, Insert(w, table)
  PROVE  CallOK(w)'
<1>0. pc[w] = "insert"
  BY DEF Insert
<1>1. PICK d : d = Due(w)
  OBVIOUS
<1>2. CASE Advance(w) /\ Diverge(d)
  <2>1. Accounted(d)'
    BY <1>2, GoingOnAccounts
  <2> QED
    BY <1>0, <1>1, <1>2, <2>1, AdvanceKnows
<1>3. CASE Abort(w, "INTEGRITY")
  BY <1>3, AbortKnows
<1>4. CASE SameVersion(d) = {} /\ Advance(w) /\ definitions' = definitions \cup {d}
  <2>1. Stored(d.table, Id(d))' = {d}
    BY <1>4, SameVersionIsStored DEF Stored
  <2>2. Accounted(d)'
    BY <2>1 DEF Accounted, Standing, SameContent
  <2> QED
    BY <1>0, <1>1, <1>4, <2>2, AdvanceKnows
<1> QED
  BY <1>1, <1>2, <1>3, <1>4 DEF Insert

LEMMA MoverKnows ==
  ASSUME IInv, [Next]_vars, NEW w \in Workers, Move(w)
  PROVE  CallOK(w)'
<1>0. DOMAIN script = Workers /\ pc \in [Workers -> Steps]
  BY DEF IInv, Control
<1>1. CASE StartScript(w)
  BY <1>1, StarterKnows
<1>2. ASSUME NEW table, Register(w, table) PROVE CallOK(w)'
  BY <1>2, ComparerKnows, InserterKnows DEF Register
<1>3. CASE Ask(w)
  <2>1. PICK q \in plan.calls : Call(w, q) /\ Diverge(Brought(q))
    BY <1>3 DEF Ask
  <2>2. script'[w] = NoScript
    BY <1>3 DEF Ask, IInv, CallOK, ScriptOK
  <2>3. PICK d : d = Brought(q)
    OBVIOUS
  <2>4. [Next]_vars /\ Diverge(d)
    BY <2>1, <2>3
  <2>5. q \in Asked(plan) /\ Accounted(d)'
    BY <2>4, GoingOnAccounts DEF Asked
  <2> QED
    BY <2>1, <2>2, <2>3, <2>5, CallerKnows
<1>4. CASE Score(w)
  <2>1. PICK q \in script[w].call : Call(w, q)
    BY <1>4 DEF Score
  <2>2. script'[w] = NoScript /\ pc[w] = "call"
    BY <1>0, <1>4 DEF Score
  <2>3. PICK d : d = Brought(q)
    OBVIOUS
  <2>4. q \in Asked(plan) /\ Accounted(d)'
    BY <2>1, <2>2, <2>3, ScriptsAreAccounted, AccountedStays
  <2> QED
    BY <2>1, <2>2, <2>3, <2>4, CallerKnows
<1>5. CASE Record(w)
  <2>1. script' = script
    BY <1>5 DEF Record, definitionVars
  <2>2. CASE AddEvaluation(w) \/ AddSnapshot(w)
    <3>1. pc[w] = "add" /\ pc'[w] = "idle"
      BY <1>0, <2>2 DEF AddEvaluation, AddSnapshot, Add, Finish
    <3>2. script[w] = NoScript
      BY <3>1 DEF IInv, CallOK, ScriptOK
    <3> QED
      BY <2>1, <3>1, <3>2, EndKnows
  <2> QED
    BY <1>5, <2>1, <2>2, ReaderKnows, HistorianKnows DEF Record
<1>6. CASE RefuseToAdd(w)
  <2>1. pc[w] = "add" /\ pc'[w] = "idle" /\ script' = script
    BY <1>0, <1>6 DEF RefuseToAdd, Unreferenced, Finish, definitionVars
  <2>2. script[w] = NoScript
    BY <2>1 DEF IInv, CallOK, ScriptOK
  <2> QED
    BY <2>1, <2>2, EndKnows
<1> QED
  BY <1>1, <1>2, <1>3, <1>4, <1>5, <1>6 DEF Move

LEMMA CallsStep == IInv /\ [Next]_vars => \A u \in Workers : CallOK(u)'
<1> SUFFICES ASSUME IInv, [Next]_vars, NEW u \in Workers PROVE CallOK(u)'
  OBVIOUS
<1>1. CASE UNCHANGED vars \/ Capture
  BY <1>1, CaptureTouchesNoCall, OthersKnow DEF vars, scoringVars, definitionVars
<1>2. ASSUME NEW w \in Workers, Move(w) PROVE CallOK(u)'
  <2>1. CASE u = w
    BY <1>2, <2>1, MoverKnows
  <2>2. CASE u # w
    BY <1>2, <2>2, OnlyOneMoves, OthersKnow DEF Touches
  <2> QED
    BY <2>1, <2>2
<1> QED
  BY <1>1, <1>2, OneMoves

-----------------------------------------------------------------------------
(* The results.                                                            *)

LEMMA InitEstablishes == Init => IInv
<1> SUFFICES ASSUME Init PROVE IInv
  OBVIOUS
<1>1. /\ outcomes = {} /\ evaluations = {} /\ snapshots = {}
      /\ plan \in Plans /\ definitions = plan.stored
      /\ \A w \in Workers : pc[w] = "idle" /\ script[w] = NoScript
  BY DEF Init, ScoringInit
<1>2. Control
  BY ScoringAssumption DEF Init, ScoringInit, Control, Steps, Ends
<1>3. Ledgers
  BY <1>1, FS_EmptySet DEF Ledgers, Numbered, Ordered
<1>4. Registry
  <2>1. ASSUME NEW d \in definitions PROVE Follows(d)
    BY <1>1, <2>1, PlansAssumption DEF Follows, Versions
  <2>2. \A d, x \in definitions : x.table = d.table /\ Id(x) = Id(d) => x = d
    BY <1>1, PlansAssumption
  <2> QED
    BY <1>1, <2>1, <2>2, DefinitionsAssumption DEF Registry
<1>5. Recorded
  BY <1>1 DEF Recorded
<1>6. \A w \in Workers : CallOK(w)
  BY <1>1 DEF CallOK, RemembersLatest, Checked, ScriptOK
<1> QED
  BY <1>2, <1>3, <1>4, <1>5, <1>6 DEF IInv

LEMMA InvariantHolds == Spec => []IInv
<1>1. IInv /\ [Next]_vars => IInv'
  BY ControlStep, LedgersStep, RegistryStep, RecordedStep, CallsStep DEF IInv
<1> QED
  BY InitEstablishes, <1>1, PTL DEF Spec

\* What an evaluation answers is what its basis names.
LEMMA BasisNames ==
  ASSUME IInv, NEW e, NEW q \in Asked(plan), NEW o \in outcomes, Answers(e, q, o)
  PROVE  ForecastOf(e) = q.forecast /\ OutcomeOf(e) = o
<1>1. q.forecast \in Forecasts
  BY AskedAreCalls DEF IsCall, IsEvaluationCall, Answers
<1>2. ForecastOf(e) = q.forecast
  <2>1. \A f \in Forecasts : f.claim = e.basis.claim /\ f.revision = e.basis.claimRevision
                               <=> f = q.forecast
    BY <1>1, ScoringAssumption DEF Answers
  <2> QED
    BY <1>1, <2>1 DEF ForecastOf
<1>3. OutcomeOf(e) = o
  <2>1. \A x \in outcomes : x.key = e.basis.outcome /\ x.revision = e.basis.outcomeRevision
                              <=> x = o
    BY DEF Answers, IInv, Ledgers, Numbered
  <2> QED
    BY <2>1 DEF OutcomeOf
<1> QED
  BY <1>2, <1>3

LEMMA EvaluationsAnswer ==
  ASSUME IInv, NEW e \in evaluations
  PROVE  \E q \in Asked(plan) :
            /\ Accounted(Brought(q)) /\ Answers(e, q, OutcomeOf(e))
            /\ ForecastOf(e) = q.forecast
<1>1. PICK q \in Asked(plan) : Accounted(Brought(q)) /\ \E o \in outcomes : Answers(e, q, o)
  BY DEF IInv, Recorded, EvaluationOK
<1> QED
  BY <1>1, BasisNames

\* Definitions of the same content have the same fields but for the availability.
LEMMA SameFields ==
  ASSUME NEW x, NEW d, SameContent(x, d), NEW f \in DOMAIN d, f # "availability"
  PROVE  x[f] = d[f]
<1> DEFINE y == [x EXCEPT !.availability = 0]
           z == [d EXCEPT !.availability = 0]
<1>1. y = z /\ DOMAIN y = DOMAIN x /\ DOMAIN z = DOMAIN d
  BY DEF SameContent
<1>2. f \in DOMAIN x
  BY <1>1
<1>3. y[f] = x[f] /\ z[f] = d[f]
  BY <1>2
<1> QED
  BY <1>1, <1>3

\* Type correctness: revisions of a key are numbered from zero without gap and in
\* time order in both tables (evaluate_structured_forecast.py:322-339,
\* record_forecast_performance_snapshot.py:322-353).
THEOREM TypeCorrect == Spec => []TypeOK
<1>1. ASSUME IInv PROVE TypeOK
  <2>1. /\ outcomes \subseteq OutcomeReports
        /\ pc \in [Workers -> Steps] /\ outcome \in [Workers -> Ends] /\ made \in 0..MaxCalls
    BY <1>1 DEF IInv, Control, Ledgers
  <2>2. \A w \in Workers : pc[w] \in {"latest", "history", "add"}
                             => candidate[w].table \in {"evaluations", "snapshots"}
    BY <1>1 DEF IInv, CallOK, CandidateOK
  <2>3. ASSUME NEW table \in {evaluations, snapshots}, NEW v \in table
        PROVE  /\ v.revision \in 0..(Cardinality({x \in table : x.key = v.key}) - 1)
               /\ \A x \in table : /\ x.key = v.key /\ x.revision < v.revision
                                   => x.availability <= v.availability
    <3>1. Numbered(table) /\ Ordered(table)
      BY <1>1 DEF IInv, Ledgers
    <3>2. Cardinality({x \in table : x.key = v.key}) \in Nat
      BY <3>1, FS_Subset, FS_CardinalityType DEF Numbered
    <3>3. v.revision \in Nat /\ v.revision < Cardinality({x \in table : x.key = v.key})
      BY <3>1 DEF Numbered
    <3>4. v.revision \in 0..(Cardinality({x \in table : x.key = v.key}) - 1)
      BY <3>2, <3>3
    <3>5. \A x \in table : /\ x.key = v.key /\ x.revision < v.revision
                           => x.availability <= v.availability
      BY <3>1 DEF Ordered
    <3> QED
      BY <3>4, <3>5
  <2> QED
    BY <2>1, <2>2, <2>3 DEF TypeOK
<1> QED
  BY <1>1, InvariantHolds, PTL

\* One basis is never stored with two payloads, although a call reads the history
\* some time before it writes: whatever was added meanwhile took the revision the
\* call would have taken (record_forecast_performance_snapshot.py:375-382).
THEOREM OnePayloadPerBasis == Spec => []BasisIsDeterministic
<1>1. IInv => BasisIsDeterministic
  BY DEF IInv, Ledgers, Ordered, BasisIsDeterministic
<1> QED
  BY <1>1, InvariantHolds, PTL

\* A production snapshot rests on production evidence only, whatever order the
\* three ledgers grew in (assess_forecast_evaluation_admissibility.py:13-17).
THEOREM ProductionRests == Spec => []ProductionFromProduction
<1>1. ASSUME IInv, NEW s \in snapshots, s.basis.mode = "production",
             NEW e \in evaluations, Member(e) \in s.facts.members
      PROVE  /\ e.basis.mode = "production"
             /\ ForecastOf(e).mode = "production" /\ OutcomeOf(e).mode = "production"
  <2>1. e.basis.mode = s.basis.mode
    BY <1>1 DEF IInv, Recorded, SnapshotOK, Admits1, Counted
  <2>2. PICK q \in Asked(plan) : Answers(e, q, OutcomeOf(e)) /\ ForecastOf(e) = q.forecast
    BY <1>1, EvaluationsAnswer
  <2> QED
    BY <1>1, <2>1, <2>2 DEF Answers
<1>2. IInv => ProductionFromProduction
  BY <1>1 DEF ProductionFromProduction
<1> QED
  BY <1>2, InvariantHolds, PTL

\* Nothing claims to have been known before what it rests on: neither a snapshot
\* before its cutoff and its members, nor an evaluation before its forecast, its
\* outcome and their reviews (record_forecast_performance_snapshot.py:322-353).
THEOREM NothingForeseen == Spec => []NoHindsight
<1>1. ASSUME IInv, NEW e \in evaluations
      PROVE  \A t \in {ForecastOf(e).availability, OutcomeOf(e).availability,
                       OutcomeOf(e).reviewed, e.facts.review} : t <= e.availability
  <2>1. PICK q \in Asked(plan) : Answers(e, q, OutcomeOf(e)) /\ ForecastOf(e) = q.forecast
    BY <1>1, EvaluationsAnswer
  <2> QED
    BY <2>1 DEF Answers
<1>2. ASSUME IInv, NEW s \in snapshots
      PROVE  /\ s.basis.cutoff <= s.availability
             /\ \A e \in evaluations : Member(e) \in s.facts.members
                                         => e.availability <= s.basis.cutoff
  BY <1>2 DEF IInv, Recorded, SnapshotOK, CountsOnce, Admits1, Counted
<1>3. IInv => NoHindsight
  BY <1>1, <1>2 DEF NoHindsight
<1> QED
  BY <1>3, InvariantHolds, PTL

\* Every event counts once, by the forecast issued first, also when evaluations go
\* on being added after the snapshot was taken (_resolve_duplicates).
THEOREM EarliestCounts == Spec => []EarliestIssueCounts
<1>1. ASSUME IInv, NEW s \in snapshots
      PROVE  /\ \A e, x \in Counted(s) : e.basis.outcome = x.basis.outcome => e = x
             /\ \A x \in s.facts.exclusions :
                   /\ x.key \notin {e.key : e \in Counted(s)}
                   /\ x.reason = "SUPERSEDED_BY_EARLIER_QUALIFYING_ISSUE" => Superseded(x, s)
  BY <1>1 DEF IInv, Recorded, SnapshotOK, CountsOnce
<1>2. IInv => EarliestIssueCounts
  BY <1>1 DEF EarliestIssueCounts, Counted, Superseded
<1> QED
  BY <1>2, InvariantHolds, PTL

\* An evaluation is explained by what its protocol's name may stand for.
LEMMA EvaluationsPinned ==
  ASSUME IInv, NEW e \in evaluations
  PROVE  /\ OutcomeOf(e).definition = e.basis.definition
         /\ \E p \in Meant("protocols", e.basis.protocol) : Pins(p, e)
<1>1. PICK q \in Asked(plan) : /\ Accounted(Brought(q)) /\ Answers(e, q, OutcomeOf(e))
                               /\ ForecastOf(e) = q.forecast
  BY EvaluationsAnswer
<1> DEFINE d == q.protocol
<1>2. /\ d.table = "protocols" /\ {"target", "definition", "policy", "fixed"} \subseteq DOMAIN d
      /\ Brought(q) = d /\ e.basis.protocol = Id(d)
  BY <1>1, AskedAreCalls DEF IsCall, IsEvaluationCall, Answers, Brought
<1>3. OutcomeOf(e).definition = e.basis.definition
  BY <1>1 DEF Answers
<1>4. CASE d \in divergent
  <2>1. d \in Meant("protocols", e.basis.protocol)
    BY <1>2, <1>4 DEF Meant
  <2>2. Pins(d, e)
    BY <1>1 DEF Pins, Answers
  <2> QED
    BY <1>3, <2>1, <2>2
<1>5. CASE Standing(d)
  <2>1. PICK p : p \in Stored("protocols", e.basis.protocol) /\ SameContent(p, d)
    BY <1>2, <1>5 DEF Standing
  <2>2. p.target = d.target /\ p.definition = d.definition /\ p.policy = d.policy /\ p.fixed = d.fixed
    BY <1>2, <2>1, SameFields
  <2>3. Pins(p, e)
    BY <1>1, <2>2 DEF Pins, Answers
  <2> QED
    BY <1>3, <2>1, <2>3 DEF Stored, Meant
<1> QED
  BY <1>1, <1>2, <1>4, <1>5 DEF Accounted

\* Whether an evaluation is in a cohort is decided by what the cohort says.
LEMMA SnapshotsAdmitted ==
  ASSUME IInv, NEW s \in snapshots
  PROVE  \E c \in Meant("cohorts", s.basis.cohort) :
            /\ s.basis.mode = c.mode
            /\ \A e \in evaluations : Member(e) \in s.facts.members =>
                  e.basis.mode = c.mode /\ Exclusion(e, c) = "NONE"
<1>1. PICK q \in Asked(plan) :
         q.table = "snapshots" /\ Accounted(Brought(q)) /\ Admits1(s, Brought(q))
  BY DEF IInv, Recorded, SnapshotOK
<1> DEFINE d == q.cohort
<1>2. /\ d.table = "cohorts" /\ Brought(q) = d /\ s.basis.cohort = Id(d)
      /\ {"protocol", "mode", "duplicates", "target", "originator", "opens", "closes"}
            \subseteq DOMAIN d
  BY <1>1, AskedAreCalls DEF IsCall, IsSnapshotCall, Brought, Admits1
<1>3. CASE d \in divergent
  <2>1. d \in Meant("cohorts", s.basis.cohort)
    BY <1>2, <1>3 DEF Meant
  <2> QED
    BY <1>1, <1>2, <2>1 DEF Admits1, Counted
<1>4. CASE Standing(d)
  <2>1. PICK c : c \in Stored("cohorts", s.basis.cohort) /\ SameContent(c, d)
    BY <1>2, <1>4 DEF Standing
  <2>2. /\ c.protocol = d.protocol /\ c.mode = d.mode /\ c.duplicates = d.duplicates
        /\ c.target = d.target /\ c.originator = d.originator
        /\ c.opens = d.opens /\ c.closes = d.closes
    BY <1>2, <2>1, SameFields
  <2>3. \A e : Exclusion(e, c) = Exclusion(e, d)
    BY <2>2 DEF Exclusion
  <2>4. c \in Meant("cohorts", s.basis.cohort)
    BY <2>1 DEF Stored, Meant
  <2> QED
    BY <1>1, <1>2, <2>2, <2>3, <2>4 DEF Admits1, Counted
<1> QED
  BY <1>1, <1>2, <1>3, <1>4 DEF Accounted

\* Every score is explained by the definitions on record, except one whose caller
\* went on with another under the same name: a script that lost the registration of
\* a version to one that says otherwise, and was told UNCHANGED
\* (record_forecast_evaluation_protocol.py:114-117), or a caller of the library with
\* an object of its own.  Scripts of any releases race, and nothing is assumed of
\* what callers bring.
THEOREM ScoresExplained == Spec => []ScoresAreOnRecord
<1>1. ASSUME IInv PROVE ScoresAreOnRecord
  <2>1. \A d \in definitions : d.version > 0 => \E x \in Versions(d) : x.version = d.version - 1
    BY <1>1 DEF IInv, Registry, Follows
  <2>2. /\ \A e \in evaluations : /\ Stored("protocols", e.basis.protocol) # {}
                                  /\ Stored("definitions", e.basis.definition) # {}
        /\ \A s \in snapshots : Stored("cohorts", s.basis.cohort) # {}
    BY <1>1 DEF IInv, Recorded, Named
  <2> QED
    BY <1>1, <2>1, <2>2, EvaluationsPinned, SnapshotsAdmitted DEF ScoresAreOnRecord
<1> QED
  BY <1>1, InvariantHolds, PTL
=============================================================================

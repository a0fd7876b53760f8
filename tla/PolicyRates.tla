----------------------------- MODULE PolicyRates -----------------------------
(***************************************************************************)
(* The life of the stored policy-rate histories:                           *)
(*   BackfillPolicyRateHistory      fetches every era of a currency and    *)
(*                                  records its change points, with the    *)
(*                                  change's date as provisional timing;   *)
(*   VerifyPolicyRateReleaseTiming  replaces provisional timing by what    *)
(*                                  the registry in its code resolves;     *)
(*   RemediateReleaseTiming         corrects exact timing the registry now *)
(*                                  resolves differently;                  *)
(*   ComputePolicyRateDifferential  reads two histories.                   *)
(* They are scripts an operator runs, possibly at the same time and from   *)
(* different versions of the code; each write is a transaction of its own. *)
(***************************************************************************)
EXTENDS PolicyRateState, Sequences

CONSTANTS
    Currencies,
    Eras,           \* per currency: its definitions, in order of validity
    Publications,   \* per raw series: the data its provider may return
    Registries,     \* per code version, currency and period: a resolution, or none
    AnnouncedAt,    \* when each decision became public, which the registries seek
    Periods,        \* the dates decisions are stored under
    OneDay,
    FetchedTo,      \* the instants backfills ask for
    Pairs, ResearchedAt,  \* the currencies and instants research asks for
    Workers, MaxRuns,
    NoJob

VARIABLES
    history,       \* per currency: the stored vintages
    pc, job,       \* per worker: the await its run is at, and the run
    todo,          \* the writes it has still to make
    held,          \* the base history it has read
    outcome,       \* how its last run ended
    made,          \* runs started
    deployed,      \* the code version runs are started from
    acknowledged,  \* change points reported as inserted or already present
    warrant,       \* the code version that last classified a decision's timing
    answer         \* the last research result, and what a feature was computed from

vars == <<history, pc, job, todo, held, outcome, made, deployed, acknowledged, warrant, answer>>

Versions == DOMAIN Registries

ASSUME RatesAssumption ==
    /\ MaxRuns \in Nat /\ OneDay \in Nat
    /\ {ThreeMonths, SixMonths, AxisSafetyMargin} \subseteq Nat /\ ThreeMonths <= SixMonths
    /\ 1 \in Versions /\ Versions \subseteq Nat \ {0}
    /\ Periods \subseteq Int /\ ResearchedAt \subseteq Int
    /\ Pairs \subseteq Currencies \X Currencies
    /\ \A c \in Currencies : Len(Eras[c]) \in Nat \ {0}

\* The resolutions any version has for a decision.
Resolutions(c, p) == UNION {Registries[v][c][p] : v \in Versions}

SameTiming(x, y) == x.released = y.released /\ x.effective = y.effective

\* No version resolves a decision to an instant before it was public, nor to one
\* the padding of the readiness window does not reach.
Truthful ==
    \A c \in Currencies, p \in Periods : \A x \in Resolutions(c, p) :
       AnnouncedAt[c][p] <= x.released /\ x.released <= p + AxisSafetyMargin

\* Exact timing that a version corrects does not come back in a later one.
NeverReverts ==
    \A c \in Currencies, p \in Periods, t, u, v \in Versions : t <= u /\ u <= v =>
       \A x \in Registries[t][c][p], y \in Registries[u][c][p], z \in Registries[v][c][p] :
          x.exact /\ y.exact /\ z.exact /\ SameTiming(x, z) => SameTiming(x, y)

ASSUME TimingAssumption ==
    /\ \A c \in Currencies, p \in Periods :
          /\ AnnouncedAt[c][p] \in Int
          /\ \A x \in Resolutions(c, p) : /\ x.exact \in BOOLEAN /\ x.released \in Int
                                         /\ x.effective \subseteq Int
    /\ Truthful /\ NeverReverts

Steps == {"idle", "fetch", "add", "replace", "correct", "base", "quote"}
Ends == {"NONE", "DONE", "INVERTED_RANGE", "ALREADY_CLASSIFIED", "STALE_CORRECTION"}

Init ==
    /\ history = [c \in Currencies |-> {}]
    /\ pc = [w \in Workers |-> "idle"]
    /\ job = [w \in Workers |-> NoJob]
    /\ todo = [w \in Workers |-> {}]
    /\ held = [w \in Workers |-> {}]
    /\ outcome = [w \in Workers |-> "NONE"]
    /\ made = 0
    /\ deployed = 1
    /\ acknowledged = {}
    /\ warrant = [c \in Currencies |-> [p \in Periods |-> 0]]
    /\ answer = [kind |-> "NONE"]

-----------------------------------------------------------------------------
\* A run begins with its first await; one with nothing to do there is over.
Start(w, step, run, writes) ==
    /\ pc[w] = "idle" /\ made < MaxRuns
    /\ made' = made + 1
    /\ deployed' = run.version
    /\ IF step = "over" THEN /\ outcome' = [outcome EXCEPT ![w] = "DONE"]
                            /\ UNCHANGED <<pc, job, todo>>
       ELSE /\ outcome' = [outcome EXCEPT ![w] = "NONE"]
            /\ pc' = [pc EXCEPT ![w] = step]
            /\ job' = [job EXCEPT ![w] = run]
            /\ todo' = [todo EXCEPT ![w] = writes]
    /\ UNCHANGED <<history, held, acknowledged, warrant, answer>>

End(w, r) ==
    /\ pc' = [pc EXCEPT ![w] = "idle"]
    /\ job' = [job EXCEPT ![w] = NoJob]
    /\ todo' = [todo EXCEPT ![w] = {}]
    /\ held' = [held EXCEPT ![w] = {}]
    /\ outcome' = [outcome EXCEPT ![w] = r]

\* The writes of a run are made in order of their periods.
Earliest(items) == {i \in items : \A x \in items : i.period <= x.period}

-----------------------------------------------------------------------------
(* BackfillPolicyRateHistory.                                              *)

\* _fetch_end: the day before the next era's first, or the instant asked for.
FetchEnd(era, t) == Min({t} \cup {v - OneDay : v \in {u \in era.to : u <= t}})

\* What a provider returns of a publication within an era.
Fetched(era, data, t) == {o \in data : era.from <= o.date /\ o.date <= FetchEnd(era, t)}

\* ConflictingRawObservationError
Contradicts(data) == \E o, p \in data : o.date = p.date /\ o.value # p.value

\* Dates every raw series of the era has a value for; the others are skipped.
Complete(raw) == {d \in UNION {{o.date : o \in raw[n]} : n \in DOMAIN raw} :
                    \A n \in DOMAIN raw : \E o \in raw[n] : o.date = d}

ValueOn(data, d) == (CHOOSE o \in data : o.date = d).value

\* A target range upside down, which the transformation refuses.
Inverted(era, raw) ==
    /\ era.transformation = "TARGET_RANGE_MIDPOINT"
    /\ \E d \in Complete(raw) : ValueOn(raw[1], d) < ValueOn(raw[2], d)

\* RateTransformation.apply, in units a midpoint is a whole number of.
Canonical(era, raw, d) ==
    IF era.transformation = "IDENTITY" THEN ValueOn(raw[1], d)
    ELSE (ValueOn(raw[1], d) + ValueOn(raw[2], d)) \div 2

\* extract_change_points: the complete dates whose value is not that of the
\* complete date before.
Changes(era, raw) ==
    {[period |-> d, value |-> Canonical(era, raw, d)] :
       d \in {x \in Complete(raw) :
                LET earlier == {y \in Complete(raw) : y < x}
                IN earlier = {} \/ Canonical(era, raw, x) # Canonical(era, raw, Max(earlier))}}

\* Providers return numbers, dated by days decisions are stored under; a range is
\* two series.
ASSUME PublicationsAssumption ==
    \A c \in Currencies : \A k \in 1..Len(Eras[c]) :
       LET era == Eras[c][k]
       IN /\ era.transformation \in {"IDENTITY", "TARGET_RANGE_MIDPOINT"}
          /\ DOMAIN era.series = IF era.transformation = "IDENTITY" THEN 1..1 ELSE 1..2
          /\ \A n \in DOMAIN era.series, t \in FetchedTo :
                \A data \in Publications[era.series[n]] :
                   \A o \in Fetched(era, data, t) : o.date \in Periods /\ o.value \in Int

StartBackfill(w) ==
    \E c \in Currencies, t \in FetchedTo :
       Start(w, "fetch", [version |-> deployed, currency |-> c, as_of |-> t, era |-> 1], {})

EraOf(w) == Eras[job[w].currency][job[w].era]

\* The era's writes are done, or there is nothing to write.
NextEra(w) ==
    IF job[w].era = Len(Eras[job[w].currency]) THEN End(w, "DONE")
    ELSE /\ pc' = [pc EXCEPT ![w] = "fetch"]
         /\ job' = [job EXCEPT ![w].era = @ + 1]
         /\ todo' = [todo EXCEPT ![w] = {}]
         /\ UNCHANGED <<held, outcome>>

\* One era: not begun, no provider configured, unavailable, at odds with
\* itself, or fetched and reduced to its change points.
FetchEra(w) ==
    /\ pc[w] = "fetch"
    /\ LET era == EraOf(w)
       IN \/ NextEra(w)
          \/ /\ era.from <= job[w].as_of
             /\ \E raw \in [DOMAIN era.series -> UNION {Publications[era.series[n]] : n \in DOMAIN era.series}] :
                  LET got == [n \in DOMAIN raw |-> Fetched(era, raw[n], job[w].as_of)]
                  IN /\ \A n \in DOMAIN raw : raw[n] \in Publications[era.series[n]]
                     /\ ~\E n \in DOMAIN raw : Contradicts(got[n])
                     /\ \/ Inverted(era, got) /\ End(w, "INVERTED_RANGE")
                        \/ /\ ~Inverted(era, got) /\ Changes(era, got) # {}
                           /\ pc' = [pc EXCEPT ![w] = "add"]
                           /\ todo' = [todo EXCEPT ![w] = Changes(era, got)]
                           /\ UNCHANGED <<job, held, outcome>>
    /\ UNCHANGED <<history, made, deployed, acknowledged, warrant, answer>>

At(c, p, n) == {r \in history[c] : r.period = p /\ r.revision = n}

\* Mutant: a row under the same identity is taken for the same vintage.
SameIdentity(r, x) == r.period = x.period /\ r.revision = x.revision

\* The equality that makes a repeated write "already present".
SamePayload(r, x) == r = x

\* add_vintage of the era's next change point: inserted, already present, or a
\* conflict, which the report collects.
AddVintage(w) ==
    /\ pc[w] = "add"
    /\ \E i \in Earliest(todo[w]) :
         LET c == job[w].currency
             row == [period |-> i.period, revision |-> 0, value |-> i.value,
                     released |-> i.period, effective |-> {}, verified |-> FALSE, bound |-> FALSE]
             there == At(c, i.period, 0)
         IN /\ history' = IF there = {} THEN [history EXCEPT ![c] = @ \cup {row}] ELSE history
            /\ acknowledged' =
                 IF \A x \in there : SamePayload(x, row)
                 THEN acknowledged \cup {[currency |-> c, period |-> i.period, value |-> i.value]}
                 ELSE acknowledged
            /\ IF todo[w] = {i} THEN NextEra(w)
               ELSE todo' = [todo EXCEPT ![w] = @ \ {i}] /\ UNCHANGED <<pc, job, held, outcome>>
    /\ UNCHANGED <<made, deployed, warrant, answer>>

-----------------------------------------------------------------------------
(* VerifyPolicyRateReleaseTiming and RemediateReleaseTiming.               *)

\* resolve_release_timing of every vintage of a currency that a version resolves.
Resolved(c, v) ==
    UNION {{[period |-> r.period, read |-> r, resolution |-> x] : x \in Registries[v][c][r.period]} :
             r \in history[c]}

\* Classified vintages are reported, as agreeing or conflicting, and left alone.
ToReplace(c, v) == {u \in Resolved(c, v) : ~Safe(u.read)}

\* Vintages with exact timing that is not the registry's exact timing.
ToCorrect(c, v) ==
    {u \in Resolved(c, v) : /\ u.resolution.exact /\ u.read.verified
                            /\ \/ u.read.released # u.resolution.released
                               \/ u.read.effective # u.resolution.effective}

\* Runs begin in the order their versions are deployed, and go on after.
Deployable == {v \in Versions : v >= deployed}

\* The first await is list_all_for_series: what is written of a vintage is
\* decided by the row as read here.
StartVerification(w) ==
    \E c \in Currencies, v \in Deployable :
       Start(w, IF ToReplace(c, v) = {} THEN "over" ELSE "replace",
             [version |-> v, currency |-> c], ToReplace(c, v))

StartRemediation(w) ==
    \E c \in Currencies, v \in Deployable :
       Start(w, IF ToCorrect(c, v) = {} THEN "over" ELSE "correct",
             [version |-> v, currency |-> c], ToCorrect(c, v))

\* An UPDATE of one row, and the run's next write.
Rewrite(w, u, old, new) ==
    LET c == job[w].currency
        left == todo[w] \ {u}
    IN /\ history' = [history EXCEPT ![c] = (@ \ {old}) \cup {new}]
       /\ warrant' = [warrant EXCEPT ![c][u.period] = job[w].version]
       /\ IF left = {} THEN End(w, "DONE")
          ELSE todo' = [todo EXCEPT ![w] = left] /\ UNCHANGED <<pc, job, held, outcome>>

\* The update matches no row: the run ends with an error.
Refuse(w, error) ==
    /\ End(w, error)
    /\ UNCHANGED <<history, warrant>>

\* replace_provisional_release_timing, of a row that is still provisional.
ReplaceTiming(w) ==
    /\ pc[w] = "replace"
    /\ \E u \in Earliest(todo[w]) : \E old \in At(job[w].currency, u.period, u.read.revision) :
         LET x == u.resolution
         IN \/ /\ ~Safe(old)
               /\ Rewrite(w, u, old, [old EXCEPT !.released = x.released, !.effective = x.effective,
                                                !.verified = x.exact, !.bound = ~x.exact])
            \/ Safe(old) /\ Refuse(w, "ALREADY_CLASSIFIED")
    /\ UNCHANGED <<made, deployed, acknowledged, answer>>

\* Mutant: whatever exact timing there is by now is corrected.
AnyExactTiming(old, read) == old.verified

\* The predicate of the conditional update: the row still has the timing read.
AsRead(old, read) ==
    old.verified /\ old.released = read.released /\ old.effective = read.effective

\* correct_verified_release_timing
CorrectTiming(w) ==
    /\ pc[w] = "correct"
    /\ \E u \in Earliest(todo[w]) : \E old \in At(job[w].currency, u.period, u.read.revision) :
         LET x == u.resolution
         IN \/ /\ AsRead(old, u.read)
               /\ Rewrite(w, u, old, [old EXCEPT !.released = x.released, !.effective = x.effective])
            \/ ~AsRead(old, u.read) /\ Refuse(w, "STALE_CORRECTION")
    /\ UNCHANGED <<made, deployed, acknowledged, answer>>

-----------------------------------------------------------------------------
(* ComputePolicyRateDifferential.                                          *)

StartResearch(w) ==
    \E pair \in Pairs, t \in ResearchedAt, s \in {"ANNOUNCED", "EFFECTIVE"} :
       Start(w, "base", [version |-> deployed, base |-> pair[1], quote |-> pair[2],
                         as_of |-> t, semantics |-> s], {})

ReadBase(w) ==
    /\ pc[w] = "base"
    /\ held' = [held EXCEPT ![w] = history[job[w].base]]
    /\ pc' = [pc EXCEPT ![w] = "quote"]
    /\ UNCHANGED <<history, job, todo, outcome, made, deployed, acknowledged, warrant, answer>>

ReadQuote(w) ==
    /\ pc[w] = "quote"
    /\ LET j == job[w]
           quote == history[j.quote]
           result == Feature(j.semantics, held[w], quote, j.as_of)
       IN answer' = IF result.kind # "FEATURE" THEN result
                    ELSE [kind |-> "FEATURE", feature |-> result, asked |-> j,
                          base |-> held[w], quote |-> quote]
    /\ End(w, "DONE")
    /\ UNCHANGED <<history, made, deployed, acknowledged, warrant>>

Step(w) ==
    \/ StartBackfill(w) \/ FetchEra(w) \/ AddVintage(w)
    \/ StartVerification(w) \/ ReplaceTiming(w)
    \/ StartRemediation(w) \/ CorrectTiming(w)
    \/ StartResearch(w) \/ ReadBase(w) \/ ReadQuote(w)

Next == \E w \in Workers : Step(w)

Spec == Init /\ [][Next]_vars

-----------------------------------------------------------------------------
(* Properties.                                                             *)

\* MacroObservationVintage: timing is verified, an upper bound, or provisional.
Rows == [period : Periods, revision : {0}, value : Int, released : Int, effective : SUBSET Int,
         verified : BOOLEAN, bound : BOOLEAN]

\* A history has one vintage of a period.
TypeOK ==
    /\ history \in [Currencies -> SUBSET Rows]
    /\ \A c \in Currencies : \A r, x \in history[c] :
          ~(r.verified /\ r.bound) /\ (r.period = x.period => r = x)
    /\ pc \in [Workers -> Steps] /\ outcome \in [Workers -> Ends] /\ made \in 0..MaxRuns
    /\ deployed \in Versions /\ warrant \in [Currencies -> [Periods -> {0} \cup Versions]]

Certified == answer.kind = "FEATURE"

\* The two legs of the last answer: the currency, and the history it read.
Legs == {[currency |-> answer.asked.base, rows |-> answer.base],
         [currency |-> answer.asked.quote, rows |-> answer.quote]}

\* A differential returned as a feature was computed only from decisions that
\* were public at the instant each is used for: the states and previous states
\* at the instant asked for, and the states three and six months before it.
\* Readiness is judged on the dates decisions are stored under, the states are
\* chosen by when they are said to be released; the two meet only in the window
\* ComputePolicyRateDifferential pads for it.
NoLookAhead ==
    Certified =>
        LET t == answer.asked.as_of
            s == answer.asked.semantics
        IN \A leg \in Legs :
             /\ \A r \in Previous(s, leg.rows, t) : AnnouncedAt[leg.currency][r.period] <= t
             /\ \A u \in {t, t - ThreeMonths, t - SixMonths} :
                  \A r \in State(s, leg.rows, u) : AnnouncedAt[leg.currency][r.period] <= u

\* A feature on announced rates passes over a stored decision that was public
\* and newer than the one it uses only if that decision is classified, as
\* released later, or is stored under a date ahead both of the instant and of the
\* margin after the decision used: research_readiness examines no further.
NothingNewerUnexamined ==
    Certified /\ answer.asked.semantics = "ANNOUNCED" =>
        LET t == answer.asked.as_of
        IN \A leg \in Legs : \A c \in Announced(leg.rows, t) : \A r \in leg.rows :
             r.period > c.period /\ AnnouncedAt[leg.currency][r.period] <= t =>
                 \/ Safe(r) /\ r.released > t
                 \/ ~Safe(r) /\ r.period > t /\ r.period > c.period + AxisSafetyMargin

\* Timing classified by one version of the registry is never replaced by an
\* older one's, when a run of the older one read the history before and writes
\* after: the conditional updates of replace_provisional_release_timing and
\* correct_verified_release_timing refuse it.  (An older run that begins to read
\* after a newer one has would undo its work; Deployable excludes it.)
NewerEvidenceStands ==
    [][\A c \in Currencies, p \in Periods : warrant'[c][p] >= warrant[c][p]]_vars

\* What a backfill reported as inserted or already present is stored with that
\* value, whatever the provider publishes later: add_vintage answers for
\* the stored row, and no run changes a value.
AcknowledgedIsStored ==
    \A a \in acknowledged :
        \E r \in history[a.currency] : r.period = a.period /\ r.value = a.value
=============================================================================

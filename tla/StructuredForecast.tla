------------------------- MODULE StructuredForecast -------------------------
(***************************************************************************)
(* RecordStructuredForecast over SqlAlchemyStructuredForecastRepository:   *)
(* several callers record vintages of the same forecast claims, each in    *)
(* its own database session (READ COMMITTED).                              *)
(*                                                                         *)
(* The claim, its latest vintage and its whole history are three reads of  *)
(* their own; what was decided on them is written later, and the write     *)
(* only reports whether it inserted a row.                                 *)
(***************************************************************************)
EXTENDS Naturals

CONSTANTS Claims,       \* claim keys
          Forecasts,    \* what can be said of a claim, as records of a basis
                        \* (algorithm_version and evidence), a payload (the
                        \* forecast itself) and a provenance (its mode and
                        \* original publication)
          Production,   \* the provenances of mode PRODUCTION_OBSERVED
          Workers,      \* concurrent calls
          MaxTime,      \* bound on availability
          MaxCalls,     \* bound on the calls made
          NoRow, NoCandidate

Times == 0 .. MaxTime

\* eligible is the verdict of ValidateStructuredForecastCandidate.
Candidate == [claim : Claims, availability : Times, says : Forecasts,
              eligible : BOOLEAN, dry : BOOLEAN]

\* A row of structured_forecast_vintages.
Vintage == [claim : Claims, revision : Nat, availability : Times, says : Forecasts]

ASSUME ForecastAssumption ==
    /\ \A f \in Forecasts : DOMAIN f = {"basis", "payload", "provenance"}
    /\ MaxTime \in Nat
    /\ MaxCalls \in Nat
    /\ NoRow \notin Vintage
    /\ NoCandidate \notin Candidate

VARIABLES claims,     \* committed forecast_claims rows
          vintages,   \* committed structured_forecast_vintages rows
          pc,         \* per call: its next await
          candidate,  \* per call: what it was given
          latest,     \* per call: the latest vintage it read
          outcome,    \* per call: what the last one returned or raised
          made        \* calls made so far

vars == <<claims, vintages, pc, candidate, latest, outcome, made>>

Written  == {"CREATED", "REVISION_ADDED"}
Outcomes == Written \cup {"NONE", "UNCHANGED", "REJECTED", "DRY_RUN", "OUT_OF_ORDER",
                          "NONDETERMINISTIC", "INCONSISTENT_PROVENANCE", "FAILED"}
Steps    == {"idle", "claim", "latest", "history", "register", "first_vintage", "add"}

RowsOf(c) == {v \in vintages : v.claim = c}

\* Calls whose uncommitted transaction holds claim c.
Registering(c) == {w \in Workers : pc[w] = "first_vintage" /\ candidate[w].claim = c}

\* _select_latest: the last of some rows by (availability, revision_sequence).
LastOf(rows) ==
    {l \in rows : \A v \in rows :
        \/ v.availability < l.availability
        \/ v.availability = l.availability /\ v.revision <= l.revision}

\* latest_vintage_for_claim, of either provenance mode.
IsLatest(l, c) == l \in LastOf(RowsOf(c))

\* latest_production_observed_vintage_as_of: retrospective research is never an
\* answer to what was known in production.
ProductionAnswer(c, t) ==
    LastOf({v \in RowsOf(c) : v.says.provenance \in Production /\ v.availability <= t})

\* latest_vintage_as_of_for_research.
ResearchAnswer(c, t) == LastOf({v \in RowsOf(c) : v.availability <= t})

\* The vintage a candidate is recorded as.
Build(c, revision) ==
    [claim |-> c.claim, revision |-> revision,
     availability |-> c.availability, says |-> c.says]

\* Mutant: no ordering check.
NeverOutOfOrder(c, l) == FALSE

\* OutOfOrderStructuredForecastError.
OutOfOrder(c, l) == c.availability < l.availability

SameBasis(x, y)   == x.says.basis = y.says.basis
SamePayload(x, y) == x.says.payload = y.says.payload

\* Mutant: determinism is compared with the latest vintage only.
ContradictedByLatest(c, l) == SameBasis(l, c) /\ ~SamePayload(l, c)

\* Same basis, different content, anywhere in the history.
Contradicted(c, l) ==
    \E h \in RowsOf(c.claim) : SameBasis(h, c) /\ ~SamePayload(h, c)

\* Same basis and content under another provenance, anywhere in the history.
Reclassified(c) ==
    \E h \in RowsOf(c.claim) :
       SameBasis(h, c) /\ SamePayload(h, c) /\ h.says # c.says

\* An exact repeat of the latest vintage.
Repeats(c, l) == c.says = l.says

-----------------------------------------------------------------------------
Init ==
    /\ claims = {}
    /\ vintages = {}
    /\ pc = [w \in Workers |-> "idle"]
    /\ candidate = [w \in Workers |-> NoCandidate]
    /\ latest = [w \in Workers |-> NoRow]
    /\ outcome = [w \in Workers |-> "NONE"]
    /\ made = 0

Goto(w, step) == pc' = [pc EXCEPT ![w] = step]

\* The call returns or raises r; nothing of its session survives.
Finish(w, r) ==
    /\ Goto(w, "idle")
    /\ latest' = [latest EXCEPT ![w] = NoRow]
    /\ outcome' = [outcome EXCEPT ![w] = r]

\* The candidate is validated before anything is read.
Call(w, c) ==
    /\ pc[w] = "idle"
    /\ made < MaxCalls
    /\ made' = made + 1
    /\ candidate' = [candidate EXCEPT ![w] = c]
    /\ \/ ~c.eligible /\ Finish(w, "REJECTED")
       \/ /\ c.eligible
          /\ Goto(w, "claim")
          /\ outcome' = [outcome EXCEPT ![w] = "NONE"]
          /\ UNCHANGED latest
    /\ UNCHANGED <<claims, vintages>>

\* get_claim.  A dry run ends where the real call would write (it returns the
\* outcome the write would have had; here the two are told apart).
GetClaim(w) ==
    LET c == candidate[w] IN
    /\ pc[w] = "claim"
    /\ \/ /\ c.claim \in claims
          /\ Goto(w, "latest")
          /\ UNCHANGED <<latest, outcome>>
       \/ /\ c.claim \notin claims
          /\ ~c.dry
          /\ Goto(w, "register")
          /\ UNCHANGED <<latest, outcome>>
       \/ /\ c.claim \notin claims
          /\ c.dry
          /\ Finish(w, "DRY_RUN")
    /\ UNCHANGED <<claims, vintages, candidate, made>>

\* latest_vintage_for_claim; order is checked before determinism.
ReadLatest(w) ==
    /\ pc[w] = "latest"
    /\ \E l \in vintages :
       /\ IsLatest(l, candidate[w].claim)
       /\ \/ OutOfOrder(candidate[w], l) /\ Finish(w, "OUT_OF_ORDER")
          \/ /\ ~OutOfOrder(candidate[w], l)
             /\ latest' = [latest EXCEPT ![w] = l]
             /\ Goto(w, "history")
             /\ UNCHANGED outcome
    /\ UNCHANGED <<claims, vintages, candidate, made>>

\* list_vintages_for_claim: a row of the candidate's basis that says otherwise
\* is refused; then the candidate is compared with the latest vintage, read
\* before the history was.  A history may hold both kinds of offending row,
\* and whichever is listed first is the one reported.
ReadHistory(w) ==
    LET c == candidate[w]  l == latest[w] IN
    /\ pc[w] = "history"
    /\ \/ Contradicted(c, l) /\ Finish(w, "NONDETERMINISTIC")
       \/ Reclassified(c) /\ Finish(w, "INCONSISTENT_PROVENANCE")
       \/ /\ ~Contradicted(c, l) /\ ~Reclassified(c)
          /\ \/ Repeats(c, l) /\ Finish(w, "UNCHANGED")
             \/ ~Repeats(c, l) /\ c.dry /\ Finish(w, "DRY_RUN")
             \/ /\ ~Repeats(c, l) /\ ~c.dry
                /\ Goto(w, "add")
                /\ UNCHANGED <<latest, outcome>>
    /\ UNCHANGED <<claims, vintages, candidate, made>>

\* register_claim_with_first_vintage inserts the claim, waiting for any session
\* that holds it uncommitted; a claim already there means the race is lost.
InsertClaim(w) ==
    LET c == candidate[w] IN
    /\ pc[w] = "register"
    /\ Registering(c.claim) = {}
    /\ \/ /\ c.claim \in claims
          /\ Finish(w, "UNCHANGED")
       \/ /\ c.claim \notin claims
          /\ Goto(w, "first_vintage")
          /\ UNCHANGED <<latest, outcome>>
    /\ UNCHANGED <<claims, vintages, candidate, made>>

\* The first vintage is inserted and committed with the claim.
CommitClaim(w) ==
    LET c == candidate[w] IN
    /\ pc[w] = "first_vintage"
    /\ claims' = claims \cup {c.claim}
    /\ vintages' = vintages \cup {Build(c, 0)}
    /\ Finish(w, "CREATED")
    /\ UNCHANGED <<candidate, made>>

\* Mutant: the conflict clause misses, so the row is inserted in any case.
AddAnyway(w) ==
    /\ pc[w] = "add"
    /\ vintages' = vintages \cup {Build(candidate[w], latest[w].revision + 1)}
    /\ Finish(w, "REVISION_ADDED")
    /\ UNCHANGED <<claims, candidate, made>>

\* add_vintage: INSERT ... ON CONFLICT (claim, revision) DO NOTHING and commit.
\* The row that was in the way is not looked at.
AddVintage(w) ==
    LET v == Build(candidate[w], latest[w].revision + 1)
        free == \A e \in RowsOf(v.claim) : e.revision # v.revision
    IN /\ pc[w] = "add"
       /\ \/ free /\ vintages' = vintages \cup {v} /\ Finish(w, "REVISION_ADDED")
          \/ ~free /\ UNCHANGED vintages /\ Finish(w, "UNCHANGED")
       /\ UNCHANGED <<claims, candidate, made>>

\* A failing statement, a lost connection, the death of the process: the
\* transaction is rolled back.
Abort(w) ==
    /\ pc[w] # "idle"
    /\ Finish(w, "FAILED")
    /\ UNCHANGED <<claims, vintages, candidate, made>>

Step(w) == \/ GetClaim(w) \/ ReadLatest(w) \/ ReadHistory(w)
           \/ InsertClaim(w) \/ CommitClaim(w) \/ AddVintage(w)

Next == \E w \in Workers :
           \/ \E c \in Candidate : Call(w, c)
           \/ Step(w)
           \/ Abort(w)

Spec == Init /\ [][Next]_vars

-----------------------------------------------------------------------------
(* Properties.                                                             *)

\* Every variable keeps its type.
TypeOK ==
    /\ claims \subseteq Claims
    /\ vintages \subseteq Vintage
    /\ pc \in [Workers -> Steps]
    /\ candidate \in [Workers -> Candidate \cup {NoCandidate}]
    /\ latest \in [Workers -> Vintage \cup {NoRow}]
    /\ outcome \in [Workers -> Outcomes]
    /\ made \in 0 .. MaxCalls

\* No reader can see a claim without its first vintage, nor a vintage without
\* its claim: the recorder asserts that a known claim has a latest vintage.
ClaimsHaveHistory ==
    \A c \in Claims : c \in claims <=> \E v \in RowsOf(c) : v.revision = 0

\* The same evidence read under the same policy never produced two forecasts,
\* nor one forecast under two provenances, although the history each caller
\* checked may have grown before it wrote.
BasisIsDeterministic ==
    \A v, u \in vintages :
       v.claim = u.claim /\ SameBasis(v, u) => v.says = u.says

\* A caller told CREATED or REVISION_ADDED finds its forecast stored.
WrittenIsStored ==
    \A w \in Workers : pc[w] = "idle" /\ outcome[w] \in Written =>
       \E v \in RowsOf(candidate[w].claim) :
          v.availability = candidate[w].availability /\ v.says = candidate[w].says

\* The module docstring: an exact resubmission of a stored vintage is the only
\* case that returns UNCHANGED without writing anything.
UnchangedMeansStored ==
    \A w \in Workers : pc[w] = "idle" /\ outcome[w] = "UNCHANGED" =>
       \E v \in RowsOf(candidate[w].claim) : v.says = candidate[w].says

\* Both point-in-time readings of a claim at t are settled once something later
\* is recorded of it, in whichever mode: a retrospective vintage recorded since
\* cannot change what production is said to have known.
AnswersAreSettled ==
    [][\A c \in Claims, t \in Times :
          (\E v \in RowsOf(c) : v.availability > t) =>
             /\ ProductionAnswer(c, t)' = ProductionAnswer(c, t)
             /\ ResearchAnswer(c, t)' = ResearchAnswer(c, t)]_vintages

\* The committed rows as the entries of a VintageLedger.
Entries == {[subject |-> v.claim, revision |-> v.revision,
             availability |-> v.availability, payload |-> v.says] : v \in vintages}
=============================================================================

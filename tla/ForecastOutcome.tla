--------------------------- MODULE ForecastOutcome ---------------------------
(***************************************************************************)
(* RecordForecastOutcome over SqlAlchemyForecastOutcomeRepository, and     *)
(* ResolveForecastOutcomeAsOf, which evaluations read outcomes with.       *)
(*                                                                         *)
(* An outcome key is bound, with its first vintage, to the one measurement *)
(* identity it will ever have, and no other key to that identity.  A call  *)
(* that loses the race for the binding finds out why and starts over.      *)
(***************************************************************************)
EXTENDS Naturals

CONSTANTS Keys,         \* outcome keys
          Reports,      \* what can be said of an outcome, as records of an
                        \* identity (definition key, period, type, unit), a basis
                        \* (definition version, evidence), a payload (the value)
                        \* and a provenance (mode, publication)
          Submissions,  \* the candidates calls may be given
          Workers,      \* concurrent calls
          MaxTime,      \* bound on availability
          MaxCalls,     \* bound on the calls made
          NoRow, NoCandidate

Times == 0 .. MaxTime

Identities == {r.identity : r \in Reports}

\* eligible is the verdict of ValidateForecastOutcomeCandidate.
Candidate == [key : Keys, availability : Times, says : Reports,
              eligible : BOOLEAN, dry : BOOLEAN]

\* A row of forecast_outcome_identity_bindings.
Binding == [key : Keys, identity : Identities]

\* A row of forecast_outcome_vintages.
Vintage == [key : Keys, revision : Nat, availability : Times, says : Reports]

ASSUME OutcomeAssumption ==
    /\ \A r \in Reports : DOMAIN r = {"identity", "basis", "payload", "provenance"}
    /\ Submissions \subseteq Candidate
    /\ MaxTime \in Nat
    /\ MaxCalls \in Nat
    /\ NoRow \notin Vintage
    /\ NoCandidate \notin Candidate

VARIABLES bindings,   \* committed identity bindings
          vintages,   \* committed outcome vintages
          pc,         \* per call: its next await
          candidate,  \* per call: what it was given
          latest,     \* per call: the latest vintage it read, if any
          outcome,    \* per call: what the last one returned or raised
          made        \* calls made so far

vars == <<bindings, vintages, pc, candidate, latest, outcome, made>>

Written  == {"CREATED", "REVISION_ADDED"}
Outcomes == Written \cup {"NONE", "UNCHANGED", "REJECTED", "DRY_RUN", "OUT_OF_ORDER",
                          "IDENTITY_CONFLICT", "IDENTITY_IMMUTABLE", "NONDETERMINISTIC",
                          "INCONSISTENT_PROVENANCE", "FAILED"}
Steps    == {"idle", "latest", "binding", "classify_key", "classify_identity", "history",
             "claim", "first_vintage", "add"}

RowsOf(k) == {v \in vintages : v.key = k}

\* latest_outcome_vintage, of either provenance mode.
IsLatest(l, k) ==
    /\ l \in RowsOf(k)
    /\ \A v \in RowsOf(k) : \/ v.availability < l.availability
                            \/ v.availability = l.availability /\ v.revision <= l.revision

\* ResolveForecastOutcomeAsOf, by the protocol's selection policy: the vintages
\* it may return, none when the outcome is unavailable or not yet matured.
FixedRelease(k, n, t) == {v \in RowsOf(k) : v.revision = n /\ v.availability <= t}
FirstRelease(k, t)    == FixedRelease(k, 0, t)
LatestAvailable(k, t) ==
    LET known == {v \in RowsOf(k) : v.availability <= t}
    IN {l \in known : \A v \in known :
           \/ v.availability < l.availability
           \/ v.availability = l.availability /\ v.revision <= l.revision}

\* The vintage a candidate is recorded as, after the latest one.
Build(c, l) ==
    [key |-> c.key, revision |-> IF l = NoRow THEN 0 ELSE l.revision + 1,
     availability |-> c.availability, says |-> c.says]

\* Mutant: no ordering check.
NeverOutOfOrder(c, l) == FALSE

\* OutOfOrderForecastOutcomeError.
OutOfOrder(c, l) == c.availability < l.availability

SameBasis(x, y)   == x.says.basis = y.says.basis
SamePayload(x, y) == x.says.payload = y.says.payload /\ x.says.identity = y.says.identity

\* ForecastOutcomeDeterminismError: same basis, different payload.
Contradicted(c, l) == \E h \in RowsOf(c.key) : SameBasis(h, c) /\ ~SamePayload(h, c)

\* ForecastOutcomeProvenanceConsistencyError.
Reclassified(c) ==
    \E h \in RowsOf(c.key) : SameBasis(h, c) /\ SamePayload(h, c) /\ h.says # c.says

Repeats(c, l) == l # NoRow /\ c.says = l.says

\* Mutant: the binding table has no uniqueness over identities.
ClashesByKey(b, c) == b.key = c.key

\* Either unique constraint of the binding table.
Clashes(b, c) == b.key = c.key \/ b.identity = c.says.identity

-----------------------------------------------------------------------------
Init ==
    /\ bindings = {}
    /\ vintages = {}
    /\ pc = [w \in Workers |-> "idle"]
    /\ candidate = [w \in Workers |-> NoCandidate]
    /\ latest = [w \in Workers |-> NoRow]
    /\ outcome = [w \in Workers |-> "NONE"]
    /\ made = 0

Goto(w, step) == pc' = [pc EXCEPT ![w] = step]

\* The call returns or raises r; nothing of its session survives.
Finish(w, r) ==
    /\ Goto(w, "idle")
    /\ latest' = [latest EXCEPT ![w] = NoRow]
    /\ outcome' = [outcome EXCEPT ![w] = r]

Stays == UNCHANGED <<bindings, vintages, candidate, made>>

\* The candidate is validated before anything is read.
Call(w, c) ==
    /\ pc[w] = "idle"
    /\ made < MaxCalls
    /\ made' = made + 1
    /\ candidate' = [candidate EXCEPT ![w] = c]
    /\ \/ ~c.eligible /\ Finish(w, "REJECTED")
       \/ /\ c.eligible
          /\ Goto(w, "latest")
          /\ outcome' = [outcome EXCEPT ![w] = "NONE"]
          /\ UNCHANGED latest
    /\ UNCHANGED <<bindings, vintages>>

\* latest_outcome_vintage, at the top of the loop: a known outcome's binding is
\* verified next, an unknown one's only if nothing is going to claim it.
ReadLatest(w) ==
    LET c == candidate[w] IN
    /\ pc[w] = "latest"
    /\ \/ \E l \in vintages :
             /\ IsLatest(l, c.key)
             /\ \/ OutOfOrder(c, l) /\ Finish(w, "OUT_OF_ORDER")
                \/ /\ ~OutOfOrder(c, l)
                   /\ latest' = [latest EXCEPT ![w] = l]
                   /\ Goto(w, "binding")
                   /\ UNCHANGED outcome
       \/ /\ RowsOf(c.key) = {}
          /\ Goto(w, IF c.dry THEN "classify_key" ELSE "history")
          /\ UNCHANGED <<latest, outcome>>
    /\ Stays

\* get_identity_binding_for_key, for a key that has a vintage.
CheckBinding(w) ==
    LET c == candidate[w] IN
    /\ pc[w] = "binding"
    /\ \E b \in bindings :
       /\ b.key = c.key
       /\ \/ b.identity # c.says.identity /\ Finish(w, "IDENTITY_IMMUTABLE")
          \/ b.identity = c.says.identity /\ Goto(w, "history") /\ UNCHANGED <<latest, outcome>>
    /\ Stays

\* Where _classify_identity was called from: a dry run goes on, a lost claim
\* starts over.
Classified(w) ==
    /\ Goto(w, IF candidate[w].dry THEN "history" ELSE "latest")
    /\ UNCHANGED <<latest, outcome>>

\* _classify_identity, the lookup by key.
ClassifyKey(w) ==
    LET c == candidate[w]
        own == {b \in bindings : b.key = c.key}
    IN /\ pc[w] = "classify_key"
       /\ \/ \E b \in own : b.identity # c.says.identity /\ Finish(w, "IDENTITY_IMMUTABLE")
          \/ \E b \in own : b.identity = c.says.identity /\ Classified(w)
          \/ own = {} /\ Goto(w, "classify_identity") /\ UNCHANGED <<latest, outcome>>
       /\ Stays

\* Mutant: a lost claim is retried without looking for its owner.
NeverConflicts(w) ==
    /\ pc[w] = "classify_identity"
    /\ Classified(w)
    /\ Stays

\* _classify_identity, the lookup by identity.
ClassifyIdentity(w) ==
    LET c == candidate[w]
        owners == {b \in bindings : b.identity = c.says.identity /\ b.key # c.key}
    IN /\ pc[w] = "classify_identity"
       /\ \/ owners # {} /\ Finish(w, "IDENTITY_CONFLICT")
          \/ owners = {} /\ Classified(w)
       /\ Stays

\* list_vintages_for_outcome, and every check against it; then the candidate
\* is compared with the latest vintage, read two awaits ago.
ReadHistory(w) ==
    LET c == candidate[w]  l == latest[w] IN
    /\ pc[w] = "history"
    /\ \/ Contradicted(c, l) /\ Finish(w, "NONDETERMINISTIC")
       \/ Reclassified(c) /\ Finish(w, "INCONSISTENT_PROVENANCE")
       \/ /\ ~Contradicted(c, l) /\ ~Reclassified(c)
          /\ \/ Repeats(c, l) /\ Finish(w, "UNCHANGED")
             \/ ~Repeats(c, l) /\ c.dry /\ Finish(w, "DRY_RUN")
             \/ /\ ~Repeats(c, l) /\ ~c.dry
                /\ Goto(w, IF l = NoRow THEN "claim" ELSE "add")
                /\ UNCHANGED <<latest, outcome>>
    /\ Stays

\* claim_outcome_identity_and_add_first_vintage inserts the binding, waiting for
\* any session that holds a clashing one uncommitted.
InsertBinding(w) ==
    LET c == candidate[w]
        Holds(x) == /\ pc[x] = "first_vintage"
                    /\ Clashes([key |-> candidate[x].key,
                                identity |-> candidate[x].says.identity], c)
    IN /\ pc[w] = "claim"
       /\ \A x \in Workers : ~Holds(x)
       /\ Goto(w, IF \E b \in bindings : Clashes(b, c) THEN "classify_key" ELSE "first_vintage")
       /\ UNCHANGED <<latest, outcome>>
       /\ Stays

\* The first vintage is inserted and committed with the binding.
CommitBinding(w) ==
    LET c == candidate[w] IN
    /\ pc[w] = "first_vintage"
    /\ bindings' = bindings \cup {[key |-> c.key, identity |-> c.says.identity]}
    /\ vintages' = vintages \cup {Build(c, NoRow)}
    /\ Finish(w, "CREATED")
    /\ UNCHANGED <<candidate, made>>

\* add_outcome_vintage: INSERT ... ON CONFLICT (key, revision) DO NOTHING and
\* commit.  The row that was in the way is not looked at.
AddVintage(w) ==
    LET v == Build(candidate[w], latest[w])
        free == \A e \in RowsOf(v.key) : e.revision # v.revision
    IN /\ pc[w] = "add"
       /\ \/ free /\ vintages' = vintages \cup {v} /\ Finish(w, "REVISION_ADDED")
          \/ ~free /\ UNCHANGED vintages /\ Finish(w, "UNCHANGED")
       /\ UNCHANGED <<bindings, candidate, made>>

\* A failing statement, a lost connection, the death of the process.
Abort(w) == pc[w] # "idle" /\ Finish(w, "FAILED") /\ Stays

Step(w) == \/ ReadLatest(w) \/ CheckBinding(w) \/ ClassifyKey(w) \/ ClassifyIdentity(w)
           \/ ReadHistory(w) \/ InsertBinding(w) \/ CommitBinding(w) \/ AddVintage(w)

Next == \E w \in Workers :
           \/ \E c \in Submissions : Call(w, c)
           \/ Step(w)
           \/ Abort(w)

Spec == Init /\ [][Next]_vars

\* The event loop and the database serve every call that can proceed.
FairSpec == Spec /\ \A w \in Workers : WF_vars(Step(w))

-----------------------------------------------------------------------------
(* Properties.                                                             *)

\* Every variable keeps its type.
TypeOK ==
    /\ bindings \subseteq Binding
    /\ vintages \subseteq Vintage
    /\ pc \in [Workers -> Steps]
    /\ candidate \in [Workers -> Candidate \cup {NoCandidate}]
    /\ latest \in [Workers -> Vintage \cup {NoRow}]
    /\ outcome \in [Workers -> Outcomes]
    /\ made \in 0 .. MaxCalls

\* No two keys ever measure the same thing, and no key ever measures two: every
\* vintage has the identity its key is bound to, and a bound key has a vintage
\* (the recorder asserts the converse).
KeysMeasureOneThing ==
    /\ \A b, d \in bindings : b.key = d.key \/ b.identity = d.identity => b = d
    /\ \A v \in vintages : [key |-> v.key, identity |-> v.says.identity] \in bindings
    /\ \A b \in bindings : \E v \in RowsOf(b.key) : v.revision = 0

\* The same evidence under the same definition version never yielded two values
\* of an outcome, nor one value under two provenances.
BasisIsDeterministic ==
    \A v, u \in vintages : v.key = u.key /\ SameBasis(v, u) => v.says = u.says

\* What a policy resolves an outcome to is what it resolves it to for good: a
\* first or a fixed release from the moment it is available at all, the latest
\* available one once something later is recorded.  An evaluation pins such an
\* answer, whatever is recorded of the outcome afterwards.
ResolutionsHold ==
    [][\A k \in Keys, t \in Times :
          /\ \A n \in 0 .. MaxCalls :
                FixedRelease(k, n, t) # {} => FixedRelease(k, n, t)' = FixedRelease(k, n, t)
          /\ FirstRelease(k, t) # {} => FirstRelease(k, t)' = FirstRelease(k, t)
          /\ (\E v \in RowsOf(k) : v.availability > t) =>
                LatestAvailable(k, t)' = LatestAvailable(k, t)]_vintages

\* The loop ends: a call that lost the claim to another key or identity is told
\* so, and one that lost it to its own finds a vintage the next time round.
EveryCallEnds == \A w \in Workers : pc[w] # "idle" ~> pc[w] = "idle"
=============================================================================

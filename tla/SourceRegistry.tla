--------------------------- MODULE SourceRegistry ---------------------------
(***************************************************************************)
(* All passes over the news tables: those of NewsPipeline, and             *)
(*   BootstrapSourceRegistry  registers a feed and the organization behind *)
(*                            it, and attributes the feed's items;         *)
(*   fetch_text               retries a request, and reports each attempt. *)
(* A bootstrap records through RecordSourceIdentityVintage and             *)
(* RecordSourceAttribution, both of which read the latest row and the      *)
(* history before they write.  SourceProfile reads the tables.             *)
(***************************************************************************)
EXTENDS NewsPipeline, SourceProfile

CONSTANTS
    Feed,           \* the source the items come from
    Registries,     \* the bootstrap registries that may be deployed
    Replies         \* what a request may end in

VARIABLES
    sources, identities, attributions, attempts,  \* committed rows
    imprint         \* what was registered last, all by one pass

registryTables == <<sources, identities, attributions>>
registryVars == <<registryTables, attempts, imprint>>
vars == <<pipelineVars, registryVars>>

Kinds == {"TECHNICAL_FEED", "ORGANIZATION"}

\* A reply has a status if there was one.
Reply == [kind : {"RESPONSE", "TIMEOUT", "NETWORK_FAILURE"}, status : SUBSET (100..599)]

FeedMapping ==
    [feed : STRING, feedName : STRING, organization : STRING, organizationName : STRING]

\* The rows of the registry's tables.
IntelligenceSource == [source : STRING, kind : Kinds, registered : Times]
SourceIdentity ==
    [source : STRING, revision : Nat, availability : Times, policy : STRING, name : STRING,
     evidence : Seq(STRING)]
SourceAttribution ==
    [item : Nat, role : Roles, revision : Nat, availability : Times, policy : STRING,
     status : {"CONFIRMED", "UNRESOLVED"}, source : STRING, basis : Nat, evidence : Seq(STRING)]

\* What is known of a request while it is made.
Request == [number : Nat, reply : Replies, at : Times]

ASSUME RegistryAssumption ==
    /\ Registries \subseteq [policy : STRING, mappings : Seq(FeedMapping)]
    /\ \A reply \in Replies : reply.kind = "RESPONSE" <=> \E s \in 100..599 : reply.status = {s}
    /\ NoRow \notin SourceIdentity /\ NoRow \notin SourceAttribution /\ NoRow \notin Request

Init ==
    /\ PipelineInit
    /\ sources = {} /\ identities = {} /\ attributions = {} /\ attempts = {}
    /\ imprint = [pass |-> 0, entries |-> {}]

-----------------------------------------------------------------------------
(* fetch_text and the recorder of its attempts.                            *)

Failed(reply)  == reply.kind # "RESPONSE" \/ \E s \in reply.status : s >= 400
Transient(reply) == reply.kind # "RESPONSE" \/ \E s \in reply.status : s = 429 \/ s >= 500

Outcome(reply) ==
    CASE reply.kind # "RESPONSE" -> reply.kind
      [] reply.kind = "RESPONSE" /\ Failed(reply) -> "HTTP_FAILURE"
      [] OTHER -> "SUCCESS"

\* A request for the next channel, and the instant its end is observed at.
Attempt(w) ==
    /\ pc[w] = "fetch" /\ plan.attempts > 0
    /\ \E reply \in Replies :
          held' = [held EXCEPT ![w] =
                     [number |-> IF @ = NoRow THEN 1 ELSE @.number + 1, reply |-> reply, at |-> now]]
    /\ Goto(w, "report")
    /\ UNCHANGED <<plan, now, tables, job, todo, outcome, made, echo, registryVars>>

\* The run of a fetch is its own: bind_acquisition_recorder mints it.
Observation(w) ==
    [source |-> Feed, channel |-> Channel(w), run |-> <<job[w].pass, job[w].more>>,
     number |-> held[w].number, outcome |-> Outcome(held[w].reply),
     status |-> held[w].reply.status, availability |-> held[w].at]

\* The attempt is recorded in a session of its own, or that fails and is
\* passed over; then the fetch ends or goes on as the reply has it.
Report(w) ==
    /\ pc[w] = "report"
    /\ attempts' \in {attempts, attempts \cup {Observation(w)}}
    /\ LET reply == held[w].reply
       IN \/ ~Failed(reply) /\ \E r \in Feeds[Channel(w)] : Respond(w, r, held[w].at)
          \/ /\ Transient(reply) /\ held[w].number < plan.attempts
             /\ Goto(w, "fetch")
             /\ UNCHANGED <<job, todo, held, outcome>>
          \/ /\ Failed(reply) /\ ~(Transient(reply) /\ held[w].number < plan.attempts)
             /\ Unavailable(w)
    /\ UNCHANGED <<plan, now, tables, made, echo, registryTables, imprint>>

-----------------------------------------------------------------------------
(* BootstrapSourceRegistry.                                                *)

StartBootstrap(w) ==
    /\ \E registry \in Registries : Start(w, "bootstrap", "candidates", registry, <<>>)
    /\ UNCHANGED registryVars

\* One call of RecordSourceIdentityVintage; its evidence names the keys.
IdentityEntry(source, kind, name, evidence) ==
    [entry |-> "identity", source |-> source, kind |-> kind, name |-> name, evidence |-> evidence]

\* One call of RecordSourceAttribution.
AttributionEntry(v, m) ==
    [entry |-> "attribution", item |-> v.item, role |-> "PUBLISHER", basis |-> v.revision,
     status |-> "CONFIRMED", source |-> m.organization, evidence |-> <<m.feed, m.organization>>]

\* What the pass has to record for one mapping, in this order.
Entries(m, found) ==
    <<IdentityEntry(m.feed, "TECHNICAL_FEED", m.feedName, <<m.feed>>),
      IdentityEntry(m.organization, "ORGANIZATION", m.organizationName,
                    <<m.organization, m.feed>>)>>
    \o IF m.feed # Feed THEN <<>>
       ELSE [n \in 1..Len(found) |-> AttributionEntry(found[n], m)]

\* The pass goes on with the next entry.
Resume(w, left) ==
    Continue(w, IF left # <<>> /\ Head(left).entry = "attribution" THEN "attribution" ELSE "source",
             left)

\* list_candidates_as_of(bootstrap_at), backfilled items included.
ReadCandidates(w) ==
    /\ pc[w] = "candidates"
    /\ LET found == {v \in vintages : v \in EvidenceWithBackfill(vintages, v.item, job[w].at)}
           mappings == job[w].more.mappings
       IN \E ordered \in InOrder(found, LAMBDA v, x : v.item < x.item) :
             Resume(w, FlattenSeq([n \in 1..Len(mappings) |-> Entries(mappings[n], ordered)]))
    /\ UNCHANGED <<plan, now, tables, made, echo, registryVars>>

\* The entry is done with: the pass goes on, and the entry is remembered.
Done(w) ==
    /\ imprint' = [pass |-> job[w].pass,
                   entries |-> {[policy |-> job[w].more.policy, of |-> Next1(w)]} \cup
                      (IF imprint.pass = job[w].pass THEN imprint.entries ELSE {})]
    /\ Resume(w, Tail(todo[w]))

-----------------------------------------------------------------------------
(* RecordSourceIdentityVintage.                                            *)

SourceOf(key)     == {s \in sources : s.source = key}
IdentitiesOf(key) == {v \in identities : v.source = key}

SameOrigin(v, e, policy) == v.policy = policy /\ v.evidence = e.evidence

\* get_source
ReadSource(w) ==
    /\ pc[w] = "source"
    /\ LET e == Next1(w)
           known == SourceOf(e.source)
       IN \/ known = {} /\ Goto(w, "register") /\ UNCHANGED <<job, todo, held, outcome>>
          \/ (\E s \in known : s.kind # e.kind) /\ End(w, "KIND_MISMATCH")
          \/ /\ \E s \in known : s.kind = e.kind
             /\ Goto(w, "identity") /\ UNCHANGED <<job, todo, held, outcome>>
    /\ UNCHANGED <<plan, now, tables, made, echo, registryVars>>

\* latest_identity_vintage_for_source
ReadIdentity(w) ==
    /\ pc[w] = "identity"
    /\ \E l \in Newest(IdentitiesOf(Next1(w).source)) :
          \/ job[w].at < l.availability /\ End(w, "OUT_OF_ORDER")
          \/ /\ job[w].at >= l.availability
             /\ held' = [held EXCEPT ![w] = l]
             /\ Goto(w, "identities")
             /\ UNCHANGED <<job, todo, outcome>>
    /\ UNCHANGED <<plan, now, tables, made, echo, registryVars>>

\* list_identity_vintages_for_source: the determinism check, then whether the
\* latest row says the same on the same grounds.
ReadIdentities(w) ==
    /\ pc[w] = "identities"
    /\ LET e == Next1(w)
           policy == job[w].more.policy
           contradicted == \E v \in IdentitiesOf(e.source) :
                              SameOrigin(v, e, policy) /\ v.name # e.name
           repeated == SameOrigin(held[w], e, policy) /\ held[w].name = e.name
       IN \/ contradicted /\ End(w, "DETERMINISM") /\ UNCHANGED imprint
          \/ ~contradicted /\ repeated /\ Done(w)
          \/ /\ ~contradicted /\ ~repeated
             /\ Goto(w, "identify")
             /\ UNCHANGED <<job, todo, held, outcome, imprint>>
    /\ UNCHANGED <<plan, now, tables, made, echo, registryTables, attempts>>

IdentityRow(w) ==
    [source |-> Next1(w).source, revision |-> Revision(w), availability |-> job[w].at,
     policy |-> job[w].more.policy, name |-> Next1(w).name, evidence |-> Next1(w).evidence]

\* Mutant: what has been registered meanwhile is taken to be the same.
RegisterAnyway(w) ==
    /\ pc[w] = "register"
    /\ LET e == Next1(w)
       IN IF SourceOf(e.source) = {}
          THEN /\ sources' = sources \cup
                    {[source |-> e.source, kind |-> e.kind, registered |-> job[w].at]}
               /\ identities' = identities \cup {IdentityRow(w)}
               /\ Done(w)
          ELSE UNCHANGED <<sources, identities>> /\ Done(w)
    /\ UNCHANGED <<plan, now, tables, made, echo, attributions, attempts>>

\* register_source_with_first_identity_vintage: both rows in one transaction, or
\* the rows another has registered meanwhile are compared with them.
Register(w) ==
    /\ pc[w] = "register"
    /\ LET e == Next1(w)
           known == SourceOf(e.source)
           first == {v \in IdentitiesOf(e.source) : v.revision = 0}
       IN \/ /\ known = {}
             /\ sources' = sources \cup
                  {[source |-> e.source, kind |-> e.kind, registered |-> job[w].at]}
             /\ identities' = identities \cup {IdentityRow(w)}
             /\ Done(w)
          \/ /\ \E s \in known : s.kind # e.kind
             /\ End(w, "SOURCE_CONFLICT")
             /\ UNCHANGED <<sources, identities, imprint>>
          \/ /\ \E s \in known : s.kind = e.kind
             /\ IF first = {IdentityRow(w)} THEN Done(w)
                ELSE End(w, "IDENTITY_CONFLICT") /\ UNCHANGED imprint
             /\ UNCHANGED <<sources, identities>>
    /\ UNCHANGED <<plan, now, tables, made, echo, attributions, attempts>>

\* add_identity_vintage
AddIdentity(w) ==
    /\ pc[w] = "identify"
    /\ LET row == IdentityRow(w)
           taken == {v \in IdentitiesOf(row.source) : v.revision = row.revision}
       IN \/ /\ taken \subseteq {row}
             /\ identities' = identities \cup {row}
             /\ Done(w)
          \/ /\ ~(taken \subseteq {row})
             /\ End(w, "IDENTITY_CONFLICT")
             /\ UNCHANGED <<identities, imprint>>
    /\ UNCHANGED <<plan, now, tables, made, echo, sources, attributions, attempts>>

-----------------------------------------------------------------------------
(* RecordSourceAttribution.                                                *)

AttributionsOf(e) == {a \in attributions : a.item = e.item /\ a.role = e.role}

SameGrounds(a, e, policy) == SameOrigin(a, e, policy) /\ a.basis = e.basis

\* latest_attribution_for_role
ReadAttribution(w) ==
    /\ pc[w] = "attribution"
    /\ LET latest == Newest(AttributionsOf(Next1(w)))
       IN \/ (\E l \in latest : job[w].at < l.availability) /\ End(w, "OUT_OF_ORDER")
          \/ /\ \A l \in latest : job[w].at >= l.availability
             /\ held' = [held EXCEPT ![w] = IF latest = {} THEN NoRow
                                            ELSE CHOOSE l \in latest : TRUE]
             /\ Goto(w, "attributions")
             /\ UNCHANGED <<job, todo, outcome>>
    /\ UNCHANGED <<plan, now, tables, made, echo, registryVars>>

\* list_attribution_vintages
ReadAttributions(w) ==
    /\ pc[w] = "attributions"
    /\ LET e == Next1(w)
           policy == job[w].more.policy
           contradicted == \E a \in AttributionsOf(e) :
                              /\ SameGrounds(a, e, policy)
                              /\ <<a.status, a.source>> # <<e.status, e.source>>
           repeated == held[w] # NoRow /\ SameGrounds(held[w], e, policy)
       IN \/ contradicted /\ End(w, "DETERMINISM") /\ UNCHANGED imprint
          \/ ~contradicted /\ repeated /\ Done(w)
          \/ /\ ~contradicted /\ ~repeated
             /\ Goto(w, "attribute")
             /\ UNCHANGED <<job, todo, held, outcome, imprint>>
    /\ UNCHANGED <<plan, now, tables, made, echo, registryTables, attempts>>

\* add_attribution_vintage
AddAttribution(w) ==
    /\ pc[w] = "attribute"
    /\ LET e == Next1(w)
           row == [item |-> e.item, role |-> e.role, revision |-> Revision(w),
                   availability |-> job[w].at, policy |-> job[w].more.policy,
                   status |-> e.status, source |-> e.source, basis |-> e.basis,
                   evidence |-> e.evidence]
           taken == {a \in AttributionsOf(e) : a.revision = row.revision}
       IN \/ /\ taken \subseteq {row}
             /\ attributions' = attributions \cup {row}
             /\ Done(w)
          \/ /\ ~(taken \subseteq {row})
             /\ End(w, "ATTRIBUTION_CONFLICT")
             /\ UNCHANGED <<attributions, imprint>>
    /\ UNCHANGED <<plan, now, tables, made, echo, sources, identities, attempts>>

RegistryStep(w) ==
    \/ Attempt(w) \/ Report(w)
    \/ StartBootstrap(w) \/ ReadCandidates(w)
    \/ ReadSource(w) \/ ReadIdentity(w) \/ ReadIdentities(w) \/ Register(w) \/ AddIdentity(w)
    \/ ReadAttribution(w) \/ ReadAttributions(w) \/ AddAttribution(w)

Next ==
    \/ Tick /\ UNCHANGED registryVars
    \/ \E w \in Workers : PipelineStep(w) /\ UNCHANGED registryVars
    \/ \E w \in Workers : RegistryStep(w)

Spec == Init /\ [][Next]_vars

-----------------------------------------------------------------------------
(* What the readers of the tables rely on.                                 *)

Steps == {"idle", "fetch", "report", "record", "pairs", "relation", "relate", "items",
          "annotation", "history", "annotate", "candidates", "source", "identity",
          "identities", "register", "identify", "attribution", "attributions", "attribute"}
Ends  == {"NONE", "DONE", "SOURCE_MISMATCH", "CONFLICTING_DUPLICATE", "OUT_OF_ORDER",
          "RELATION_CONFLICT", "ANNOTATION_CONFLICT", "DETERMINISM", "KIND_MISMATCH",
          "SOURCE_CONFLICT", "IDENTITY_CONFLICT", "ATTRIBUTION_CONFLICT"}

\* Every table numbers its rows from zero without gap, in time order, under
\* whatever passes run at once; a source is registered once, with an identity.
TypeOK ==
    /\ plan \in Plans /\ now \in Times /\ made \in 0..plan.runs
    /\ pc \in [Workers -> Steps] /\ outcome \in [Workers -> Ends]
    /\ vintages \subseteq NewsItemVintage /\ relations \subseteq NewsCanonicalRelation
    /\ annotations \subseteq NewsSemanticAnnotation /\ sources \subseteq IntelligenceSource
    /\ identities \subseteq SourceIdentity /\ attributions \subseteq SourceAttribution
    /\ NewsHistories
    /\ \A v \in identities : History(IdentitiesOf(v.source))
    /\ \A a \in attributions : History(AttributionsOf(a))
    /\ {v.source : v \in identities} = {s.source : s \in sources}
    /\ \A s \in sources : s.kind \in Kinds /\ SourceOf(s.source) = {s}
    /\ \A a \in attempts : a.number \in 1..plan.attempts

\* Some pass may still write rows stamped with an instant up to t.
Pending(t) ==
    \/ now <= t
    \/ \E w \in Workers :
          CASE pc[w] = "idle" -> FALSE
            [] pc[w] \in {"fetch", "report", "record"} ->
                 \/ pc[w] = "report" /\ held[w].at <= t
                 \/ \E n \in 1..Len(todo[w]) : todo[w][n].at <= t
            [] OTHER -> job[w].at <= t

\* What a profile says of the window and the instant: all but its coverage, which
\* is not bounded by the instant.
Reading(p) == <<p.feed, p.publishers, p.acquisition, p.content, p.latency>>

\* All that can be told of an instant: the pair snapshot in its three layers, and
\* the profile of the feed.
Answer(from, t) ==
    [snapshot |-> Snapshot(vintages, relations, annotations, Base, Quote, from, t),
     roles    |-> {AttributionsAt(attributions, i, t) : i \in SeenItems(vintages, t)},
     profile  |-> Reading(Profile(vintages, sources, identities, attributions, attempts,
                                  Feed, from, t))]

\* The same instant reproduces the same snapshot and the same source profile,
\* from the moment on when no pass that read the clock by then is still at work
\* (get_pair_news_evidence_snapshot.py:8-12, get_source_operational_profile_as_of.py:1-3).
SettledInstantsKeepTheirAnswer ==
    [][\A t \in Times : ~Pending(t) =>
          \A from \in 0..t : Answer(from, t)' = Answer(from, t)]_<<tables, registryTables, attempts>>

\* Relations, annotations and attributions rest on revisions that were known at
\* the instant they claim, although they were read and written later; and whoever
\* an item is attributed to was registered, and known by name, by that instant.
EvidenceBeforeJudgement ==
    /\ JudgementsHaveEvidence
    /\ \A a \in attributions :
          /\ Known(a.item, a.basis, a.availability)
          /\ a.source \in {s.source : s \in sources}
          /\ \E v \in IdentitiesOf(a.source) : v.availability <= a.availability

\* Some row says what the entry says, on the same grounds, and none contradicts it.
Recorded(entry) ==
    LET e == entry.of
    IN IF e.entry = "identity"
       THEN LET same == {v \in IdentitiesOf(e.source) : SameOrigin(v, e, entry.policy)}
            IN /\ \A s \in SourceOf(e.source) : s.kind = e.kind
               /\ same # {} /\ \A v \in same : v.name = e.name
       ELSE LET same == {a \in AttributionsOf(e) : SameGrounds(a, e, entry.policy)}
            IN same # {} /\ \A a \in same : a.source = e.source

\* Polling an unchanged publisher adds nothing.  Nor is a bootstrap ever told of an
\* entry that it stands although it does not: it is stored for good, so that the
\* same registry is never refused later
\* (ingest_news_source_once.py, scripts/bootstrap_source_registry.py:12-14).
ReplaysAreHarmless ==
    /\ ObservationsStand
    /\ \A entry \in imprint.entries : Recorded(entry)
=============================================================================

---------------------------- MODULE SourceProfile ----------------------------
(***************************************************************************)
(* What is known at an instant of a feed and of the organization behind    *)
(* it: the reads over the source registry, and the operational profile     *)
(* made of them, of acquisition attempts and of the feed's items.          *)
(*                                                                         *)
(*   sources:      [source, kind, registered]                              *)
(*   identities:   [source, revision, availability, policy, name, evidence]*)
(*   attributions: [item, role, revision, availability, policy, status,    *)
(*                  source, basis, evidence]                               *)
(*   attempts:     [source, channel, run, number, outcome, status,         *)
(*                  availability]                                          *)
(*                                                                         *)
(* Aliases, identifiers and web sites are part of an identity's name.      *)
(***************************************************************************)
EXTENDS PairNews

\* latest_identity_vintage_as_of; empty for NOT_KNOWN.
IdentityAt(identities, s, t) == Newest({v \in KnownAt(identities, t) : v.source = s})

Roles == {"PUBLISHER", "ORIGINATING_CLAIMANT", "QUOTED_ACTOR"}

AttributionFor(attributions, i, role, t) ==
    Newest({a \in KnownAt(attributions, t) : a.item = i /\ a.role = role})

\* list_latest_attributions_for_item_as_of
AttributionsAt(attributions, i, t) ==
    UNION {AttributionFor(attributions, i, role, t) : role \in Roles}

\* ResolvePublisherForNewsItemAsOf, which never takes the feed for its publisher.
\* The source itself is read without regard to the instant.
PublisherAt(sources, identities, attributions, i, t) ==
    LET attributed == AttributionFor(attributions, i, "PUBLISHER", t)
        a == CHOOSE x \in attributed : TRUE
    IN CASE attributed = {} -> [status |-> "NOT_RECORDED"]
         [] attributed # {} /\ a.status = "UNRESOLVED" ->
              [status |-> "UNRESOLVED", attribution |-> a]
         [] OTHER ->
              [status |-> "CONFIRMED", attribution |-> a,
               publisher |-> {x \in sources : x.source = a.source},
               identity |-> IdentityAt(identities, a.source, t)]

-----------------------------------------------------------------------------
(* GetSourceOperationalProfileAsOf.                                        *)

Within(rows, from, t) == {r \in KnownAt(rows, t) : from <= r.availability}

\* _build_acquisition_metrics: the rate is successes among attempts.
Acquisition(attempts, source, from, t) ==
    LET made == {a \in Within(attempts, from, t) : a.source = source}
    IN IF made = {} THEN [coverage |-> "UNAVAILABLE"]
       ELSE [coverage |-> "PARTIAL",
             attempts |-> Cardinality(made),
             runs     |-> Cardinality({a.run : a \in made}),
             retries  |-> Quantify(made, LAMBDA a : a.number > 1),
             outcomes |-> [o \in {a.outcome : a \in made} |-> Quantify(made, LAMBDA a : a.outcome = o)],
             statuses |-> [s \in UNION {a.status : a \in made} |-> Quantify(made, LAMBDA a : s \in a.status)]]

Withdrawal(v) == ~v.content.active

\* _build_content_metrics: a withdrawal is counted as one also if it corrects.
Activity(vintages, from, t) ==
    LET seen    == Within(vintages, from, t)
        revised == {v \in seen : v.revision > 0}
    IN [first     |-> seen \ revised,
        revisions |-> revised,
        withdrawn |-> {v \in seen : Withdrawal(v)},
        corrected |-> {v \in revised : v.content.corrects /\ ~Withdrawal(v)},
        other     |-> {v \in revised : ~v.content.corrects /\ ~Withdrawal(v)},
        known     |-> {v.item : v \in KnownAt(vintages, t)},
        span      |-> {v.availability : v \in KnownAt(vintages, t)}]

\* _build_latency_sample: the sum of the delays of those live vintages whose
\* publisher told when it published.
Latency(vintages, from, t) ==
    LET live   == {v \in Within(vintages, from, t) : ~v.content.backfill}
        timed  == {v \in live : v.content.published # {}}
        Delay(v) == v.availability - (CHOOSE p \in v.content.published : TRUE)
    IN [population |-> Cardinality(timed),
        untimed    |-> Cardinality(live \ timed),
        backfilled |-> Cardinality(Within(vintages, from, t) \ live),
        extremes   |-> {Delay(v) : v \in timed},
        total      |-> MapThenSumSet(Delay, timed),
        negative   |-> Quantify(timed, LAMBDA v : Delay(v) < 0)]

\* Whether the feed has items at all, whatever the instant.
ContentCoverage(vintages) == IF vintages = {} THEN "NOT_APPLICABLE" ELSE "OBSERVED"

\* _most_recently_first_seen_item: which of several first seen at once is up to
\* the order the rows come in.
Representatives(vintages, t) ==
    LET seen == SeenItems(vintages, t)
    IN {i \in seen : \A j \in seen : FirstSeen(vintages, j) <= FirstSeen(vintages, i)}

Profile(vintages, sources, identities, attributions, attempts, source, from, t) ==
    [feed        |-> {v.name : v \in IdentityAt(identities, source, t)},
     publishers  |-> {PublisherAt(sources, identities, attributions, i, t) :
                        i \in Representatives(vintages, t)},
     acquisition |-> Acquisition(attempts, source, from, t),
     coverage    |-> ContentCoverage(vintages),
     content     |-> Activity(vintages, from, t),
     latency     |-> Latency(vintages, from, t)]
=============================================================================

------------------------------ MODULE PairNews ------------------------------
(***************************************************************************)
(* GetPairNewsEvidenceSnapshot: what was known of a currency pair at an    *)
(* instant, derived from the three append-only news tables.  Nothing here  *)
(* is stored; every operator is a function of the tables and the instant.  *)
(*                                                                         *)
(*   vintages:    [item, revision, availability, channels, content]        *)
(*   relations:   [left, right, revision, availability, kind, method, ...] *)
(*   annotations: [item, revision, availability, basis, version,           *)
(*                 currencies]                                             *)
(*                                                                         *)
(* Items are numbers, in the order of their keys.                          *)
(***************************************************************************)
EXTENDS Integers, FiniteSets, FiniteSetsExt

\* Mutant: the instant does not bound what is read.
EverKnown(rows, t) == rows

KnownAt(rows, t) == {r \in rows : r.availability <= t}

\* The last row by (availability, revision), if there is one.
Newest(rows) ==
    {r \in rows : \A x \in rows : \/ x.availability < r.availability
                                  \/ x.availability = r.availability /\ x.revision <= r.revision}

-----------------------------------------------------------------------------
(* Items and what they say.                                                *)

\* first_seen_at, which is the availability of revision 0.
FirstSeen(vintages, i) == (CHOOSE v \in vintages : v.item = i /\ v.revision = 0).availability

SeenItems(vintages, t) == {v.item : v \in {x \in KnownAt(vintages, t) : x.revision = 0}}

\* latest_evidence_eligible_vintage(s)_as_of, with include_backfill and without.
EvidenceWithBackfill(vintages, i, t) ==
    Newest({v \in KnownAt(vintages, t) : v.item = i /\ v.content.eligible})

Evidence(vintages, i, t) ==
    EvidenceWithBackfill({v \in vintages : ~v.content.backfill}, i, t)

Annotation(annotations, i, t) == Newest({a \in KnownAt(annotations, t) : a.item = i})

\* _resolve_semantic_state, for an item with evidence.
SemanticState(evidence, annotation) ==
    CASE annotation = {} -> "UNCLASSIFIED"
      [] \E v \in evidence, a \in annotation : a.basis = v.revision -> "CURRENT"
      [] OTHER -> "STALE"

-----------------------------------------------------------------------------
(* Stories: items joined by SAME_STORY relations.                          *)

\* list_latest_relation_states_as_of
RelationStates(relations, t) ==
    {r \in KnownAt(relations, t) :
       r \in Newest({x \in KnownAt(relations, t) : x.left = r.left /\ x.right = r.right})}

Joined(relations, t)   == {r \in RelationStates(relations, t) : r.kind = "SAME_STORY"}
Rejected(relations, t) == {r \in RelationStates(relations, t) : r.kind = "NOT_SAME_STORY"}

\* The union-find of derive_canonical_groups: each relation in force unites the
\* stories of its two items.
Stories(vintages, relations, t) ==
    FoldSet(LAMBDA r, stories :
               LET met == {s \in stories : s \cap {r.left, r.right} # {}}
               IN (stories \ met) \cup {UNION met},
            {{i} : i \in SeenItems(vintages, t)}, Joined(relations, t))

\* NewsCanonicalizationInconsistentStateError
Inconsistent(stories, relations, t) ==
    \E s \in stories, r \in Rejected(relations, t) : {r.left, r.right} \subseteq s

\* min(key=(first_seen_at, key)): the story's key, and its display member.
Eldest(first, items) ==
    CHOOSE i \in items : \A j \in items : \/ first[i] < first[j]
                                          \/ first[i] = first[j] /\ i <= j

-----------------------------------------------------------------------------
(* The snapshot of the pair base/quote over the window from..t.            *)

\* classify_pair_relevance, and its union over the relevant members.
Side(currencies, base, quote) ==
    CASE {base, quote} \subseteq currencies -> "BOTH"
      [] base \in currencies -> "BASE_ONLY"
      [] quote \in currencies -> "QUOTE_ONLY"
      [] OTHER -> "NONE"

\* What a snapshot says of one story: its disposition in the accounting, the
\* entry _build_group_entry makes of it, and its semantic gaps.  Of every item seen
\* it has been fetched when it was first seen, what it said, and how it was
\* annotated; and the relations in force.
Told(first, said, noted, joined, base, quote, from, t, story) ==
    LET Said(i)  == CHOOSE v \in said[i] : TRUE
        About(i) == (CHOOSE a \in noted[i] : TRUE).currencies
        State(i) == SemanticState(said[i], noted[i])
        eligible == {i \in story : said[i] # {}}
        started  == Min({first[i] : i \in eligible})
        current  == {i \in eligible : State(i) = "CURRENT"}
        relevant == {i \in current : Side(About(i), base, quote) # "NONE"}
        active   == {i \in relevant : Said(i).content.active}
        side     == Side(UNION {About(i) : i \in relevant}, base, quote)
    IN CASE eligible = {} -> [disposition |-> "WITHOUT_ELIGIBLE_EVIDENCE"]
         [] eligible # {} /\ started \notin from..t -> [disposition |-> "OUTSIDE_WINDOW"]
         [] OTHER ->
              [disposition |-> CASE relevant # {} -> side
                                 [] relevant = {} /\ current = eligible -> "PAIR_IRRELEVANT"
                                 [] OTHER -> "INCOMPLETE_SEMANTICS",
               members |-> eligible,
               active |-> active,
               withdrawn |-> relevant \ active,
               started |-> started,
               display |-> IF relevant = {} THEN {}
                           ELSE {Eldest(first, IF active # {} THEN active ELSE relevant)},
               details |-> {[item |-> i, revision |-> Said(i).revision, about |-> About(i)] :
                              i \in current},
               gaps |-> {[item |-> i, state |-> State(i)] : i \in eligible \ current},
               provenance |-> {<<r.left, r.right, r.revision>> : r \in {x \in joined : x.left \in story}}]

Snapshot(vintages, relations, annotations, base, quote, from, t) ==
    LET seen    == SeenItems(vintages, t)
        first   == [i \in seen |-> FirstSeen(vintages, i)]
        said    == [i \in seen |-> Evidence(vintages, i, t)]
        noted   == [i \in seen |-> Annotation(annotations, i, t)]
        stories == Stories(vintages, relations, t)
        refused == Inconsistent(stories, relations, t)
    IN [refused |-> refused,
        stories |-> IF refused THEN {}
                    ELSE {[key |-> Eldest(first, s), canonical |-> s,
                           told |-> Told(first, said, noted, Joined(relations, t),
                                         base, quote, from, t, s)] : s \in stories}]
=============================================================================

---------------------------- MODULE NewsPipeline ----------------------------
(***************************************************************************)
(* The passes that fill the news tables, running at the same time:         *)
(*   IngestNewsSourceOnce  fetches every channel, validates the whole run, *)
(*                         then records observation by observation;        *)
(*   CanonicalizeNewsOnce  relates every matching pair of items;           *)
(*   ClassifyNewsOnce      annotates every item;                           *)
(*   a reviewer            records a verdict on one pair.                  *)
(* Each stamps what it writes with an instant taken once, at its start or  *)
(* at the fetch, and writes later, row by row, each row in a transaction   *)
(* of its own.  PairNews reads the tables.  SourceRegistry adds the passes *)
(* that attribute the items to their publishers, and is the specification  *)
(* of them all.                                                            *)
(*                                                                         *)
(* RecordNewsObservation is one step here; NewsLedger takes it apart.      *)
(***************************************************************************)
EXTENDS PairNews, Sequences, SequencesExt

CONSTANTS
    ChannelOrder,   \* the configured channels, in fetch order
    Feeds,          \* per channel: the responses its publisher may give
    Releases,       \* the classifiers that may be deployed
    Verdicts,       \* what a reviewer may decide: left, right, kind
    Base, Quote,    \* the pair snapshots are read for
    Plans,          \* what may run together: the passes, how many runs, how often
                    \* a request is made if attempts are recorded, and over what
    Workers, MaxTime,
    NoRow, NoJob

VARIABLES
    plan,
    now,
    vintages, relations, annotations,  \* committed rows
    pc,       \* per worker, the await its pass is at
    job,      \* its pass: number, instant, classifier
    todo,     \* what the pass has still to record
    held,     \* the latest row it read
    outcome,  \* how its last pass ended
    made,     \* passes started
    echo      \* the observations recorded last, all by one pass

tables == <<vintages, relations, annotations>>
pipelineVars == <<plan, now, tables, pc, job, todo, held, outcome, made, echo>>

Times == 0..MaxTime

Passes == {"ingestion", "canonicalization", "review", "classification", "bootstrap"}

Channels == DOMAIN Feeds
Contents == {o.content : o \in UNION {ToSet(r.observations) : r \in UNION {Feeds[c] : c \in Channels}}}

NewsContent ==
    [url : STRING, body : STRING, currencies : SUBSET STRING, active : BOOLEAN,
     eligible : BOOLEAN, backfill : BOOLEAN, corrects : BOOLEAN, published : SUBSET Int]

\* The rows of the tables.
RelationKinds   == {"SAME_STORY", "NOT_SAME_STORY"}
RelationMethods == {"AUTOMATIC", "MANUAL_REVIEW"}

NewsItemVintage ==
    [item : Nat, revision : Nat, availability : Times, content : Contents,
     channels : SUBSET Channels]
NewsCanonicalRelation ==
    [left : Nat, right : Nat, revision : Nat, availability : Times, kind : RelationKinds,
     method : RelationMethods, bases : Nat \X Nat]
NewsSemanticAnnotation ==
    [item : Nat, revision : Nat, availability : Times, basis : Nat, version : STRING,
     currencies : SUBSET STRING]

\* Nothing but the first vintages of items may be stored at first.
ASSUME PipelineAssumption ==
    /\ MaxTime \in Nat
    /\ \A c \in Channels :
          Feeds[c] \subseteq [foreign : BOOLEAN,
                             observations : Seq([item : Nat, content : NewsContent])]
    /\ ChannelOrder \in Seq(Channels) \ {<<>>}
    /\ Releases \subseteq [version : STRING, overlooks : SUBSET STRING]
    /\ Verdicts \subseteq [left : Nat, right : Nat, kind : RelationKinds]
    /\ Plans \subseteq [passes : SUBSET Passes, runs : Nat, attempts : Nat,
                  stored : SUBSET [item : Nat, revision : {0}, availability : {0},
                                   content : Contents, channels : SUBSET Channels]]
    /\ \A p \in Plans : /\ IsFiniteSet(p.stored)
                        /\ \A v, x \in p.stored : v.item = x.item => v = x
    /\ NoRow \notin NewsCanonicalRelation /\ NoRow \notin NewsSemanticAnnotation

PipelineInit ==
    /\ plan \in Plans
    /\ now = 0
    /\ vintages = plan.stored /\ relations = {} /\ annotations = {}
    /\ pc = [w \in Workers |-> "idle"]
    /\ job = [w \in Workers |-> NoJob]
    /\ todo = [w \in Workers |-> <<>>]
    /\ held = [w \in Workers |-> NoRow]
    /\ outcome = [w \in Workers |-> "NONE"]
    /\ made = 0
    /\ echo = [pass |-> 0, observations |-> {}]

Tick ==
    /\ now < MaxTime
    /\ now' = now + 1
    /\ UNCHANGED <<plan, tables, pc, job, todo, held, outcome, made, echo>>

-----------------------------------------------------------------------------
(* Control common to the passes.                                           *)

\* A pass starts at the instant it stamps its rows with.
Start(w, pass, step, more, work) ==
    /\ pass \in plan.passes
    /\ pc[w] = "idle" /\ made < plan.runs
    /\ made' = made + 1
    /\ job' = [job EXCEPT ![w] = [pass |-> made + 1, at |-> now, more |-> more]]
    /\ pc' = [pc EXCEPT ![w] = step]
    /\ todo' = [todo EXCEPT ![w] = work]
    /\ outcome' = [outcome EXCEPT ![w] = "NONE"]
    /\ UNCHANGED <<plan, now, tables, held, echo>>

Goto(w, step) == pc' = [pc EXCEPT ![w] = step]

\* The pass returns, or raises r; what it has recorded stays.
End(w, r) ==
    /\ Goto(w, "idle")
    /\ job' = [job EXCEPT ![w] = NoJob]
    /\ todo' = [todo EXCEPT ![w] = <<>>]
    /\ held' = [held EXCEPT ![w] = NoRow]
    /\ outcome' = [outcome EXCEPT ![w] = r]

\* With work left the pass goes on at step, otherwise it is done.
Continue(w, step, left) ==
    IF left = <<>> THEN End(w, "DONE")
    ELSE /\ Goto(w, step)
         /\ todo' = [todo EXCEPT ![w] = left]
         /\ held' = [held EXCEPT ![w] = NoRow]
         /\ UNCHANGED <<job, outcome>>

Next1(w) == Head(todo[w])

\* The elements of a finite set in an order that tells them apart.
InOrder(S, Before(_, _)) ==
    {s \in [1..Cardinality(S) -> S] : \A m, n \in 1..Cardinality(S) : m < n => Before(s[m], s[n])}

-----------------------------------------------------------------------------
(* IngestNewsSourceOnce.                                                   *)

\* _same_observation_facts, of two observations of one channel and of two.
Differ(o, p) == o.item = p.item /\ o.content # p.content

\* ConflictingDuplicateExternalIdError, within a response and in a run.
Conflicting(observations) ==
    \E m, n \in 1..Len(observations) : Differ(observations[m], observations[n])

\* One observation per item and channel, the first; retrieval instants never
\* decrease along the run, so they are already in the order they are recorded in.
Distinct(observations) ==
    FoldLeft(LAMBDA kept, o :
                IF \E n \in 1..Len(kept) : kept[n].item = o.item /\ kept[n].channel = o.channel
                THEN kept ELSE Append(kept, o),
             <<>>, observations)

\* _group_and_validate_whole_run
RunConflict(observations) == Conflicting(observations)

StartIngestion(w) == Start(w, "ingestion", "fetch", 1, <<>>)

Channel(w) == ChannelOrder[job[w].more]

\* With the last response the run is validated as a whole.
Collect(w, all) ==
    IF job[w].more < Len(ChannelOrder)
    THEN /\ job' = [job EXCEPT ![w].more = @ + 1]
         /\ todo' = [todo EXCEPT ![w] = all]
         /\ held' = [held EXCEPT ![w] = NoRow]
         /\ Goto(w, "fetch")
         /\ UNCHANGED outcome
    ELSE IF RunConflict(all) THEN End(w, "CONFLICTING_DUPLICATE")
         ELSE Continue(w, "record", Distinct(all))

\* A response, stamped with the instant it was retrieved; one that contradicts
\* itself is passed over.
Respond(w, r, at) ==
    LET stamped == [m \in 1..Len(r.observations) |->
                      [item |-> r.observations[m].item, content |-> r.observations[m].content,
                       channel |-> Channel(w), at |-> at]]
    IN IF r.foreign THEN End(w, "SOURCE_MISMATCH")
       ELSE Collect(w, IF Conflicting(stamped) THEN todo[w] ELSE todo[w] \o stamped)

Unavailable(w) == Collect(w, todo[w])

\* Phase 1 where nobody records the attempts: the next channel is unavailable or
\* gives one of its responses.
Fetch(w) ==
    /\ pc[w] = "fetch" /\ plan.attempts = 0
    /\ \/ Unavailable(w)
       \/ \E r \in Feeds[Channel(w)] : Respond(w, r, now)
    /\ UNCHANGED <<plan, now, tables, made, echo>>

VintagesOf(i) == {v \in vintages : v.item = i}
LatestVintage(i) == CHOOSE v \in VintagesOf(i) : \A x \in VintagesOf(i) : x.revision <= v.revision

\* What RecordNewsObservation makes of an observation.
Recording(o) ==
    LET known == VintagesOf(o.item)
        l     == LatestVintage(o.item)
    IN IF known = {}
       THEN [item |-> o.item, revision |-> 0, availability |-> o.at,
             content |-> o.content, channels |-> {o.channel}]
       ELSE [item |-> o.item, revision |-> l.revision + 1, availability |-> o.at,
             content |-> o.content, channels |-> l.channels \cup {o.channel}]

Late(o) == VintagesOf(o.item) # {} /\ o.at < LatestVintage(o.item).availability

Repeated(o) ==
    /\ VintagesOf(o.item) # {}
    /\ Recording(o).content = LatestVintage(o.item).content
    /\ Recording(o).channels = LatestVintage(o.item).channels

\* Phase 2, one observation.
Record(w) ==
    /\ pc[w] = "record"
    /\ LET o == Next1(w)
       IN \/ /\ Late(o)
             /\ End(w, "OUT_OF_ORDER")
             /\ UNCHANGED <<vintages, echo>>
          \/ /\ ~Late(o)
             /\ vintages' = vintages \cup (IF Repeated(o) THEN {} ELSE {Recording(o)})
             /\ echo' = [pass |-> job[w].pass,
                         observations |-> {o} \cup
                            (IF echo.pass = job[w].pass THEN echo.observations ELSE {})]
             /\ Continue(w, "record", Tail(todo[w]))
    /\ UNCHANGED <<plan, now, relations, annotations, made>>

-----------------------------------------------------------------------------
(* CanonicalizeNewsOnce and RecordNewsCanonicalRelation.                   *)

\* Mutant: the newest evidence, whatever the run's instant.
CandidatesNow(t) == {v \in vintages : v \in Evidence(vintages, v.item, MaxTime)}

Candidates(t) == {v \in vintages : v \in Evidence(vintages, v.item, t)}

\* classify_candidate_pair, whose two automatic methods are treated alike.
Matches(v, x) == \/ v.content.url # "none" /\ v.content.url = x.content.url
                 \/ v.content.body # "none" /\ v.content.body = x.content.body

StartCanonicalization(w) == Start(w, "canonicalization", "pairs", "none", <<>>)

\* list_candidates_as_of(run_at), and the pairs the matcher relates.
ReadPairs(w) ==
    /\ pc[w] = "pairs"
    /\ LET found == {p \in Candidates(job[w].at) \X Candidates(job[w].at) :
                        p[1].item < p[2].item /\ Matches(p[1], p[2])}
           Before(p, q) == \/ p[1].item < q[1].item
                           \/ p[1].item = q[1].item /\ p[2].item < q[2].item
       IN \E ordered \in InOrder(found, Before) :
             Continue(w, "relation",
                [n \in 1..Len(ordered) |->
                   [left |-> ordered[n][1].item, right |-> ordered[n][2].item,
                    bases |-> <<ordered[n][1].revision, ordered[n][2].revision>>,
                    kind |-> "SAME_STORY", method |-> "AUTOMATIC"]])
    /\ UNCHANGED <<plan, now, tables, made, echo>>

\* A reviewer passes a verdict on two items as they stand.
StartReview(w) ==
    \E verdict \in Verdicts, v, x \in Candidates(now) :
       /\ v.item = verdict.left /\ x.item = verdict.right
       /\ Start(w, "review", "relation", "none",
                <<[left |-> v.item, right |-> x.item, bases |-> <<v.revision, x.revision>>,
                   kind |-> verdict.kind, method |-> "MANUAL_REVIEW"]>>)

RelationsOf(r) == {x \in relations : x.left = r.left /\ x.right = r.right}

\* Mutant: a pass may relate what a reviewer has separated.
NeverBlocked(l, r) == FALSE

\* BLOCKED_BY_REVIEW_OVERRIDE
Blocked(l, r) == l.kind = "NOT_SAME_STORY" /\ r.method = "AUTOMATIC"

\* latest_relation_for_pair, and what follows without another await.
ReadRelation(w) ==
    /\ pc[w] = "relation"
    /\ LET r == Next1(w)
           latest == Newest(RelationsOf(r))
       IN \/ /\ latest = {}
             /\ Goto(w, "relate")
             /\ UNCHANGED <<job, todo, held, outcome>>
          \/ \E l \in latest :
                \/ job[w].at < l.availability /\ End(w, "OUT_OF_ORDER")
                \/ /\ job[w].at >= l.availability
                   /\ Blocked(l, r) \/ l.kind = r.kind
                   /\ Continue(w, "relation", Tail(todo[w]))
                \/ /\ job[w].at >= l.availability
                   /\ ~Blocked(l, r) /\ l.kind # r.kind
                   /\ held' = [held EXCEPT ![w] = l]
                   /\ Goto(w, "relate")
                   /\ UNCHANGED <<job, todo, outcome>>
    /\ UNCHANGED <<plan, now, tables, made, echo>>

Revision(w) == IF held[w] = NoRow THEN 0 ELSE held[w].revision + 1

\* add_relation_vintage: another row under the number is a conflict unless it is
\* the very same.
AddRelation(w) ==
    /\ pc[w] = "relate"
    /\ LET r == Next1(w)
           row == [left |-> r.left, right |-> r.right, revision |-> Revision(w),
                   availability |-> job[w].at, kind |-> r.kind, method |-> r.method,
                   bases |-> r.bases]
           taken == {x \in RelationsOf(r) : x.revision = row.revision}
       IN \/ /\ taken \subseteq {row}
             /\ relations' = relations \cup {row}
             /\ Continue(w, "relation", Tail(todo[w]))
          \/ /\ ~(taken \subseteq {row})
             /\ End(w, "RELATION_CONFLICT")
             /\ UNCHANGED relations
    /\ UNCHANGED <<plan, now, vintages, annotations, made, echo>>

-----------------------------------------------------------------------------
(* ClassifyNewsOnce and RecordNewsSemanticAnnotation.                      *)

StartClassification(w) == \E release \in Releases : Start(w, "classification", "items", release, <<>>)

\* list_candidates_as_of(run_at); everything is classified before anything is
\* recorded.
ReadItems(w) ==
    /\ pc[w] = "items"
    /\ \E ordered \in InOrder(Candidates(job[w].at), LAMBDA v, x : v.item < x.item) :
          Continue(w, "annotation",
             [n \in 1..Len(ordered) |->
                [item |-> ordered[n].item, basis |-> ordered[n].revision,
                 version |-> job[w].more.version,
                 currencies |-> ordered[n].content.currencies \ job[w].more.overlooks]])
    /\ UNCHANGED <<plan, now, tables, made, echo>>

AnnotationsOf(i) == {a \in annotations : a.item = i}

\* latest_annotation_for_item
ReadAnnotation(w) ==
    /\ pc[w] = "annotation"
    /\ LET latest == Newest(AnnotationsOf(Next1(w).item))
       IN \/ /\ \E l \in latest : job[w].at < l.availability
             /\ End(w, "OUT_OF_ORDER")
          \/ /\ ~\E l \in latest : job[w].at < l.availability
             /\ held' = [held EXCEPT ![w] = IF latest = {} THEN NoRow
                                            ELSE CHOOSE l \in latest : TRUE]
             /\ Goto(w, "history")
             /\ UNCHANGED <<job, todo, outcome>>
    /\ UNCHANGED <<plan, now, tables, made, echo>>

\* list_annotation_vintages_for_item: the determinism check, then whether the
\* latest row already rests on this basis and version.
ReadHistory(w) ==
    /\ pc[w] = "history"
    /\ LET c == Next1(w)
           SameBasis(a) == a.basis = c.basis /\ a.version = c.version
           contradicted == \E a \in AnnotationsOf(c.item) :
                              SameBasis(a) /\ a.currencies # c.currencies
           repeated == held[w] # NoRow /\ SameBasis(held[w])
       IN \/ contradicted /\ End(w, "DETERMINISM")
          \/ ~contradicted /\ repeated /\ Continue(w, "annotation", Tail(todo[w]))
          \/ /\ ~contradicted /\ ~repeated
             /\ Goto(w, "annotate")
             /\ UNCHANGED <<job, todo, held, outcome>>
    /\ UNCHANGED <<plan, now, tables, made, echo>>

\* add_annotation_vintage
AddAnnotation(w) ==
    /\ pc[w] = "annotate"
    /\ LET c == Next1(w)
           row == [item |-> c.item, revision |-> Revision(w), availability |-> job[w].at,
                   basis |-> c.basis, version |-> c.version, currencies |-> c.currencies]
           taken == {a \in AnnotationsOf(c.item) : a.revision = row.revision}
       IN \/ /\ taken \subseteq {row}
             /\ annotations' = annotations \cup {row}
             /\ Continue(w, "annotation", Tail(todo[w]))
          \/ /\ ~(taken \subseteq {row})
             /\ End(w, "ANNOTATION_CONFLICT")
             /\ UNCHANGED annotations
    /\ UNCHANGED <<plan, now, vintages, relations, made, echo>>

PipelineStep(w) ==
    \/ StartIngestion(w) \/ Fetch(w) \/ Record(w)
    \/ StartCanonicalization(w) \/ ReadPairs(w) \/ StartReview(w)
    \/ ReadRelation(w) \/ AddRelation(w)
    \/ StartClassification(w) \/ ReadItems(w)
    \/ ReadAnnotation(w) \/ ReadHistory(w) \/ AddAnnotation(w)

-----------------------------------------------------------------------------
(* What the readers of the tables rely on.                                 *)

\* Rows numbered from zero without gap, in time order.
History(rows) ==
    \A r \in rows : /\ r.revision \in 0..(Cardinality(rows) - 1)
                    /\ \A x \in rows : /\ x.revision = r.revision => x = r
                                       /\ x.revision < r.revision
                                            => x.availability <= r.availability

\* Every item, pair and annotated item has such a history, under whatever passes
\* run at once.
NewsHistories ==
    /\ \A v \in vintages : History(VintagesOf(v.item))
    /\ \A r \in relations : History(RelationsOf(r))
    /\ \A a \in annotations : History(AnnotationsOf(a.item))

\* Once a reviewer has separated two items no automatic pass joins them again,
\* not even one that had read the pair before the verdict
\* (record_news_canonical_relation.py:19-25).
ReviewsStand ==
    \A r \in relations : r.method = "AUTOMATIC" =>
       ~\E h \in RelationsOf(r) : h.kind = "NOT_SAME_STORY" /\ h.revision < r.revision

Known(i, n, t) == \E v \in VintagesOf(i) : v.revision = n /\ v.availability <= t

\* Relations and annotations rest on revisions that were known at the instant
\* they claim, although they were read and written later.
JudgementsHaveEvidence ==
    /\ \A r \in relations : /\ Known(r.left, r.bases[1], r.availability)
                            /\ Known(r.right, r.bases[2], r.availability)
    /\ \A a \in annotations : Known(a.item, a.basis, a.availability)

\* What an ingestion run has recorded can be observed again without a new
\* revision, as long as no other run was in between.
ObservationsStand == \A o \in echo.observations : Repeated(o)
=============================================================================

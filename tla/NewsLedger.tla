----------------------------- MODULE NewsLedger -----------------------------
(***************************************************************************)
(* RecordNewsObservation over SqlAlchemyNewsRepository: several ingestion  *)
(* runs record observations of the same source items at the same time,     *)
(* each in its own database session (READ COMMITTED).                      *)
(*                                                                         *)
(* One worker is one call of RecordNewsObservation.  Its awaits are the    *)
(* steps: look the identity up; insert item and mapping; insert revision 0 *)
(* and commit; or list the stored revisions and decide; append a revision. *)
(* What a session has not committed is visible to nobody, but an           *)
(* uncommitted mapping row makes a conflicting insert wait.                *)
(***************************************************************************)
EXTENDS Naturals, FiniteSets

CONSTANTS Identities,   \* (source_key, external_item_id) pairs
          Keys,         \* news item keys that can be minted
          Workers,      \* concurrent calls
          Contents,     \* the modelled facts other than the channels
          Channels,     \* publisher channels
          MaxTime,      \* bound on the clock
          MaxObservations, \* bound on the calls made
          NoKey, NoRow, NoObs

Times == 0 .. MaxTime

Observation == [identity : Identities, at : Times,
                content : Contents, channel : Channels]

Item == [key : Keys, first_seen_at : Times]

\* A row of news_item_vintages.
Vintage == [key : Keys, revision : Nat, availability : Times,
            content : Contents, channel : Channels,
            channels : SUBSET Channels]

ASSUME NewsAssumption ==
    /\ MaxTime \in Nat
    /\ MaxObservations \in Nat
    /\ NoKey \notin Keys
    /\ NoRow \notin Vintage
    /\ NoObs \notin Observation

VARIABLES now,       \* the clock the adapters stamp observations with
          mapping,   \* committed news_source_mappings rows
          items,     \* committed news_items rows
          vintages,  \* committed news_item_vintages rows
          pc, obs,   \* per worker: next await, the observation it records
          key,       \* per worker: candidate or resolved item key
          latest,    \* per worker: the latest revision it read
          outcome,   \* per worker: what its last call returned or raised
          started    \* calls made so far

store == <<mapping, items, vintages>>
vars  == <<now, mapping, items, vintages, pc, obs, key, latest, outcome, started>>

Recorded == {"CREATED", "REVISION_ADDED", "UNCHANGED"}
Reported == Recorded \cup {"NONE", "OUT_OF_ORDER", "CONFLICT", "FAILED"}
Steps    == {"idle", "lookup", "insert", "first_vintage", "list", "add"}

RowsOf(k) == {v \in vintages : v.key = k}

\* Workers whose uncommitted transaction holds a mapping row of identity i.
Holders(i) == {w \in Workers : pc[w] = "first_vintage" /\ obs[w].identity = i}

\* Mutant: equality that looks at the content only.
FactsWithoutChannels(v) == <<v.content, {}>>

\* _modeled_facts: availability and the single source_channel are left out.
Facts(v) == <<v.content, v.channels>>

\* _build_vintage for observation o.
BuildVintage(k, o, rev, chans) ==
    [key |-> k, revision |-> rev, availability |-> o.at,
     content |-> o.content, channel |-> o.channel, channels |-> chans]

\* _latest_by_revision, as a predicate of the row it returns.
IsLatest(l, k) == l \in RowsOf(k) /\ \A v \in RowsOf(k) : v.revision <= l.revision

\* The revision an observation is compared with, and appended as, after l.
Candidate(l, o) ==
    BuildVintage(l.key, o, l.revision + 1, l.channels \cup {o.channel})

\* NewsObservationOutOfOrderError: o claims to be older than what is stored.
OutOfOrder(o, l) == o.at < l.availability

\* Mutant: no unique (key, revision) constraint, only whole rows collide.
SameRow(v) == {v} \cap vintages

\* The row that makes the insert of v collide.
Stored(v) == {e \in RowsOf(v.key) : e.revision = v.revision}

\* The call returns or raises r; nothing of the session survives.
Finish(w, r) ==
    /\ pc' = [pc EXCEPT ![w] = "idle"]
    /\ key' = [key EXCEPT ![w] = NoKey]
    /\ latest' = [latest EXCEPT ![w] = NoRow]
    /\ outcome' = [outcome EXCEPT ![w] = r]

Goto(w, step) == pc' = [pc EXCEPT ![w] = step]

-----------------------------------------------------------------------------
Init ==
    /\ now = 0
    /\ mapping = [i \in Identities |-> NoKey]
    /\ items = {}
    /\ vintages = {}
    /\ pc = [w \in Workers |-> "idle"]
    /\ obs = [w \in Workers |-> NoObs]
    /\ key = [w \in Workers |-> NoKey]
    /\ latest = [w \in Workers |-> NoRow]
    /\ outcome = [w \in Workers |-> "NONE"]
    /\ started = 0

Tick ==
    /\ now < MaxTime
    /\ now' = now + 1
    /\ UNCHANGED <<store, pc, obs, key, latest, outcome, started>>

\* A run has fetched an item, stamped with the retrieval instant, and calls
\* RecordNewsObservation with it, perhaps much later: other runs, and the
\* clock, may move on before each of the steps below.
Start(w) ==
    /\ pc[w] = "idle"
    /\ started < MaxObservations
    /\ \E i \in Identities, c \in Contents, ch \in Channels :
          obs' = [obs EXCEPT ![w] =
                    [identity |-> i, at |-> now, content |-> c, channel |-> ch]]
    /\ Goto(w, "lookup")
    /\ outcome' = [outcome EXCEPT ![w] = "NONE"]
    /\ started' = started + 1
    /\ UNCHANGED <<now, store, key, latest>>

Minted(k) == \/ \E item \in items : item.key = k
             \/ \E w \in Workers : key[w] = k

\* register_source_item_with_first_vintage reads the mapping: the identity is
\* known (ALREADY_EXISTS), or a candidate key is minted.
LookupIdentity(w) ==
    /\ pc[w] = "lookup"
    /\ LET known == mapping[obs[w].identity] IN
       \/ /\ known # NoKey
          /\ key' = [key EXCEPT ![w] = known]
          /\ Goto(w, "list")
       \/ /\ known = NoKey
          /\ \E k \in Keys : ~Minted(k) /\ key' = [key EXCEPT ![w] = k]
          /\ Goto(w, "insert")
    /\ UNCHANGED <<now, store, obs, latest, outcome, started>>

\* Mutant: item and mapping are committed before revision 0 is written.
CommitItemFirst(w) ==
    /\ pc[w] = "insert"
    /\ mapping[obs[w].identity] = NoKey
    /\ items' = items \cup {[key |-> key[w], first_seen_at |-> obs[w].at]}
    /\ mapping' = [mapping EXCEPT ![obs[w].identity] = key[w]]
    /\ Goto(w, "first_vintage")
    /\ UNCHANGED <<now, vintages, obs, key, latest, outcome, started>>

\* Mutant: a session that lost the race never resolves to the winner.
InsertOrWait(w) ==
    /\ pc[w] = "insert"
    /\ Holders(obs[w].identity) = {}
    /\ mapping[obs[w].identity] = NoKey
    /\ Goto(w, "first_vintage")
    /\ UNCHANGED <<now, store, obs, key, latest, outcome, started>>

\* _insert_item_and_mapping: waits while another session holds the identity
\* uncommitted.  If that session committed, this one lost: it rolls back its
\* candidate and resolves to the winner.
InsertItemAndMapping(w) ==
    /\ pc[w] = "insert"
    /\ Holders(obs[w].identity) = {}
    /\ LET winner == mapping[obs[w].identity] IN
       \/ /\ winner = NoKey
          /\ Goto(w, "first_vintage")
          /\ UNCHANGED key
       \/ /\ winner # NoKey
          /\ key' = [key EXCEPT ![w] = winner]
          /\ Goto(w, "list")
    /\ UNCHANGED <<now, store, obs, latest, outcome, started>>

\* The winner inserts revision 0 in the same transaction and commits item,
\* mapping and revision together.
CommitFirstVintage(w) ==
    LET o == obs[w] IN
    /\ pc[w] = "first_vintage"
    /\ items' = items \cup {[key |-> key[w], first_seen_at |-> o.at]}
    /\ mapping' = [mapping EXCEPT ![o.identity] = key[w]]
    /\ vintages' = vintages \cup {BuildVintage(key[w], o, 0, {o.channel})}
    /\ Finish(w, "CREATED")
    /\ UNCHANGED <<now, obs, started>>

\* list_vintages, and the decisions taken on its answer before the next await:
\* order first, then equality of the facts.
ListVintages(w) ==
    /\ pc[w] = "list"
    /\ \E l \in vintages :
       /\ IsLatest(l, key[w])
       /\ \/ /\ OutOfOrder(obs[w], l)
             /\ Finish(w, "OUT_OF_ORDER")
          \/ /\ ~OutOfOrder(obs[w], l)
             /\ Facts(Candidate(l, obs[w])) = Facts(l)
             /\ Finish(w, "UNCHANGED")
          \/ /\ ~OutOfOrder(obs[w], l)
             /\ Facts(Candidate(l, obs[w])) # Facts(l)
             /\ latest' = [latest EXCEPT ![w] = l]
             /\ Goto(w, "add")
             /\ UNCHANGED <<key, outcome>>
    /\ UNCHANGED <<now, store, obs, started>>

\* add_vintage: INSERT ... ON CONFLICT (key, revision) DO NOTHING and commit;
\* a row already there is either this very one or somebody else's.
AddVintage(w) ==
    LET v == Candidate(latest[w], obs[w]) IN
    /\ pc[w] = "add"
    /\ \/ /\ Stored(v) = {}
          /\ vintages' = vintages \cup {v}
          /\ Finish(w, "REVISION_ADDED")
       \/ /\ v \in Stored(v)
          /\ Finish(w, "UNCHANGED")
          /\ UNCHANGED vintages
       \/ /\ \E e \in Stored(v) : e # v
          /\ Finish(w, "CONFLICT")
          /\ UNCHANGED vintages
    /\ UNCHANGED <<now, mapping, items, obs, started>>

\* Any failure before a commit (a failing statement, a lost connection, the
\* death of the process): the transaction is rolled back, the caller gets an
\* exception or is gone.
Abort(w) ==
    /\ pc[w] # "idle"
    /\ Finish(w, "FAILED")
    /\ UNCHANGED <<now, store, obs, started>>

Step(w) == \/ LookupIdentity(w) \/ InsertItemAndMapping(w)
           \/ CommitFirstVintage(w) \/ ListVintages(w) \/ AddVintage(w)

Next == Tick \/ \E w \in Workers : Start(w) \/ Step(w) \/ Abort(w)

Spec == Init /\ [][Next]_vars

\* The event loop and the database serve every call that can proceed.
FairSpec == Spec /\ \A w \in Workers : WF_vars(Step(w))

-----------------------------------------------------------------------------
(* Properties.                                                             *)

\* Every variable keeps its type.
TypeOK ==
    /\ now \in Times
    /\ mapping \in [Identities -> Keys \cup {NoKey}]
    /\ items \subseteq Item
    /\ vintages \subseteq Vintage
    /\ pc \in [Workers -> Steps]
    /\ obs \in [Workers -> Observation \cup {NoObs}]
    /\ key \in [Workers -> Keys \cup {NoKey}]
    /\ latest \in [Workers -> Vintage \cup {NoRow}]
    /\ outcome \in [Workers -> Reported]
    /\ started \in 0 .. MaxObservations

\* Item, mapping and first revision exist together or not at all: every item
\* has exactly one identity and a revision 0 whose availability is the item's
\* first_seen_at, however the creating calls raced, failed or died.
FirstObservationAtomic ==
    /\ \A i \in Identities : mapping[i] # NoKey =>
          \E item \in items : item.key = mapping[i]
    /\ \A item \in items :
          /\ \E i \in Identities : mapping[i] = item.key
          /\ \E v \in RowsOf(item.key) :
                v.revision = 0 /\ v.availability = item.first_seen_at
    /\ \A v \in vintages : \E item \in items : item.key = v.key
    /\ \A i, j \in Identities : mapping[i] = mapping[j] => i = j \/ mapping[i] = NoKey

\* The revisions of an item are numbered from 0 without gap or repeat, later
\* revisions are not earlier in time, only ever learn channels, and each says
\* something its predecessor did not.
HistoryWellFormed ==
    \A v \in vintages :
       /\ \A n \in 0 .. v.revision : \E e \in RowsOf(v.key) : e.revision = n
       /\ v.channel \in v.channels
       /\ \A e \in RowsOf(v.key) :
             /\ e.revision = v.revision => e = v
             /\ e.revision < v.revision =>
                   e.availability <= v.availability /\ e.channels \subseteq v.channels
             /\ e.revision + 1 = v.revision => Facts(e) # Facts(v)

\* A call that reported success left a row of its item that says what was
\* observed and was available no later than it was observed, even if a
\* concurrent call is the one that wrote it.
NoLostObservation ==
    \A w \in Workers : pc[w] = "idle" /\ outcome[w] \in Recorded =>
       \E v \in vintages :
          /\ v.key = mapping[obs[w].identity]
          /\ v.content = obs[w].content
          /\ obs[w].channel \in v.channels
          /\ v.availability <= obs[w].at

\* What a call holds between its awaits stays true of the store while other
\* calls move it: a candidate key belongs to nobody else, an identity whose
\* mapping is being written is unmapped and in no other transaction, a resolved
\* key is the mapped one, and a remembered latest revision is still stored.
WorkerConsistent(w) ==
    /\ pc[w] # "idle" \/ outcome[w] \in Recorded => obs[w] \in Observation
    /\ pc[w] \in {"insert", "first_vintage"} =>
          /\ key[w] \in Keys
          /\ \A item \in items : item.key # key[w]
          /\ \A i \in Identities : mapping[i] # key[w]
          /\ \A v \in vintages : v.key # key[w]
          /\ \A u \in Workers \ {w} : key[u] # key[w]
    /\ pc[w] = "first_vintage" =>
          /\ mapping[obs[w].identity] = NoKey
          /\ Holders(obs[w].identity) = {w}
    /\ pc[w] \in {"list", "add"} =>
          /\ key[w] \in Keys
          /\ key[w] = mapping[obs[w].identity]
    /\ pc[w] = "add" =>
          /\ latest[w] \in RowsOf(key[w])
          /\ ~OutOfOrder(obs[w], latest[w])
          /\ Facts(Candidate(latest[w], obs[w])) # Facts(latest[w])

WorkersConsistent == \A w \in Workers : WorkerConsistent(w)

\* Once something later than t is recorded about an item, what was visible of
\* it at t never changes again: a stale call that read its "latest" before a
\* newer observation was stored cannot slip a revision in behind it.
Visible(k, t) == {v \in RowsOf(k) : v.availability <= t}

PastIsFrozen ==
    [][\A k \in Keys, t \in Times :
          (\E v \in RowsOf(k) : v.availability > t)
             => Visible(k, t)' = Visible(k, t)]_vars

\* Every call returns or raises, and no two sessions wait on each other.
EveryCallEnds ==
    \A w \in Workers : pc[w] # "idle" ~> pc[w] = "idle"

\* The committed rows as the entries of a VintageLedger.
Entries == {[subject |-> v.key, revision |-> v.revision,
             availability |-> v.availability, payload |-> Facts(v)] : v \in vintages}
=============================================================================

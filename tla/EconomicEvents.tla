--------------------------- MODULE EconomicEvents ---------------------------
(***************************************************************************)
(* The economic calendar: what polls of official sources make of it, and   *)
(* what a reader is told.                                                  *)
(*   IngestOfficialCalendarSchedule  finds or registers the occurrence an  *)
(*                    item stands for, and appends to its schedule;        *)
(*   IngestOfficialCalendarRelease   does so for evidence of a release,    *)
(*                    which it first seeks a scheduled occurrence for;     *)
(*   GetEventRiskEvidenceSnapshot    lists, as of an instant, the events   *)
(*                    ahead and those just released.                       *)
(* Every await commits, so a poll that fails leaves what it did so far, and *)
(* two polls of one source meet anywhere.                                  *)
(*                                                                         *)
(* A fact is a [date, time] with a status if it is a schedule; time is {}  *)
(* if only the date is known.  The group of an occurrence is {} or {item}. *)
(***************************************************************************)
EXTENDS Integers, FiniteSets, Sequences, SequencesExt

CONSTANTS
    Indicators,           \* the canonical ones
    Schedules, Releases,  \* the responses of the two kinds of source
    Relevant,             \* the indicators of the pair asked about
    Day,                  \* instants in a day
    Lookahead, Lookback,
    Workers, MaxPolls, MaxTime,
    NoPoll

VARIABLES
    now,
    occurrences, mapping, schedules, releases,  \* committed rows
    pc,       \* per worker, the await its poll is at
    poll,     \* the kind of its poll, and the instant it observed at
    todo,     \* what is left of the response
    key,      \* the occurrence found for the first of it
    unread,   \* candidates whose schedule is still to be read
    matches,  \* candidates scheduled for the day of the release
    held,     \* the latest vintage read, if any
    made,     \* polls started
    reported  \* members of packages a poll has reported on

ScheduleFact == [date : Int, time : SUBSET Int, status : {"SCHEDULED", "POSTPONED", "CANCELLED"}]
ReleaseFact  == [date : Int, time : SUBSET Int]

\* What adapters report: an item, the indicators it is about, and the fact.
RawScheduleObservation == [item : STRING, indicators : Seq(STRING), fact : ScheduleFact]
RawReleaseObservation  == [item : STRING, indicators : Seq(STRING), fact : ReleaseFact]

tables == <<occurrences, mapping, schedules, releases>>
calls  == <<key, unread, matches, held>>
vars   == <<now, tables, pc, poll, todo, calls, made, reported>>

ASSUME CalendarAssumption ==
    /\ MaxPolls \in Nat /\ MaxTime \in Nat
    /\ Day \in Nat \ {0} /\ Lookahead \in Nat /\ Lookback \in Nat
    /\ Relevant \subseteq Indicators
    /\ Schedules \subseteq Seq(RawScheduleObservation)
    /\ Releases \subseteq Seq(RawReleaseObservation)

\* A source names its items itself, and no source is of both kinds.
ASSUME NamespaceAssumption ==
    \A s \in Schedules, r \in Releases : \A m \in 1..Len(s), n \in 1..Len(r) :
        s[m].item # r[n].item

Init ==
    /\ now = 0
    /\ occurrences = {} /\ mapping = {} /\ schedules = {} /\ releases = {}
    /\ pc = [w \in Workers |-> "idle"]
    /\ poll = [w \in Workers |-> NoPoll]
    /\ todo = [w \in Workers |-> <<>>]
    /\ key = [w \in Workers |-> 0]
    /\ unread = [w \in Workers |-> {}]
    /\ matches = [w \in Workers |-> {}]
    /\ held = [w \in Workers |-> {}]
    /\ made = 0
    /\ reported = {}

Tick ==
    /\ now < MaxTime
    /\ now' = now + 1
    /\ UNCHANGED <<tables, pc, poll, todo, calls, made, reported>>

-----------------------------------------------------------------------------
(* Control.                                                                *)

\* A response taken apart: one entry per indicator of each observation, those
\* that no canonical indicator stands for passed over.
Entries(response) ==
    FlattenSeq([n \in 1..Len(response) |->
        LET o == response[n]
            Of(i) == [item |-> o.item, indicator |-> i, fact |-> o.fact,
                      package |-> Len(o.indicators) > 1]
        IN FlattenSeq([m \in 1..Len(o.indicators) |->
              IF o.indicators[m] \in Indicators THEN <<Of(o.indicators[m])>> ELSE <<>>])])

\* A response with nothing to take apart is no poll: the call returns at once.
Start(w, kind, response) ==
    /\ pc[w] = "idle" /\ made < MaxPolls
    /\ Entries(response) # <<>>
    /\ made' = made + 1
    /\ pc' = [pc EXCEPT ![w] = "lookup"]
    /\ poll' = [poll EXCEPT ![w] = [kind |-> kind, at |-> now]]
    /\ todo' = [todo EXCEPT ![w] = Entries(response)]
    /\ UNCHANGED <<now, tables, calls, reported>>

StartSchedulePoll(w) == \E r \in Schedules : Start(w, "SCHEDULE", r)
StartReleasePoll(w)  == \E r \in Releases : Start(w, "RELEASE", r)

Entry(w) == Head(todo[w])

Goto(w, step) ==
    /\ pc' = [pc EXCEPT ![w] = step]
    /\ UNCHANGED <<poll, todo, reported>>

Forget(w) ==
    /\ key' = [key EXCEPT ![w] = 0]
    /\ unread' = [unread EXCEPT ![w] = {}]
    /\ matches' = [matches EXCEPT ![w] = {}]
    /\ held' = [held EXCEPT ![w] = {}]

\* The poll returns or raises: what it has committed stays.
End(w) ==
    /\ pc' = [pc EXCEPT ![w] = "idle"]
    /\ poll' = [poll EXCEPT ![w] = NoPoll]
    /\ todo' = [todo EXCEPT ![w] = <<>>]
    /\ Forget(w)

Fail(w) == End(w) /\ UNCHANGED reported

\* The result of an entry, and the next one.
Advance(w) ==
    /\ reported' = reported \cup
         (IF Entry(w).package /\ poll[w].kind = "SCHEDULE"
          THEN {[item |-> Entry(w).item, key |-> key[w]]} ELSE {})
    /\ IF Len(todo[w]) = 1 THEN End(w)
       ELSE /\ pc' = [pc EXCEPT ![w] = "lookup"]
            /\ todo' = [todo EXCEPT ![w] = Tail(@)]
            /\ Forget(w)
            /\ UNCHANGED poll

\* The database is lost at an await, or the task cancelled.
Abort(w) ==
    /\ pc[w] # "idle"
    /\ Fail(w)
    /\ UNCHANGED <<now, tables, made>>

-----------------------------------------------------------------------------
(* _resolve_occurrence_key.                                                *)

MappedTo(e) == {m.key : m \in {x \in mapping : x.item = e.item /\ x.indicator = e.indicator}}

\* get_occurrence_key
Lookup(w) ==
    /\ pc[w] = "lookup"
    /\ LET e == Entry(w)
       IN \/ /\ MappedTo(e) = {}
             /\ Goto(w, IF poll[w].kind = "SCHEDULE" THEN "register" ELSE "candidates")
             /\ UNCHANGED key
          \/ \E k \in MappedTo(e) :
                /\ key' = [key EXCEPT ![w] = k]
                /\ Goto(w, IF poll[w].kind = "SCHEDULE" /\ e.package THEN "occurrence"
                           ELSE "history")
    /\ UNCHANGED <<now, tables, unread, matches, held, made>>

\* Mutant: only a new occurrence is given its group.
NeverUngrouped(o) == FALSE

Ungrouped(o) == o.group = {}

\* get_occurrence, of a known member of a package.
ReadOccurrence(w) ==
    /\ pc[w] = "occurrence"
    /\ \E o \in occurrences :
          o.key = key[w] /\ Goto(w, IF Ungrouped(o) THEN "attach" ELSE "history")
    /\ UNCHANGED <<now, tables, calls, made>>

\* attach_release_group: a conditional update, and a look at what was there.  That
\* is never another group: the group is the item, and an occurrence is mapped to
\* by one item of a schedule at most.
AttachGroup(w) ==
    /\ pc[w] = "attach"
    /\ LET group == {Entry(w).item}
       IN \E o \in occurrences :
            /\ o.key = key[w]
            /\ o.group \in {{}, group}
            /\ occurrences' = (occurrences \ {o}) \cup {[o EXCEPT !.group = group]}
    /\ Goto(w, "history")
    /\ UNCHANGED <<now, mapping, schedules, releases, calls, made>>

\* list_occurrences_for_indicator
ReadCandidates(w) ==
    /\ pc[w] = "candidates"
    /\ LET found == {o.key : o \in {x \in occurrences : x.indicator = Entry(w).indicator}}
       IN /\ unread' = [unread EXCEPT ![w] = found]
          /\ Goto(w, IF found = {} THEN "register" ELSE "candidate")
    /\ UNCHANGED <<now, tables, key, matches, held, made>>

OfOccurrence(rows, k) == {r \in rows : r.key = k}
Latest(rows) == {r \in rows : \A x \in rows : x.revision <= r.revision}

\* list_all_schedule_vintages of one candidate after another; with the last, one
\* match is the occurrence released, none calls for a new one, and more than one
\* for nothing at all.
ReadCandidate(w) ==
    /\ pc[w] = "candidate"
    /\ \E k \in unread[w] :
         LET e == Entry(w)
             due == \E s \in Latest(OfOccurrence(schedules, k)) : s.fact.date = e.fact.date
             found == matches[w] \cup {m \in {k} : due}
         IN IF unread[w] # {k}
            THEN /\ unread' = [unread EXCEPT ![w] = @ \ {k}]
                 /\ matches' = [matches EXCEPT ![w] = found]
                 /\ UNCHANGED <<pc, poll, todo, key, held, reported>>
            ELSE IF Cardinality(found) > 1 THEN Advance(w)
            ELSE /\ key' = [key EXCEPT ![w] = IF found = {} THEN 0 ELSE CHOOSE m \in found : TRUE]
                 /\ unread' = [unread EXCEPT ![w] = {}]
                 /\ Goto(w, IF found = {} THEN "register" ELSE "map")
                 /\ UNCHANGED <<matches, held>>
    /\ UNCHANGED <<now, tables, made>>

\* mint_occurrence_key: a key no occurrence has ever had.
Minted == Cardinality(occurrences) + 1

\* add_occurrence
Register(w) ==
    /\ pc[w] = "register"
    /\ LET e == Entry(w)
       IN occurrences' = occurrences \cup
            {[key |-> Minted, indicator |-> e.indicator,
              group |-> {i \in {e.item} : e.package /\ poll[w].kind = "SCHEDULE"}]}
    /\ key' = [key EXCEPT ![w] = Minted]
    /\ Goto(w, "map")
    /\ UNCHANGED <<now, mapping, schedules, releases, unread, matches, held, made>>

\* Mutant: a mapping that is there already is as good as one's own.
AnyMapping(e, k) == TRUE

\* A repeated mapping is no conflict if it leads to the same occurrence.
SameMapping(e, k) == MappedTo(e) = {k}

\* record_mapping
RecordMapping(w) ==
    /\ pc[w] = "map"
    /\ LET e == Entry(w)
       IN \/ /\ MappedTo(e) = {}
             /\ mapping' = mapping \cup
                  {[item |-> e.item, indicator |-> e.indicator, key |-> key[w]]}
             /\ Goto(w, "history")
             /\ UNCHANGED calls
          \/ /\ MappedTo(e) # {} /\ UNCHANGED mapping
             /\ \/ SameMapping(e, key[w]) /\ Goto(w, "history") /\ UNCHANGED calls
                \/ ~SameMapping(e, key[w]) /\ Fail(w)
    /\ UNCHANGED <<now, occurrences, schedules, releases, made>>

-----------------------------------------------------------------------------
(* _ingest_indicator and _ingest_release_vintage.                          *)

Rows(w) == IF poll[w].kind = "SCHEDULE" THEN schedules ELSE releases

\* list_all_schedule_vintages or list_all_release_vintages: the fact is already
\* the latest, or is to be appended.
ReadHistory(w) ==
    /\ pc[w] = "history"
    /\ LET latest == Latest(OfOccurrence(Rows(w), key[w]))
       IN IF \E l \in latest : l.fact = Entry(w).fact THEN Advance(w)
          ELSE /\ held' = [held EXCEPT ![w] = latest]
               /\ Goto(w, "add")
               /\ UNCHANGED <<key, unread, matches>>
    /\ UNCHANGED <<now, tables, made>>

\* Mutant: the number is taken when the row is written.
NumberNow(w) == Cardinality(OfOccurrence(Rows(w), key[w]))

NextRevision(w) == IF held[w] = {} THEN 0 ELSE (CHOOSE l \in held[w] : TRUE).revision + 1

\* add_schedule_vintage or add_release_vintage: a row that is there already is a
\* conflict unless it is this very one.
AddVintage(w) ==
    /\ pc[w] = "add"
    /\ LET e == Entry(w)
           row == [key |-> key[w], revision |-> NextRevision(w), fact |-> e.fact,
                   availability |-> poll[w].at, item |-> e.item]
           taken == {r \in OfOccurrence(Rows(w), key[w]) : r.revision = row.revision}
       IN \/ /\ taken \subseteq {row}
             /\ IF poll[w].kind = "SCHEDULE"
                THEN schedules' = schedules \cup {row} /\ UNCHANGED releases
                ELSE releases' = releases \cup {row} /\ UNCHANGED schedules
             /\ Advance(w)
          \/ /\ ~(taken \subseteq {row})
             /\ Fail(w)
             /\ UNCHANGED <<schedules, releases>>
    /\ UNCHANGED <<now, occurrences, mapping, made>>

Step(w) ==
    \/ StartSchedulePoll(w) \/ StartReleasePoll(w)
    \/ Lookup(w) \/ ReadOccurrence(w) \/ AttachGroup(w)
    \/ ReadCandidates(w) \/ ReadCandidate(w) \/ Register(w) \/ RecordMapping(w)
    \/ ReadHistory(w) \/ AddVintage(w) \/ Abort(w)

Next == Tick \/ \E w \in Workers : Step(w)

Spec == Init /\ [][Next]_vars

-----------------------------------------------------------------------------
(* GetEventRiskEvidenceSnapshot.                                           *)

\* Mutant: a reader is given the latest vintage there is.
LatestOfAll(rows, t) == {r \in rows : r \in Latest(OfOccurrence(rows, r.key))}

\* schedule_as_of and release_as_of, of every occurrence at once.
VisibleAt(rows, t) ==
    {r \in rows : /\ r.availability <= t
                  /\ \A x \in OfOccurrence(rows, r.key) :
                        \/ x.availability > t
                        \/ x.availability < r.availability
                        \/ x.availability = r.availability /\ x.revision <= r.revision}

\* schedule_within_window and release_within_window: an exact instant is within,
\* or the day overlaps.
Within(fact, from, to) ==
    LET midnight == fact.date * Day
    IN \/ \E h \in fact.time : from <= midnight + h /\ midnight + h < to
       \/ fact.time = {} /\ midnight < to /\ midnight + Day > from

IndicatorOf(k) == (CHOOSE o \in occurrences : o.key = k).indicator
GroupOf(k) == LET o == CHOOSE x \in occurrences : x.key = k
              IN [group |-> o.group, alone |-> {j \in {k} : o.group = {}}]

\* known_events_in_window and known_releases_in_window
Ahead(t)  == {r \in VisibleAt(schedules, t) : Within(r.fact, t, t + Lookahead)}
Behind(t) == {r \in VisibleAt(releases, t) : Within(r.fact, t - Lookback, t)}

\* The evidence of a snapshot: of the pair's indicators only.
Evidence(t) ==
    LET ForPair(rows) == {r \in rows : IndicatorOf(r.key) \in Relevant}
    IN [upcoming |-> ForPair(Ahead(t)), recent |-> ForPair(Behind(t))]

\* group_schedule_evidence and group_release_evidence
Groups(evidence) ==
    {{r \in evidence : GroupOf(r.key) = g} : g \in {GroupOf(x.key) : x \in evidence}}

-----------------------------------------------------------------------------
(* Properties.                                                             *)

Times == 0..MaxTime
Steps == {"idle", "lookup", "occurrence", "attach", "candidates", "candidate",
          "register", "map", "history", "add"}

Occurrence == [key : Nat \ {0}, indicator : Indicators, group : SUBSET STRING]

\* Keys and revisions are taken once, and mappings lead to one occurrence each.
TypeOK ==
    /\ now \in Times /\ made \in 0..MaxPolls /\ pc \in [Workers -> Steps]
    /\ occurrences \subseteq Occurrence
    /\ \A o, p \in occurrences : o.key = p.key => o = p
    /\ \A m, n \in mapping : m.item = n.item /\ m.indicator = n.indicator => m = n
    /\ \A r \in schedules : r.fact \in ScheduleFact
    /\ \A r \in releases : r.fact \in ReleaseFact
    /\ \A rows \in {schedules, releases} : \A r, x \in rows :
          /\ r.availability \in Times
          /\ r.key = x.key /\ r.revision = x.revision => r = x

\* Whatever a source has said of one item and indicator is about one occurrence,
\* although two polls may register one each before either has recorded the
\* mapping, or die in between: an occurrence that lost, or was left, without its
\* mapping never gets a schedule or a release, so no reader sees it.
OneOccurrencePerItem ==
    \A r \in schedules \cup releases :
        [item |-> r.item, indicator |-> IndicatorOf(r.key), key |-> r.key] \in mapping

\* The members of a package that polls have reported on are listed as one event
\* in every snapshot, although each was registered and grouped in transactions of
\* its own, perhaps by a poll that saw fewer indicators or that died.
PackagesAreOneEvent ==
    \A t \in Times : LET listed == Evidence(t).upcoming IN \A r \in listed, x \in listed :
        (\E m \in reported, n \in reported : m.item = n.item /\ m.key = r.key /\ n.key = x.key)
          => \E g \in Groups(listed) : {r, x} \subseteq g

\* Repeated polls add nothing: no vintage says what the one before it says, also
\* if two polls found the same news at once.
RepeatsAddNothing ==
    \A rows \in {schedules, releases} : \A r \in rows :
        r.revision > 0 =>
            \E x \in OfOccurrence(rows, r.key) : x.revision = r.revision - 1 /\ x.fact # r.fact

Settled(t) == t < now /\ \A w \in Workers : pc[w] = "idle" \/ poll[w].at > t

\* What a snapshot as of an instant lists never changes once no poll that observed
\* at or before it is still writing.  (How it is grouped may: the group of an
\* occurrence carries no date.)
SettledEventsStand ==
    [][\A t \in Times : Settled(t) => Evidence(t)' = Evidence(t)]_vars
=============================================================================

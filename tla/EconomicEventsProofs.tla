------------------------ MODULE EconomicEventsProofs ------------------------
(***************************************************************************)
(* That every vintage of the calendar is about the occurrence its item is  *)
(* mapped to, that packages stay one event, that polls repeat nothing and  *)
(* that what readers were told stands, proved for any responses and any    *)
(* number of polls at a time.                                              *)
(*                                                                         *)
(* The argument: a poll that goes on after the mapping has read or written *)
(* it, and mappings are never taken back; the item of a schedule that is   *)
(* recording a mapping owns an occurrence no other item of a schedule was  *)
(* or will be mapped to, for only items of releases are mapped to          *)
(* occurrences that were there before, and no item is both.                *)
(***************************************************************************)
EXTENDS EconomicEvents, FiniteSetTheorems, WellFoundedInduction, TLAPS

\* The items of responses, and the entries they are taken apart into.
ScheduleItems == {i \in STRING : \E r \in Schedules : \E n \in 1..Len(r) : r[n].item = i}
ReleaseItems  == {i \in STRING : \E r \in Releases : \E n \in 1..Len(r) : r[n].item = i}

EntryOf(items, facts) ==
    [item : items, indicator : Indicators, fact : facts, package : BOOLEAN]

EntriesOf(kind) == IF kind = "SCHEDULE" THEN EntryOf(ScheduleItems, ScheduleFact)
                                        ELSE EntryOf(ReleaseItems, ReleaseFact)

Poll == [kind : {"SCHEDULE", "RELEASE"}, at : Times]

RowOf(facts) ==
    [key : Nat, revision : Nat, fact : facts, availability : Times, item : STRING]

Mapping(e, k) == [item |-> e.item, indicator |-> e.indicator, key |-> k]

OccurrencesOf(i) == {o.key : o \in {x \in occurrences : x.indicator = i}}

\* What the tables hold, and calls in them.
Shape ==
    /\ now \in Times /\ made \in 0..MaxPolls
    /\ pc \in [Workers -> Steps] /\ key \in [Workers -> Nat]
    /\ unread \in [Workers -> SUBSET Nat] /\ matches \in [Workers -> SUBSET Nat]
    /\ DOMAIN held = Workers /\ DOMAIN todo = Workers /\ DOMAIN poll = Workers
    /\ occurrences \subseteq Occurrence
    /\ mapping \subseteq [item : STRING, indicator : Indicators, key : Nat]
    /\ schedules \subseteq RowOf(ScheduleFact) /\ releases \subseteq RowOf(ReleaseFact)

\* Keys are numbered without a gap, so the next one is new.
KeysAreTaken ==
    /\ IsFiniteSet(occurrences)
    /\ \A o \in occurrences : o.key <= Cardinality(occurrences)
    /\ \A o, p \in occurrences : o.key = p.key => o = p

\* Mappings of one item and indicator are one, lead to an occurrence of the
\* indicator, and no two items of schedules lead to the same.
MappingsAgree ==
    /\ \A m, n \in mapping : m.item = n.item /\ m.indicator = n.indicator => m = n
    /\ \A m \in mapping : m.key \in OccurrencesOf(m.indicator)
    /\ \A m, n \in mapping : {m.item, n.item} \subseteq ScheduleItems /\ m.key = n.key => m = n

\* An occurrence is in the group of the item of a schedule mapped to it, or in none.
GroupsAreItems ==
    \A o \in occurrences : \A m \in mapping :
        m.key = o.key /\ m.item \in ScheduleItems => o.group \subseteq {m.item}

RowsAreUnique ==
    \A rows \in {schedules, releases} : \A r, x \in rows :
        r.key = x.key /\ r.revision = x.revision => r = x

\* A vintage is about the occurrence its item is mapped to.
RowsAreMapped ==
    \A r \in schedules \cup releases : \E m \in mapping : m.item = r.item /\ m.key = r.key

InGroup(k, i) == \E o \in occurrences : o.key = k /\ o.group = {i}

ReportedAreGrouped == \A m \in reported : InGroup(m.key, m.item)

\* What a poll knows of its entry at each of its steps.
CallOK(w) ==
    IF pc[w] = "idle" THEN matches[w] = {}
    ELSE LET e == Entry(w) IN
       /\ poll[w] \in Poll /\ poll[w].at <= now
       /\ todo[w] \in Seq(EntriesOf(poll[w].kind)) /\ todo[w] # <<>>
       /\ pc[w] \in {"candidates", "candidate"} => poll[w].kind = "RELEASE"
       /\ pc[w] \in {"occurrence", "attach"} => poll[w].kind = "SCHEDULE" /\ e.package
       /\ pc[w] \in {"lookup", "candidates"} => matches[w] = {}
       /\ pc[w] = "candidate" => unread[w] \cup matches[w] \subseteq OccurrencesOf(e.indicator)
       /\ pc[w] = "map" => key[w] \in OccurrencesOf(e.indicator)
       /\ pc[w] \in {"occurrence", "attach", "history", "add"} => Mapping(e, key[w]) \in mapping
       /\ pc[w] = "map" /\ poll[w].kind = "SCHEDULE" =>
             /\ \A m \in mapping : m.key = key[w] => m.item \notin ScheduleItems
             /\ \A o \in occurrences : o.key = key[w] => o.group \subseteq {e.item}
       /\ pc[w] \in {"map", "history", "add"} /\ poll[w].kind = "SCHEDULE" /\ e.package =>
             InGroup(key[w], e.item)
       /\ pc[w] = "add" => held[w] \subseteq {r \in OfOccurrence(Rows(w), key[w]) : r.fact # e.fact}

\* A worker that records the mapping of an item of a schedule.
Claims(w) == pc[w] = "map" /\ poll[w].kind = "SCHEDULE"

ClaimsAreExclusive ==
    \A v, w \in Workers : Claims(v) /\ Claims(w) /\ key[v] = key[w] => v = w

IInv ==
    /\ Shape /\ KeysAreTaken /\ MappingsAgree /\ GroupsAreItems
    /\ RowsAreUnique /\ RowsAreMapped /\ RepeatsAddNothing /\ ReportedAreGrouped
    /\ ClaimsAreExclusive
    /\ \A w \in Workers : CallOK(w)

-----------------------------------------------------------------------------
(* Responses taken apart.                                                  *)

\* Whatever holds of 0, and of n + 1 if of n, holds of every number: the numbers it
\* fails for would have a least one.
LEMMA Upwards ==
  ASSUME NEW T, T \subseteq Nat, 0 \in T, \A n \in T : n + 1 \in T
  PROVE  \A n \in Nat : n \in T
<1> DEFINE U == Nat \ T
<1>1. SUFFICES ASSUME U # {} PROVE FALSE
  OBVIOUS
<1>2. PICK x \in U : \A y \in U : ~(<<y, x>> \in OpToRel(<, Nat))
  BY <1>1, WFMin, NatLessThanWellFounded, Zenon
<1>3. x - 1 \in U
  <2>1. x \in Nat /\ x # 0
    OBVIOUS
  <2>2. x - 1 \in Nat /\ (x - 1 \in T => x \in T)
    BY <2>1
  <2> QED
    BY <2>2
<1>4. <<x - 1, x>> \in OpToRel(<, Nat)
  BY <1>3, SMT DEF OpToRel
<1> QED
  BY <1>2, <1>3, <1>4

\* A sequence of sequences flattened is a sequence of what they hold.
LEMMA FlattenSeqType ==
  ASSUME NEW S, NEW s \in Seq(Seq(S))
  PROVE  FlattenSeq(s) \in Seq(S)
<1> DEFINE N == Len(s)
           Val(f, i) == IF i = 1 THEN s[i] ELSE f[i-1] \o s[i]
           Flat(f, n) == f = [i \in 1..n |-> Val(f, i)]
<1>1. ASSUME N # 0, NEW f, Flat(f, N)
      PROVE  f[N] \in Seq(S)
  <2>0. \A i \in 1..N : f[i] = Val(f, i)
    <3>1. \A i \in 1..N : [j \in 1..N |-> Val(f, j)][i] = Val(f, i)
      OBVIOUS
    <3> QED
      BY <1>1, <3>1
  <2> DEFINE T == {n \in Nat : n \in 1..N => f[n] \in Seq(S)}
  <2>1. 0 \in T
    OBVIOUS
  <2>2. ASSUME NEW n \in T PROVE n + 1 \in T
    <3>1. SUFFICES ASSUME n + 1 \in 1..N PROVE f[n + 1] \in Seq(S)
      OBVIOUS
    <3>2. s[n + 1] \in Seq(S)
      BY <3>1
    <3>3. f[n + 1] = IF n + 1 = 1 THEN s[n + 1] ELSE f[(n + 1) - 1] \o s[n + 1]
      BY <3>1, <2>0
    <3>4. n # 0 => f[n] \in Seq(S)
      BY <3>1
    <3>5. (n + 1) - 1 = n /\ (n + 1 # 1 <=> n # 0)
      OBVIOUS
    <3> QED
      BY <3>2, <3>3, <3>4, <3>5
  <2>4. T \subseteq Nat
    OBVIOUS
  <2>5. \A n \in T : n \in 1..N => f[n] \in Seq(S)
    OBVIOUS
  <2> HIDE DEF T
  <2>3. \A n \in Nat : n \in T
    BY <2>1, <2>2, <2>4, Upwards
  <2>6. N \in Nat /\ N \in 1..N
    BY <1>1
  <2> QED
    BY <2>3, <2>5, <2>6
<1>2. ASSUME N # 0 PROVE \E f : Flat(f, N)
  <2> DEFINE T == {n \in Nat : \E f : Flat(f, n)}
  <2>1. 0 \in T
    <3>1. Flat([i \in 1..0 |-> 0], 0)
      OBVIOUS
    <3> HIDE DEF Flat
    <3> QED
      BY <3>1
  <2>2. ASSUME NEW n \in T PROVE n + 1 \in T
    <3>1. PICK f : Flat(f, n)
      OBVIOUS
    <3> DEFINE g == [i \in 1..(n + 1) |->
                       IF i = n + 1 THEN (IF i = 1 THEN s[i] ELSE f[n] \o s[i]) ELSE f[i]]
    <3>2. ASSUME NEW i \in 1..(n + 1)
          PROVE  g[i] = Val(g, i)
      <4>1. i # 1 => g[i - 1] = f[i - 1]
        OBVIOUS
      <4>2. CASE i = n + 1
        <5>1. i - 1 = n
          BY <4>2
        <5>2. g[i] = IF i = 1 THEN s[i] ELSE f[n] \o s[i]
          BY <4>2
        <5> QED
          BY <4>1, <5>1, <5>2
      <4>3. CASE i # n + 1
        <5>1. i \in 1..n /\ g[i] = f[i]
          BY <4>3
        <5>2. [j \in 1..n |-> Val(f, j)][i] = Val(f, i)
          BY <5>1
        <5>3. f[i] = Val(f, i)
          BY <3>1, <5>2
        <5> QED
          BY <4>1, <5>1, <5>3
      <4> QED
        BY <4>2, <4>3
    <3>3. Flat(g, n + 1)
      <4> DEFINE h == [i \in 1..(n + 1) |-> Val(g, i)]
      <4>1. \A i \in 1..(n + 1) : g[i] = h[i]
        BY <3>2
      <4>2. g = h
        BY <4>1
      <4> QED
        BY <4>2
    <3> HIDE DEF g, Flat
    <3>4. n + 1 \in Nat
      OBVIOUS
    <3> QED
      BY <3>3, <3>4
  <2>4. T \subseteq Nat
    OBVIOUS
  <2> HIDE DEF Flat
  <2>5. \A n \in T : \E f : Flat(f, n)
    OBVIOUS
  <2> HIDE DEF T
  <2>3. \A n \in Nat : n \in T
    BY <2>1, <2>2, <2>4, Upwards
  <2> QED
    BY <2>3, <2>5
<1> DEFINE flatten == CHOOSE f : Flat(f, N)
<1>4. FlattenSeq(s) = IF N = 0 THEN s ELSE flatten[N]
  BY DEF FlattenSeq
<1>5. N = 0 => s = << >>
  OBVIOUS
<1> HIDE DEF Flat
<1>3. N # 0 => Flat(flatten, N)
  BY <1>2
<1> HIDE DEF flatten, Flat
<1> QED
  BY <1>1, <1>3, <1>4, <1>5

\* The entries of a response are of its items, of canonical indicators only.
LEMMA EntriesType ==
  ASSUME NEW facts, NEW items \in SUBSET STRING,
         NEW r \in Seq([item : STRING, indicators : Seq(STRING), fact : facts]),
         \A n \in 1..Len(r) : r[n].item \in items
  PROVE  Entries(r) \in Seq(EntryOf(items, facts))
<1> DEFINE E == EntryOf(items, facts)
           Of(n, i) == [item |-> r[n].item, indicator |-> i, fact |-> r[n].fact,
                        package |-> Len(r[n].indicators) > 1]
           One(n, m) == IF r[n].indicators[m] \in Indicators THEN <<Of(n, r[n].indicators[m])>>
                        ELSE <<>>
           Parts(n) == [m \in 1..Len(r[n].indicators) |-> One(n, m)]
           All == [n \in 1..Len(r) |-> FlattenSeq(Parts(n))]
<1>1. ASSUME NEW n \in 1..Len(r)
      PROVE  FlattenSeq(Parts(n)) \in Seq(E)
  <2>1. /\ r[n].item \in items /\ r[n].fact \in facts
        /\ r[n].indicators \in Seq(STRING)
    <3> DEFINE Raw == [item : STRING, indicators : Seq(STRING), fact : facts]
    <3>1. \A o \in Raw : o.fact \in facts /\ o.indicators \in Seq(STRING)
      OBVIOUS
    <3>2. r \in Seq(Raw)
      OBVIOUS
    <3> HIDE DEF Raw
    <3>3. r[n] \in Raw
      BY <3>2
    <3> QED
      BY <3>1, <3>3
  <2>2. ASSUME NEW m \in 1..Len(r[n].indicators) PROVE One(n, m) \in Seq(E)
    <3>1. CASE r[n].indicators[m] \in Indicators
      <4>1. Of(n, r[n].indicators[m]) \in E
        BY <2>1, <3>1 DEF EntryOf
      <4> HIDE DEF E, Of
      <4> QED
        BY <3>1, <4>1
    <3>2. CASE r[n].indicators[m] \notin Indicators
      BY <3>2
    <3> QED
      BY <3>1, <3>2
  <2> HIDE DEF One, E
  <2>3. Len(r[n].indicators) \in Nat
    BY <2>1
  <2>4. Parts(n) \in Seq(Seq(E))
    BY <2>2, <2>3
  <2> HIDE DEF Parts
  <2> QED
    BY <2>4, FlattenSeqType
<1>2. Entries(r) = FlattenSeq(All)
  BY DEF Entries
<1> HIDE DEF E, Parts
<1>3. All \in Seq(Seq(E))
  BY <1>1
<1> HIDE DEF All
<1>4. FlattenSeq(All) \in Seq(E)
  BY <1>3, FlattenSeqType
<1> QED
  BY <1>2, <1>4 DEF E

LEMMA ResponsesType ==
  /\ \A r \in Schedules : Entries(r) \in Seq(EntriesOf("SCHEDULE"))
  /\ \A r \in Releases : Entries(r) \in Seq(EntriesOf("RELEASE"))
<1>1. ASSUME NEW r \in Schedules PROVE Entries(r) \in Seq(EntriesOf("SCHEDULE"))
  <2>1. r \in Seq([item : STRING, indicators : Seq(STRING), fact : ScheduleFact])
    BY CalendarAssumption DEF RawScheduleObservation
  <2>2. \A n \in 1..Len(r) : r[n].item \in ScheduleItems
    <3>1. \A n \in 1..Len(r) : r[n] \in RawScheduleObservation
      BY CalendarAssumption
    <3>2. \A o \in RawScheduleObservation : o.item \in STRING
      BY DEF RawScheduleObservation
    <3> QED
      BY <3>1, <3>2 DEF ScheduleItems
  <2>3. ScheduleItems \in SUBSET STRING
    BY DEF ScheduleItems
  <2> QED
    BY <2>1, <2>2, <2>3, EntriesType DEF EntriesOf
<1>2. ASSUME NEW r \in Releases PROVE Entries(r) \in Seq(EntriesOf("RELEASE"))
  <2>1. r \in Seq([item : STRING, indicators : Seq(STRING), fact : ReleaseFact])
    BY CalendarAssumption DEF RawReleaseObservation
  <2>2. \A n \in 1..Len(r) : r[n].item \in ReleaseItems
    <3>1. \A n \in 1..Len(r) : r[n] \in RawReleaseObservation
      BY CalendarAssumption
    <3>2. \A o \in RawReleaseObservation : o.item \in STRING
      BY DEF RawReleaseObservation
    <3> QED
      BY <3>1, <3>2 DEF ReleaseItems
  <2>3. ReleaseItems \in SUBSET STRING
    BY DEF ReleaseItems
  <2> QED
    BY <2>1, <2>2, <2>3, EntriesType DEF EntriesOf
<1> QED
  BY <1>1, <1>2

\* No item is both.
LEMMA ItemsAreApart == \A i \in ReleaseItems : i \notin ScheduleItems
<1> SUFFICES ASSUME NEW i, i \in ReleaseItems, i \in ScheduleItems PROVE FALSE
  OBVIOUS
<1>1. PICK s \in Schedules : \E m \in 1..Len(s) : s[m].item = i
  BY DEF ScheduleItems
<1>2. PICK r \in Releases : \E n \in 1..Len(r) : r[n].item = i
  BY DEF ReleaseItems
<1> QED
  BY <1>1, <1>2, NamespaceAssumption

-----------------------------------------------------------------------------
(* Who writes what.                                                        *)

LEMMA EntryType ==
  ASSUME Shape, NEW w \in Workers, CallOK(w), pc[w] # "idle"
  PROVE  /\ poll[w].kind \in {"SCHEDULE", "RELEASE"} /\ poll[w].at \in Times
         /\ Entry(w) \in EntriesOf(poll[w].kind)
         /\ Entry(w).item \in STRING /\ Entry(w).indicator \in Indicators
         /\ Entry(w).item \in ScheduleItems <=> poll[w].kind = "SCHEDULE"
<1>1. /\ poll[w].kind \in {"SCHEDULE", "RELEASE"} /\ poll[w].at \in Times
      /\ todo[w] \in Seq(EntriesOf(poll[w].kind)) /\ todo[w] # <<>>
  BY DEF CallOK, Poll
<1>2. Entry(w) \in EntriesOf(poll[w].kind)
  <2> HIDE DEF EntriesOf
  <2> QED
    BY <1>1 DEF Entry
<1>3. CASE poll[w].kind = "SCHEDULE"
  BY <1>1, <1>2, <1>3 DEF EntriesOf, EntryOf, ScheduleItems
<1>4. CASE poll[w].kind = "RELEASE"
  <2>1. Entry(w).item \in ReleaseItems /\ Entry(w).indicator \in Indicators
    BY <1>2, <1>4 DEF EntriesOf, EntryOf
  <2>2. Entry(w).item \in STRING /\ Entry(w).item \notin ScheduleItems
    BY <2>1, ItemsAreApart DEF ReleaseItems
  <2> QED
    BY <1>1, <1>2, <1>4, <2>1, <2>2
<1> QED
  BY <1>1, <1>3, <1>4

LEMMA OnlyWritersWrite ==
  ASSUME NEW w \in Workers, Step(w)
  PROVE  /\ now' = now
         /\ \/ UNCHANGED tables
            \/ Register(w) /\ UNCHANGED <<mapping, schedules, releases>>
            \/ AttachGroup(w) /\ UNCHANGED <<mapping, schedules, releases>>
            \/ RecordMapping(w) /\ UNCHANGED <<occurrences, schedules, releases>>
            \/ AddVintage(w) /\ UNCHANGED <<occurrences, mapping>>
  BY DEF Step, StartSchedulePoll, StartReleasePoll, Start, Lookup, ReadOccurrence, AttachGroup,
         ReadCandidates, ReadCandidate, Register, RecordMapping, ReadHistory, AddVintage, Abort,
         tables

\* A step of one worker leaves what the others know alone.
LEMMA OthersStay ==
  ASSUME Shape, NEW w \in Workers, Step(w), NEW v \in Workers, v # w
  PROVE  /\ pc'[v] = pc[v] /\ poll'[v] = poll[v] /\ todo'[v] = todo[v] /\ key'[v] = key[v]
         /\ unread'[v] = unread[v] /\ matches'[v] = matches[v] /\ held'[v] = held[v]
<1> USE DEF Shape, Goto, Forget, End, Fail, Advance, calls
<1>1. CASE StartSchedulePoll(w) \/ StartReleasePoll(w)
  BY <1>1 DEF StartSchedulePoll, StartReleasePoll, Start
<1>2. CASE Lookup(w)
  BY <1>2 DEF Lookup
<1>3. CASE ReadOccurrence(w) \/ AttachGroup(w)
  BY <1>3 DEF ReadOccurrence, AttachGroup
<1>4. CASE ReadCandidates(w)
  BY <1>4 DEF ReadCandidates
<1>5. CASE ReadCandidate(w)
  BY <1>5 DEF ReadCandidate
<1>6. CASE Register(w)
  BY <1>6 DEF Register
<1>7. CASE RecordMapping(w)
  BY <1>7 DEF RecordMapping
<1>8. CASE ReadHistory(w)
  BY <1>8 DEF ReadHistory
<1>9. CASE AddVintage(w)
  BY <1>9 DEF AddVintage
<1>10. CASE Abort(w)
  BY <1>10 DEF Abort
<1> QED
  BY <1>1, <1>2, <1>3, <1>4, <1>5, <1>6, <1>7, <1>8, <1>9, <1>10 DEF Step

-----------------------------------------------------------------------------
(* What a write does to the tables.                                        *)

\* A minted key is new, and registering an occurrence under it leaves keys taken.
LEMMA RegisterAddsNew ==
  ASSUME Shape, KeysAreTaken, NEW w \in Workers, CallOK(w), Register(w)
  PROVE  /\ Minted \in Nat \ {0} /\ \A o \in occurrences : o.key # Minted
         /\ \E n \in Occurrence :
               /\ n.key = Minted /\ n.indicator = Entry(w).indicator
               /\ n.group \subseteq {Entry(w).item}
               /\ Claims(w)' /\ Entry(w).package => n.group = {Entry(w).item}
               /\ occurrences' = occurrences \cup {n}
         /\ KeysAreTaken'
<1> DEFINE e == Entry(w)
           n == [key |-> Minted, indicator |-> e.indicator,
                 group |-> {i \in {e.item} : e.package /\ poll[w].kind = "SCHEDULE"}]
<1>1. e.item \in STRING /\ e.indicator \in Indicators
  BY EntryType DEF Register
<1>2. Cardinality(occurrences) \in Nat /\ Minted \in Nat \ {0}
  BY FS_CardinalityType DEF KeysAreTaken, Minted
<1>3. \A o \in occurrences : o.key # Minted
  BY <1>2 DEF KeysAreTaken, Minted, Shape, Occurrence
<1>4. occurrences' = occurrences \cup {n} /\ poll' = poll /\ n \in Occurrence
  BY <1>1, <1>2 DEF Register, Goto, Occurrence
<1>5. IsFiniteSet(occurrences') /\ Cardinality(occurrences') = Minted
  <2>1. n \notin occurrences
    BY <1>3
  <2> HIDE DEF n
  <2> QED
    BY <1>4, <2>1, FS_AddElement DEF KeysAreTaken, Minted
<1>6. KeysAreTaken'
  <2>1. \A o \in occurrences' : o.key <= Cardinality(occurrences')
    <3>1. \A o \in occurrences : o.key \in Nat /\ o.key <= Cardinality(occurrences)
      BY DEF KeysAreTaken, Shape, Occurrence
    <3> QED
      BY <1>2, <1>4, <1>5, <3>1 DEF Minted
  <2>2. \A o, p \in occurrences' : o.key = p.key => o = p
    BY <1>3, <1>4 DEF KeysAreTaken
  <2> QED
    BY <1>5, <2>1, <2>2 DEF KeysAreTaken
<1>7. Claims(w)' => poll[w].kind = "SCHEDULE"
  BY <1>4 DEF Claims
<1>8. n.group \subseteq {e.item} /\ (Claims(w)' /\ e.package => n.group = {e.item})
  BY <1>7
<1> QED
  BY <1>2, <1>3, <1>4, <1>6, <1>8

\* Attaching a group exchanges an occurrence for itself in its group.
LEMMA AttachExchanges ==
  ASSUME Shape, KeysAreTaken, NEW w \in Workers, CallOK(w), AttachGroup(w)
  PROVE  /\ \E o \in occurrences, p \in Occurrence :
               /\ o.key = key[w] /\ o.group \subseteq {Entry(w).item}
               /\ p.key = o.key /\ p.indicator = o.indicator /\ p.group = {Entry(w).item}
               /\ occurrences' = (occurrences \ {o}) \cup {p}
         /\ KeysAreTaken'
<1> DEFINE e == Entry(w)
<1>1. PICK o \in occurrences :
         /\ o.key = key[w] /\ o.group \in {{}, {e.item}}
         /\ occurrences' = (occurrences \ {o}) \cup {[o EXCEPT !.group = {e.item}]}
  BY DEF AttachGroup
<1> DEFINE p == [o EXCEPT !.group = {e.item}]
<1>2. e.item \in STRING
  BY EntryType DEF AttachGroup
<1>3. /\ o \in Occurrence /\ p \in Occurrence
      /\ p.key = o.key /\ p.indicator = o.indicator /\ p.group = {e.item}
  BY <1>2 DEF Shape, Occurrence
<1>4. occurrences' = (occurrences \ {o}) \cup {p}
  BY <1>1
<1> HIDE DEF p
<1>5. KeysAreTaken'
  <2>1. \A q \in occurrences \ {o} : q.key # p.key
    BY <1>3 DEF KeysAreTaken
  <2>2. p \notin occurrences \ {o}
    BY <2>1
  <2>3. /\ IsFiniteSet(occurrences \ {o})
        /\ Cardinality(occurrences \ {o}) = Cardinality(occurrences) - 1
    BY FS_RemoveElement DEF KeysAreTaken
  <2>4. /\ IsFiniteSet((occurrences \ {o}) \cup {p})
        /\ Cardinality((occurrences \ {o}) \cup {p}) = Cardinality(occurrences \ {o}) + 1
    BY <2>2, <2>3, FS_AddElement
  <2>5. Cardinality(occurrences) \in Nat
    BY FS_CardinalityType DEF KeysAreTaken
  <2>6. IsFiniteSet(occurrences') /\ Cardinality(occurrences') = Cardinality(occurrences)
    BY <1>4, <2>3, <2>4, <2>5
  <2>7. \A q \in occurrences' : q.key <= Cardinality(occurrences')
    BY <1>3, <1>4, <2>6 DEF KeysAreTaken
  <2>8. \A q, r \in occurrences' : q.key = r.key => q = r
    BY <1>4, <2>1 DEF KeysAreTaken
  <2> QED
    BY <2>6, <2>7, <2>8 DEF KeysAreTaken
<1> QED
  BY <1>1, <1>3, <1>4, <1>5

\* Occurrences keep their keys, their indicators and the groups they are in;
\* mappings and vintages are only added.
LEMMA TablesGrow ==
  ASSUME Shape, KeysAreTaken, NEW w \in Workers, CallOK(w), Step(w)
  PROVE  /\ KeysAreTaken'
         /\ \A i : OccurrencesOf(i) \subseteq OccurrencesOf(i)'
         /\ \A k, i : InGroup(k, i) => InGroup(k, i)'
         /\ mapping \subseteq mapping'
         /\ schedules \subseteq schedules' /\ releases \subseteq releases'
<1> USE DEF OccurrencesOf, InGroup
<1>1. CASE UNCHANGED tables
  BY <1>1 DEF tables, KeysAreTaken
<1>2. CASE Register(w) /\ UNCHANGED <<mapping, schedules, releases>>
  <2>1. KeysAreTaken' /\ occurrences \subseteq occurrences'
    BY <1>2, RegisterAddsNew
  <2> QED
    BY <1>2, <2>1
<1>3. CASE AttachGroup(w) /\ UNCHANGED <<mapping, schedules, releases>>
  <2>1. PICK o \in occurrences, p \in Occurrence :
          /\ o.group \subseteq {Entry(w).item}
          /\ p.key = o.key /\ p.indicator = o.indicator /\ p.group = {Entry(w).item}
          /\ occurrences' = (occurrences \ {o}) \cup {p}
    BY <1>3, AttachExchanges
  <2>2. KeysAreTaken'
    BY <1>3, AttachExchanges
  <2>3. ASSUME NEW i PROVE OccurrencesOf(i) \subseteq OccurrencesOf(i)'
    <3>1. ASSUME NEW q \in occurrences, q.indicator = i
          PROVE  \E r \in occurrences' : r.key = q.key /\ r.indicator = i
      <4>1. CASE q = o
        BY <2>1, <3>1, <4>1
      <4>2. CASE q # o
        BY <2>1, <3>1, <4>2
      <4> QED
        BY <4>1, <4>2
    <3> QED
      BY <3>1
  <2>4. ASSUME NEW k, NEW i, InGroup(k, i) PROVE InGroup(k, i)'
    <3>1. PICK q \in occurrences : q.key = k /\ q.group = {i}
      BY <2>4
    <3>2. CASE q = o
      <4>1. i = Entry(w).item
        BY <2>1, <3>1, <3>2
      <4> QED
        BY <2>1, <3>1, <3>2, <4>1
    <3>3. CASE q # o
      BY <2>1, <3>1, <3>3
    <3> QED
      BY <3>2, <3>3
  <2> QED
    BY <1>3, <2>2, <2>3, <2>4
<1>4. CASE RecordMapping(w) /\ UNCHANGED <<occurrences, schedules, releases>>
  BY <1>4 DEF RecordMapping, KeysAreTaken
<1>5. CASE AddVintage(w) /\ UNCHANGED <<occurrences, mapping>>
  BY <1>5 DEF AddVintage, KeysAreTaken
<1> QED
  BY <1>1, <1>2, <1>3, <1>4, <1>5, OnlyWritersWrite

-----------------------------------------------------------------------------
(* What stays true of the tables.                                          *)

LEMMA MappingsStep ==
  ASSUME IInv, NEW w \in Workers, Step(w)
  PROVE  MappingsAgree' /\ GroupsAreItems'
<1> DEFINE e == Entry(w)
<1>1. /\ Shape /\ KeysAreTaken /\ MappingsAgree /\ GroupsAreItems /\ CallOK(w)
      /\ \A i : OccurrencesOf(i) \subseteq OccurrencesOf(i)'
  BY TablesGrow DEF IInv
<1>2. CASE UNCHANGED mapping
  <2>1. MappingsAgree'
    BY <1>1, <1>2 DEF MappingsAgree
  <2>2. CASE UNCHANGED occurrences
    BY <1>1, <1>2, <2>1, <2>2 DEF GroupsAreItems
  <2>3. CASE Register(w)
    <3>1. PICK n : n.key = Minted /\ occurrences' = occurrences \cup {n}
      BY <1>1, <2>3, RegisterAddsNew
    <3>2. \A o \in occurrences : o.key # Minted
      BY <1>1, <2>3, RegisterAddsNew
    <3>3. \A m \in mapping : m.key # Minted
      BY <1>1, <3>2 DEF MappingsAgree, OccurrencesOf
    <3> QED
      BY <1>1, <1>2, <2>1, <3>1, <3>3 DEF GroupsAreItems
  <2>4. CASE AttachGroup(w)
    <3>1. PICK o \in occurrences, p \in Occurrence :
            /\ o.key = key[w] /\ p.key = o.key /\ p.group = {e.item}
            /\ occurrences' = (occurrences \ {o}) \cup {p}
      BY <1>1, <2>4, AttachExchanges
    <3>2. Mapping(e, key[w]) \in mapping /\ e.item \in ScheduleItems
      BY <1>1, <2>4, EntryType DEF AttachGroup, CallOK
    <3>3. \A m \in mapping : m.key = key[w] /\ m.item \in ScheduleItems => m.item = e.item
      BY <1>1, <3>2 DEF MappingsAgree, Mapping
    <3>4. \A m \in mapping : m.key = p.key /\ m.item \in ScheduleItems => p.group \subseteq {m.item}
      BY <3>1, <3>3
    <3> QED
      BY <1>1, <1>2, <2>1, <3>1, <3>4 DEF GroupsAreItems
  <2> QED
    BY <2>2, <2>3, <2>4, OnlyWritersWrite DEF tables
<1>3. CASE mapping' # mapping
  <2>1. RecordMapping(w) /\ UNCHANGED occurrences
    BY <1>3, OnlyWritersWrite DEF tables
  <2>2. /\ pc[w] = "map" /\ MappedTo(e) = {}
        /\ mapping' = mapping \cup {Mapping(e, key[w])}
    BY <1>3, <2>1 DEF RecordMapping, Mapping
  <2> DEFINE n == Mapping(e, key[w])
  <2>3. n.item = e.item /\ n.indicator = e.indicator /\ n.key = key[w]
    BY DEF Mapping
  <2>4. \A m \in mapping : ~(m.item = e.item /\ m.indicator = e.indicator)
    BY <2>2 DEF MappedTo
  <2>5. key[w] \in OccurrencesOf(e.indicator)
    BY <1>1, <2>2 DEF CallOK
  <2>6. n.item \in ScheduleItems =>
          /\ \A m \in mapping : m.key = n.key => m.item \notin ScheduleItems
          /\ \A o \in occurrences : o.key = n.key => o.group \subseteq {n.item}
    BY <1>1, <2>2, <2>3, EntryType DEF CallOK
  <2> HIDE DEF n
  <2>7. MappingsAgree'
    <3>1. \A m, x \in mapping' : m.item = x.item /\ m.indicator = x.indicator => m = x
      BY <1>1, <2>2, <2>3, <2>4 DEF MappingsAgree, n
    <3>2. \A m \in mapping' : m.key \in OccurrencesOf(m.indicator)'
      BY <1>1, <2>2, <2>3, <2>5 DEF MappingsAgree, n
    <3>3. \A m, x \in mapping' :
             {m.item, x.item} \subseteq ScheduleItems /\ m.key = x.key => m = x
      BY <1>1, <2>2, <2>6 DEF MappingsAgree, n
    <3> QED
      BY <3>1, <3>2, <3>3 DEF MappingsAgree
  <2>8. GroupsAreItems'
    BY <1>1, <2>1, <2>2, <2>6 DEF GroupsAreItems, n
  <2> QED
    BY <2>7, <2>8
<1> QED
  BY <1>2, <1>3

\* The row a poll adds to the table of its kind.
NewRow(w) == [key |-> key[w], revision |-> NextRevision(w), fact |-> Entry(w).fact,
              availability |-> poll[w].at, item |-> Entry(w).item]

\* A vintage that is added has a number of its own, or is there already; it
\* follows the one the poll read, and says something else.
LEMMA VintageAdded ==
  ASSUME IInv, NEW w \in Workers, AddVintage(w)
  PROVE  /\ Rows(w) \subseteq RowOf(IF poll[w].kind = "SCHEDULE" THEN ScheduleFact ELSE ReleaseFact)
         /\ NewRow(w) \in RowOf(IF poll[w].kind = "SCHEDULE" THEN ScheduleFact ELSE ReleaseFact)
         /\ \E m \in mapping : m.item = NewRow(w).item /\ m.key = NewRow(w).key
         /\ NewRow(w).revision > 0 =>
               \E x \in OfOccurrence(Rows(w), key[w]) :
                  x.revision = NewRow(w).revision - 1 /\ x.fact # NewRow(w).fact
         /\ \/ UNCHANGED <<schedules, releases>>
            \/ /\ \A r \in Rows(w) : r.key = key[w] /\ r.revision = NewRow(w).revision => r = NewRow(w)
               /\ IF poll[w].kind = "SCHEDULE"
                  THEN schedules' = schedules \cup {NewRow(w)} /\ UNCHANGED releases
                  ELSE releases' = releases \cup {NewRow(w)} /\ UNCHANGED schedules
<1> DEFINE facts == IF poll[w].kind = "SCHEDULE" THEN ScheduleFact ELSE ReleaseFact
           e == Entry(w)
<1>1. Shape /\ CallOK(w) /\ pc[w] = "add" /\ key[w] \in Nat
  BY DEF IInv, AddVintage, Shape
<1>2. /\ poll[w].kind \in {"SCHEDULE", "RELEASE"} /\ poll[w].at \in Times
      /\ e.item \in STRING /\ e.fact \in facts
  BY <1>1, EntryType DEF EntriesOf, EntryOf
<1>3. Mapping(e, key[w]) \in mapping
  BY <1>1 DEF CallOK
<1>4. Rows(w) \subseteq RowOf(facts)
  BY <1>1 DEF Rows, Shape
<1>5. held[w] \subseteq {r \in OfOccurrence(Rows(w), key[w]) : r.fact # e.fact}
  BY <1>1 DEF CallOK
<1>6. /\ NextRevision(w) \in Nat
      /\ NextRevision(w) > 0 =>
            \E x \in OfOccurrence(Rows(w), key[w]) :
               x.revision = NextRevision(w) - 1 /\ x.fact # e.fact
  <2>1. CASE held[w] = {}
    BY <2>1 DEF NextRevision
  <2>2. CASE held[w] # {}
    <3> DEFINE l == CHOOSE l \in held[w] : TRUE
    <3>1. l \in held[w]
      BY <2>2
    <3> HIDE DEF l
    <3>2. l \in OfOccurrence(Rows(w), key[w]) /\ l.fact # e.fact
      BY <1>5, <3>1
    <3>3. l.revision \in Nat
      BY <1>4, <3>2 DEF OfOccurrence, RowOf
    <3>4. NextRevision(w) = l.revision + 1
      BY <2>2 DEF NextRevision, l
    <3> QED
      BY <3>2, <3>3, <3>4
  <2> QED
    BY <2>1, <2>2
<1>7. NewRow(w) \in RowOf(facts)
  BY <1>1, <1>2, <1>6 DEF NewRow, RowOf
<1>8. \/ UNCHANGED <<schedules, releases>>
      \/ /\ {r \in OfOccurrence(Rows(w), key[w]) : r.revision = NextRevision(w)} \subseteq {NewRow(w)}
         /\ IF poll[w].kind = "SCHEDULE"
            THEN schedules' = schedules \cup {NewRow(w)} /\ UNCHANGED releases
            ELSE releases' = releases \cup {NewRow(w)} /\ UNCHANGED schedules
  BY DEF AddVintage, NewRow
<1>9. NewRow(w).revision = NextRevision(w) /\ NewRow(w).fact = e.fact
      /\ NewRow(w).item = e.item /\ NewRow(w).key = key[w]
  BY DEF NewRow
<1>10. \E m \in mapping : m.item = e.item /\ m.key = key[w]
  BY <1>3 DEF Mapping
<1> QED
  BY <1>4, <1>6, <1>7, <1>8, <1>9, <1>10 DEF OfOccurrence

LEMMA RowsStep ==
  ASSUME IInv, NEW w \in Workers, Step(w)
  PROVE  /\ schedules' \subseteq RowOf(ScheduleFact) /\ releases' \subseteq RowOf(ReleaseFact)
         /\ RowsAreUnique' /\ RowsAreMapped' /\ RepeatsAddNothing'
<1>1. mapping \subseteq mapping'
  BY TablesGrow DEF IInv
<1>2. CASE UNCHANGED <<schedules, releases>>
  <2>1. RowsAreMapped'
    BY <1>1, <1>2 DEF IInv, RowsAreMapped
  <2> QED
    BY <1>2, <2>1 DEF IInv, Shape, RowsAreUnique, RepeatsAddNothing, OfOccurrence
<1>3. CASE ~UNCHANGED <<schedules, releases>>
  <2>1. AddVintage(w)
    BY <1>3, OnlyWritersWrite DEF tables, Register, AttachGroup, RecordMapping
  <2> DEFINE n == NewRow(w)
  <2> HIDE DEF n
  <2>2. /\ \E m \in mapping : m.item = n.item /\ m.key = n.key
        /\ n.key = key[w]
        /\ n.revision > 0 => \E x \in OfOccurrence(Rows(w), n.key) :
                                 x.revision = n.revision - 1 /\ x.fact # n.fact
        /\ \A r \in Rows(w) : r.key = n.key /\ r.revision = n.revision => r = n
    BY <1>3, <2>1, VintageAdded DEF n, NewRow
  <2>3. CASE /\ poll[w].kind = "SCHEDULE" /\ n \in RowOf(ScheduleFact)
             /\ schedules' = schedules \cup {n} /\ releases' = releases
    <3>1. Rows(w) = schedules
      BY <2>3 DEF Rows
    <3>2. RowsAreMapped'
      BY <1>1, <2>2, <2>3 DEF IInv, RowsAreMapped
    <3>3. RowsAreUnique'
      BY <2>2, <2>3, <3>1 DEF IInv, RowsAreUnique
    <3>4. RepeatsAddNothing'
      BY <2>2, <2>3, <3>1 DEF IInv, RepeatsAddNothing, OfOccurrence
    <3> QED
      BY <2>3, <3>2, <3>3, <3>4 DEF IInv, Shape
  <2>4. CASE /\ poll[w].kind # "SCHEDULE" /\ n \in RowOf(ReleaseFact)
             /\ releases' = releases \cup {n} /\ schedules' = schedules
    <3>1. Rows(w) = releases
      BY <2>4 DEF Rows
    <3>2. RowsAreMapped'
      BY <1>1, <2>2, <2>4 DEF IInv, RowsAreMapped
    <3>3. RowsAreUnique'
      BY <2>2, <2>4, <3>1 DEF IInv, RowsAreUnique
    <3>4. RepeatsAddNothing'
      BY <2>2, <2>4, <3>1 DEF IInv, RepeatsAddNothing, OfOccurrence
    <3> QED
      BY <2>4, <3>2, <3>3, <3>4 DEF IInv, Shape
  <2> QED
    BY <1>3, <2>1, <2>3, <2>4, VintageAdded DEF n
<1> QED
  BY <1>2, <1>3

-----------------------------------------------------------------------------
(* What stays true of polls.                                               *)

LEMMA MovesAreTyped ==
  ASSUME Shape, NEW w \in Workers, Advance(w) \/ End(w)
  PROVE  /\ pc' \in [Workers -> Steps] /\ key' \in [Workers -> Nat]
         /\ unread' \in [Workers -> SUBSET Nat] /\ matches' \in [Workers -> SUBSET Nat]
         /\ DOMAIN held' = Workers /\ DOMAIN todo' = Workers /\ DOMAIN poll' = Workers
<1>1. /\ pc \in [Workers -> Steps] /\ key \in [Workers -> Nat]
      /\ unread \in [Workers -> SUBSET Nat] /\ matches \in [Workers -> SUBSET Nat]
      /\ DOMAIN held = Workers /\ DOMAIN todo = Workers /\ DOMAIN poll = Workers
  BY DEF Shape
<1>2. Forget(w)
  BY DEF Advance, End
<1>3. /\ key' \in [Workers -> Nat] /\ unread' \in [Workers -> SUBSET Nat]
      /\ matches' \in [Workers -> SUBSET Nat] /\ DOMAIN held' = Workers
  BY <1>1, <1>2 DEF Forget
<1>4. CASE End(w)
  BY <1>1, <1>3, <1>4 DEF End, Steps
<1>5. CASE Advance(w) /\ ~End(w)
  BY <1>1, <1>3, <1>5 DEF Advance, Steps
<1> QED
  BY <1>4, <1>5

LEMMA ShapeStep ==
  ASSUME IInv, NEW w \in Workers, Step(w)
  PROVE  Shape'
<1> USE DEF IInv
<1>1. Shape /\ KeysAreTaken /\ CallOK(w)
  OBVIOUS
<1>2. now' = now
  BY OnlyWritersWrite
<1>3. occurrences' \subseteq Occurrence
  <2>1. CASE Register(w)
    <3>1. PICK n \in Occurrence : occurrences' = occurrences \cup {n}
      BY <1>1, <2>1, RegisterAddsNew
    <3> QED
      BY <1>1, <3>1 DEF Shape
  <2>2. CASE AttachGroup(w)
    <3>1. PICK o, p \in Occurrence : occurrences' = (occurrences \ {o}) \cup {p}
      BY <1>1, <2>2, AttachExchanges DEF Shape
    <3> QED
      BY <1>1, <3>1 DEF Shape
  <2>3. CASE UNCHANGED occurrences
    BY <1>1, <2>3 DEF Shape
  <2> QED
    BY <2>1, <2>2, <2>3, OnlyWritersWrite DEF tables
<1>4. mapping' \subseteq [item : STRING, indicator : Indicators, key : Nat]
  <2>1. CASE RecordMapping(w)
    <3>1. /\ Entry(w).item \in STRING /\ Entry(w).indicator \in Indicators
          /\ key[w] \in Nat
      BY <1>1, <2>1, EntryType DEF RecordMapping, Shape
    <3> QED
      BY <1>1, <2>1, <3>1 DEF RecordMapping, Shape
  <2>2. CASE UNCHANGED mapping
    BY <1>1, <2>2 DEF Shape
  <2> QED
    BY <2>1, <2>2, OnlyWritersWrite DEF tables
<1>5. /\ made' \in 0..MaxPolls /\ pc' \in [Workers -> Steps] /\ key' \in [Workers -> Nat]
      /\ unread' \in [Workers -> SUBSET Nat] /\ matches' \in [Workers -> SUBSET Nat]
      /\ DOMAIN held' = Workers /\ DOMAIN todo' = Workers /\ DOMAIN poll' = Workers
  <2>0. \A i : OccurrencesOf(i) \subseteq Nat
    BY <1>1 DEF Shape, OccurrencesOf, Occurrence
  <2>00. CASE UNCHANGED made /\ (Advance(w) \/ End(w))
    BY <1>1, <2>00, MovesAreTyped DEF Shape
  <2> USE DEF Shape, Goto, calls, Steps
  <2>1. CASE StartSchedulePoll(w) \/ StartReleasePoll(w)
    <3>1. made < MaxPolls /\ made' = made + 1 /\ made \in 0..MaxPolls
      BY <1>1, <2>1 DEF StartSchedulePoll, StartReleasePoll, Start
    <3>2. made' \in 0..MaxPolls
      BY <3>1, CalendarAssumption
    <3> QED
      BY <1>1, <2>1, <3>2 DEF StartSchedulePoll, StartReleasePoll, Start
  <2>2. CASE Lookup(w)
    <3>1. MappedTo(Entry(w)) \subseteq Nat
      BY <1>1 DEF MappedTo
    <3> QED
      BY <1>1, <2>2, <3>1 DEF Lookup
  <2>3. CASE ReadOccurrence(w) \/ AttachGroup(w)
    BY <1>1, <2>3 DEF ReadOccurrence, AttachGroup
  <2>4. CASE ReadCandidates(w)
    BY <1>1, <2>0, <2>4 DEF ReadCandidates, OccurrencesOf
  <2>5. CASE ReadCandidate(w)
    <3>1. PICK k \in unread[w] :
            LET found == matches[w] \cup {m \in {k} : \E s \in Latest(OfOccurrence(schedules, k)) :
                                                        s.fact.date = Entry(w).fact.date}
            IN IF unread[w] # {k}
               THEN /\ unread' = [unread EXCEPT ![w] = @ \ {k}]
                    /\ matches' = [matches EXCEPT ![w] = found]
                    /\ UNCHANGED <<pc, poll, todo, key, held, reported>>
               ELSE IF Cardinality(found) > 1 THEN Advance(w)
               ELSE /\ key' = [key EXCEPT ![w] = IF found = {} THEN 0 ELSE CHOOSE m \in found : TRUE]
                    /\ unread' = [unread EXCEPT ![w] = {}]
                    /\ Goto(w, IF found = {} THEN "register" ELSE "map")
                    /\ UNCHANGED <<matches, held>>
      BY <2>5 DEF ReadCandidate
    <3> DEFINE found == matches[w] \cup {m \in {k} : \E s \in Latest(OfOccurrence(schedules, k)) :
                                                        s.fact.date = Entry(w).fact.date}
    <3>2. unread[w] \subseteq Nat /\ found \subseteq Nat
      BY <1>1
    <3>3. (IF found = {} THEN 0 ELSE CHOOSE m \in found : TRUE) \in Nat
      BY <3>2
    <3>4. UNCHANGED made
      BY <2>5 DEF ReadCandidate
    <3> HIDE DEF found
    <3>5. \/ /\ unread' = [unread EXCEPT ![w] = @ \ {k}]
             /\ matches' = [matches EXCEPT ![w] = found]
             /\ UNCHANGED <<pc, poll, todo, key, held>>
          \/ Advance(w)
          \/ /\ key' = [key EXCEPT ![w] = IF found = {} THEN 0 ELSE CHOOSE m \in found : TRUE]
             /\ unread' = [unread EXCEPT ![w] = {}]
             /\ Goto(w, IF found = {} THEN "register" ELSE "map")
             /\ UNCHANGED <<matches, held>>
      BY <3>1 DEF found
    <3>6. CASE ~Advance(w)
      <4>1. /\ pc \in [Workers -> Steps] /\ key \in [Workers -> Nat] /\ made \in 0..MaxPolls
            /\ unread \in [Workers -> SUBSET Nat] /\ matches \in [Workers -> SUBSET Nat]
            /\ DOMAIN held = Workers /\ DOMAIN todo = Workers /\ DOMAIN poll = Workers
        BY <1>1
      <4>2. CASE /\ unread' = [unread EXCEPT ![w] = @ \ {k}]
                 /\ matches' = [matches EXCEPT ![w] = found]
                 /\ UNCHANGED <<pc, poll, todo, key, held>>
        BY <3>2, <3>4, <4>1, <4>2
      <4>3. CASE /\ key' = [key EXCEPT ![w] = IF found = {} THEN 0 ELSE CHOOSE m \in found : TRUE]
                 /\ unread' = [unread EXCEPT ![w] = {}]
                 /\ Goto(w, IF found = {} THEN "register" ELSE "map")
                 /\ UNCHANGED <<matches, held>>
        BY <3>3, <3>4, <4>1, <4>3
      <4> QED
        BY <3>5, <3>6, <4>2, <4>3
    <3> QED
      BY <2>00, <3>4, <3>6
  <2>6. CASE Register(w)
    <3>1. Minted \in Nat
      BY <1>1, <2>6, RegisterAddsNew
    <3> QED
      BY <1>1, <2>6, <3>1 DEF Register
  <2>7. CASE RecordMapping(w)
    <3>1. UNCHANGED made /\ (End(w) \/ (Goto(w, "history") /\ UNCHANGED calls))
      BY <2>7 DEF RecordMapping, Fail
    <3> QED
      BY <1>1, <2>00, <3>1
  <2>8. CASE ReadHistory(w)
    <3>1. UNCHANGED made /\ (Advance(w) \/ ~Advance(w))
      BY <2>8 DEF ReadHistory
    <3>2. CASE ~Advance(w)
      BY <1>1, <2>8, <3>2 DEF ReadHistory
    <3> QED
      BY <2>00, <3>1, <3>2
  <2>9. CASE AddVintage(w)
    <3>1. UNCHANGED made /\ (Advance(w) \/ End(w))
      BY <2>9 DEF AddVintage, Fail
    <3> QED
      BY <2>00, <3>1
  <2>10. CASE Abort(w)
    <3>1. UNCHANGED made /\ End(w)
      BY <2>10 DEF Abort, Fail
    <3> QED
      BY <2>00, <3>1
  <2> QED
    BY <2>1, <2>2, <2>3, <2>4, <2>5, <2>6, <2>7, <2>8, <2>9, <2>10 DEF Step
<1>6. schedules' \subseteq RowOf(ScheduleFact) /\ releases' \subseteq RowOf(ReleaseFact)
  BY RowsStep
<1> QED
  BY <1>1, <1>2, <1>3, <1>4, <1>5, <1>6 DEF Shape

\* A poll reports a member of a package when the occurrence is in its group.
LEMMA ReportedStep ==
  ASSUME IInv, NEW w \in Workers, Step(w)
  PROVE  ReportedAreGrouped'
<1>1. \A k, i : InGroup(k, i) => InGroup(k, i)'
  BY TablesGrow DEF IInv
<1>2. \A m \in reported' : m \in reported \/ InGroup(m.key, m.item)
  <2>1. CASE reported' = reported
    BY <2>1
  <2>2. CASE Advance(w) /\ pc[w] \in {"candidate", "history", "add"}
    <3>1. CallOK(w)
      BY DEF IInv
    <3>2. Entry(w).package /\ poll[w].kind = "SCHEDULE" => InGroup(key[w], Entry(w).item)
      BY <2>2, <3>1 DEF CallOK
    <3> QED
      BY <2>2, <3>2 DEF Advance
  <2>3. reported' = reported \/ (Advance(w) /\ pc[w] \in {"candidate", "history", "add"})
    <3>1. CASE ReadCandidate(w)
      BY <3>1 DEF ReadCandidate, Goto
    <3>2. CASE ReadHistory(w)
      BY <3>2 DEF ReadHistory, Goto
    <3>3. CASE AddVintage(w)
      BY <3>3 DEF AddVintage, Fail
    <3>4. CASE ~(ReadCandidate(w) \/ ReadHistory(w) \/ AddVintage(w))
      BY <3>4 DEF Step, StartSchedulePoll, StartReleasePoll, Start, Lookup, ReadOccurrence,
                  AttachGroup, ReadCandidates, Register, RecordMapping, Abort, Goto, Fail
    <3> QED
      BY <3>1, <3>2, <3>3, <3>4
  <2> QED
    BY <2>1, <2>2, <2>3
<1> QED
  BY <1>1, <1>2 DEF IInv, ReportedAreGrouped

\* The key a worker claims was minted by it.
LEMMA ClaimsStep ==
  ASSUME IInv, NEW w \in Workers, Step(w)
  PROVE  ClaimsAreExclusive'
<1>1. Shape /\ KeysAreTaken /\ CallOK(w)
  BY DEF IInv
<1>2. CASE Register(w)
  <2>1. key'[w] = Minted
    BY <1>1, <1>2 DEF Register, Shape
  <2>2. \A o \in occurrences : o.key # Minted
    BY <1>1, <1>2, RegisterAddsNew
  <2>3. ASSUME NEW v \in Workers, v # w, Claims(v)' PROVE Claims(v) /\ key'[v] = key[v] /\ key[v] # Minted
    <3>1. Claims(v) /\ key'[v] = key[v]
      BY <1>1, <2>3, OthersStay DEF Claims
    <3>2. key[v] \in OccurrencesOf(Entry(v).indicator)
      BY <3>1 DEF IInv, CallOK, Claims
    <3> QED
      BY <2>2, <3>1, <3>2 DEF OccurrencesOf
  <2> QED
    BY <2>1, <2>3 DEF IInv, ClaimsAreExclusive
<1>3. CASE ~Register(w)
  <2>1. ~Claims(w)'
    <3> USE <1>1 DEF Claims, Shape, Goto, Forget, End, Fail, Advance, calls
    <3>1. CASE StartSchedulePoll(w) \/ StartReleasePoll(w)
      BY <3>1 DEF StartSchedulePoll, StartReleasePoll, Start
    <3>2. CASE Lookup(w)
      BY <3>2 DEF Lookup
    <3>3. CASE ReadOccurrence(w) \/ AttachGroup(w)
      BY <3>3 DEF ReadOccurrence, AttachGroup
    <3>4. CASE ReadCandidates(w)
      BY <3>4 DEF ReadCandidates
    <3>5. CASE ReadCandidate(w)
      <4>1. pc[w] = "candidate" /\ poll[w].kind = "RELEASE"
        BY <3>5 DEF ReadCandidate, CallOK
      <4> QED
        BY <3>5, <4>1 DEF ReadCandidate
    <3>6. CASE RecordMapping(w)
      BY <3>6 DEF RecordMapping
    <3>7. CASE ReadHistory(w)
      BY <3>7 DEF ReadHistory
    <3>8. CASE AddVintage(w)
      BY <3>8 DEF AddVintage
    <3>9. CASE Abort(w)
      BY <3>9 DEF Abort
    <3> QED
      BY <1>3, <3>1, <3>2, <3>3, <3>4, <3>5, <3>6, <3>7, <3>8, <3>9 DEF Step
  <2>2. ASSUME NEW v \in Workers, v # w, Claims(v)' PROVE Claims(v) /\ key'[v] = key[v]
    BY <1>1, <2>2, OthersStay DEF Claims
  <2> QED
    BY <2>1, <2>2 DEF IInv, ClaimsAreExclusive
<1> QED
  BY <1>2, <1>3

\* What another poll knows stays true.
LEMMA OthersKnow ==
  ASSUME IInv, NEW w \in Workers, Step(w), NEW v \in Workers, v # w
  PROVE  CallOK(v)'
<1> DEFINE e == Entry(v)
<1>1. Shape /\ KeysAreTaken /\ CallOK(v) /\ CallOK(w) /\ MappingsAgree
  BY DEF IInv
<1>2. /\ pc'[v] = pc[v] /\ poll'[v] = poll[v] /\ todo'[v] = todo[v] /\ key'[v] = key[v]
      /\ unread'[v] = unread[v] /\ matches'[v] = matches[v] /\ held'[v] = held[v]
      /\ Entry(v)' = e /\ now' = now
  BY <1>1, OthersStay, OnlyWritersWrite DEF Entry
<1>3. /\ \A i : OccurrencesOf(i) \subseteq OccurrencesOf(i)'
      /\ \A k, i : InGroup(k, i) => InGroup(k, i)'
      /\ mapping \subseteq mapping'
      /\ schedules \subseteq schedules' /\ releases \subseteq releases'
  BY <1>1, TablesGrow
<1>4. CASE pc[v] = "idle"
  BY <1>1, <1>2, <1>4 DEF CallOK
<1>5. CASE pc[v] # "idle"
  <2>1. ASSUME Claims(v)
        PROVE  /\ \A m \in mapping' : m.key = key[v] => m.item \notin ScheduleItems
               /\ \A o \in occurrences' : o.key = key[v] => o.group \subseteq {e.item}
    <3>1. /\ \A m \in mapping : m.key = key[v] => m.item \notin ScheduleItems
          /\ \A o \in occurrences : o.key = key[v] => o.group \subseteq {e.item}
          /\ key[v] \in OccurrencesOf(e.indicator)
      BY <1>1, <2>1 DEF CallOK, Claims
    <3>2. \A m \in mapping' : m.key = key[v] => m.item \notin ScheduleItems
      <4>1. CASE mapping' = mapping
        BY <3>1, <4>1
      <4>2. CASE mapping' # mapping
        <5>1. /\ pc[w] = "map"
              /\ mapping' = mapping \cup {Mapping(Entry(w), key[w])}
          BY <4>2, OnlyWritersWrite DEF tables, RecordMapping, Mapping
        <5>2. Entry(w).item \in ScheduleItems => Claims(w)
          BY <1>1, <5>1, EntryType DEF Claims
        <5>3. Claims(w) => key[w] # key[v]
          BY <2>1 DEF IInv, ClaimsAreExclusive
        <5> QED
          BY <3>1, <5>1, <5>2, <5>3 DEF Mapping
      <4> QED
        BY <4>1, <4>2
    <3>3. \A o \in occurrences' : o.key = key[v] => o.group \subseteq {e.item}
      <4>1. CASE occurrences' = occurrences
        BY <3>1, <4>1
      <4>2. CASE Register(w)
        <5>1. PICK n : n.key = Minted /\ occurrences' = occurrences \cup {n}
          BY <1>1, <4>2, RegisterAddsNew
        <5>2. key[v] # Minted
          BY <1>1, <3>1, <4>2, RegisterAddsNew DEF OccurrencesOf
        <5> QED
          BY <3>1, <5>1, <5>2
      <4>3. CASE AttachGroup(w)
        <5>1. PICK o \in occurrences, p \in Occurrence :
                o.key = key[w] /\ p.key = o.key /\ occurrences' = (occurrences \ {o}) \cup {p}
          BY <1>1, <4>3, AttachExchanges
        <5>2. Mapping(Entry(w), key[w]) \in mapping /\ Entry(w).item \in ScheduleItems
          BY <1>1, <4>3, EntryType DEF AttachGroup, CallOK
        <5>3. key[w] # key[v]
          BY <3>1, <5>2 DEF Mapping
        <5> QED
          BY <3>1, <5>1, <5>3
      <4> QED
        BY <4>1, <4>2, <4>3, OnlyWritersWrite DEF tables
    <3> QED
      BY <3>2, <3>3
  <2>2. OfOccurrence(Rows(v), key[v]) \subseteq OfOccurrence(Rows(v), key[v])'
    BY <1>2, <1>3 DEF OfOccurrence, Rows
  <2>3. pc[v] \in {"map", "history", "add"} /\ poll[v].kind = "SCHEDULE" /\ e.package =>
           InGroup(key[v], e.item)'
    BY <1>1, <1>2, <1>3, <1>5 DEF CallOK
  <2>4. pc[v] = "add" =>
           held[v] \subseteq {r \in OfOccurrence(Rows(v), key[v])' : r.fact # e.fact}
    BY <1>1, <1>5, <2>2 DEF CallOK
  <2> HIDE DEF e
  <2>5. /\ pc[v] = "candidate" => unread[v] \cup matches[v] \subseteq OccurrencesOf(e.indicator)'
        /\ pc[v] = "map" => key[v] \in OccurrencesOf(e.indicator)'
        /\ pc[v] \in {"occurrence", "attach", "history", "add"} => Mapping(e, key[v]) \in mapping'
    BY <1>1, <1>2, <1>3, <1>5 DEF CallOK, e
  <2>6. /\ poll[v] \in Poll /\ poll[v].at <= now
        /\ todo[v] \in Seq(EntriesOf(poll[v].kind)) /\ todo[v] # <<>>
        /\ pc[v] \in {"candidates", "candidate"} => poll[v].kind = "RELEASE"
        /\ pc[v] \in {"occurrence", "attach"} => poll[v].kind = "SCHEDULE" /\ e.package
        /\ pc[v] \in {"lookup", "candidates"} => matches[v] = {}
    BY <1>1, <1>5 DEF CallOK, e
  <2>7. e' = e /\ Entry(v)' = e /\ (EntriesOf(poll[v].kind))' = EntriesOf(poll[v].kind)
        /\ Poll' = Poll /\ ScheduleItems' = ScheduleItems
    BY <1>2 DEF e, EntriesOf
  <2> QED
    BY <1>2, <1>5, <2>1, <2>3, <2>4, <2>5, <2>6, <2>7 DEF CallOK, Claims, Mapping
<1> QED
  BY <1>4, <1>5

\* After an entry, a poll turns to the next or ends.
LEMMA MovedOn ==
  ASSUME Shape, NEW w \in Workers, CallOK(w), pc[w] # "idle", Advance(w) \/ End(w), now' = now
  PROVE  CallOK(w)'
<1> USE DEF Shape
<1>1. CASE End(w)
  <2>1. pc'[w] = "idle" /\ matches'[w] = {}
    BY <1>1 DEF End, Forget
  <2> QED
    BY <2>1 DEF CallOK
<1>2. CASE ~End(w)
  <2>1. /\ Len(todo[w]) # 1 /\ pc'[w] = "lookup" /\ todo'[w] = Tail(todo[w])
        /\ poll'[w] = poll[w] /\ matches'[w] = {}
    BY <1>2 DEF Advance, Forget
  <2>2. /\ poll[w] \in Poll /\ poll[w].at <= now
        /\ todo[w] \in Seq(EntriesOf(poll[w].kind)) /\ todo[w] # <<>>
    BY DEF CallOK
  <2>3. /\ todo'[w] \in Seq(EntriesOf(poll[w].kind)) /\ todo'[w] # <<>>
    <3> DEFINE E == EntriesOf(poll[w].kind)
    <3>1. todo[w] \in Seq(E) /\ todo[w] # <<>>
      BY <2>2
    <3> HIDE DEF E
    <3>2. Len(todo[w]) \in Nat \ {0, 1}
      BY <2>1, <3>1
    <3>3. Tail(todo[w]) \in Seq(E) /\ Len(Tail(todo[w])) = Len(todo[w]) - 1
      BY <3>1
    <3>4. Tail(todo[w]) # <<>>
      <4>1. Len(todo[w]) - 1 # 0
        BY <3>2
      <4>2. Len(Tail(todo[w])) # 0
        BY <3>3, <4>1
      <4>3. Len(<<>>) = 0
        OBVIOUS
      <4> QED
        BY <4>2, <4>3
    <3> QED
      BY <2>1, <3>3, <3>4 DEF E
  <2>4. /\ EntriesOf(poll'[w].kind) = EntriesOf(poll[w].kind)
        /\ (EntriesOf(poll[w].kind))' = EntriesOf(poll'[w].kind) /\ Poll' = Poll
    BY <2>1 DEF EntriesOf
  <2> QED
    BY <2>1, <2>2, <2>3, <2>4 DEF CallOK
<1> QED
  BY <1>1, <1>2

\* A poll that goes on with its entry keeps it.
LEMMA SameEntry ==
  ASSUME Shape, NEW w \in Workers, CallOK(w), pc[w] # "idle", now' = now,
         poll'[w] = poll[w], todo'[w] = todo[w]
  PROVE  /\ Entry(w)' = Entry(w)
         /\ (poll[w] \in Poll /\ poll[w].at <= now)'
         /\ (todo[w] \in Seq(EntriesOf(poll[w].kind)) /\ todo[w] # <<>>)'
         /\ (Entry(w).item \in ScheduleItems)' <=> poll[w].kind = "SCHEDULE"
<1>1. /\ poll[w] \in Poll /\ poll[w].at <= now
      /\ todo[w] \in Seq(EntriesOf(poll[w].kind)) /\ todo[w] # <<>>
  BY DEF CallOK
<1>2. /\ EntriesOf(poll'[w].kind) = EntriesOf(poll[w].kind)
      /\ (EntriesOf(poll[w].kind))' = EntriesOf(poll'[w].kind)
      /\ Poll' = Poll /\ ScheduleItems' = ScheduleItems
  BY DEF EntriesOf
<1>3. Entry(w)' = Entry(w)
  BY DEF Entry
<1>4. Entry(w).item \in ScheduleItems <=> poll[w].kind = "SCHEDULE"
  BY EntryType
<1> QED
  BY <1>1, <1>2, <1>3, <1>4

\* What the poll that makes a step knows after it.
LEMMA MoverKnows ==
  ASSUME IInv, NEW w \in Workers, Step(w)
  PROVE  CallOK(w)'
<1> DEFINE e == Entry(w)
<1>1. Shape /\ KeysAreTaken /\ MappingsAgree /\ GroupsAreItems /\ CallOK(w) /\ Shape'
  BY ShapeStep DEF IInv
<1>2. /\ \A i : OccurrencesOf(i) \subseteq OccurrencesOf(i)'
      /\ \A k, i : InGroup(k, i) => InGroup(k, i)'
      /\ mapping \subseteq mapping'
      /\ now' = now
  BY <1>1, TablesGrow, OnlyWritersWrite
<1>3. CASE StartSchedulePoll(w) \/ StartReleasePoll(w)
  <2>1. PICK kind \in {"SCHEDULE", "RELEASE"}, r \in Schedules \cup Releases :
          /\ Entries(r) \in Seq(EntriesOf(kind)) /\ Start(w, kind, r)
    BY <1>3, ResponsesType DEF StartSchedulePoll, StartReleasePoll
  <2>2. /\ pc[w] = "idle" /\ pc'[w] = "lookup" /\ matches'[w] = matches[w]
        /\ poll'[w] = [kind |-> kind, at |-> now] /\ todo'[w] = Entries(r) /\ Entries(r) # <<>>
    BY <1>1, <2>1 DEF Start, Shape, calls
  <2>3. poll'[w].kind = kind /\ poll'[w] \in Poll /\ poll'[w].at <= now
    <3>1. now \in Times /\ now <= now
      BY <1>1 DEF Shape, Times
    <3> QED
      BY <2>2, <3>1 DEF Poll
  <2>4. matches[w] = {}
    BY <1>1, <2>2 DEF CallOK
  <2>5. EntriesOf(kind) = EntriesOf(poll'[w].kind) /\ (EntriesOf(poll[w].kind))' = EntriesOf(poll'[w].kind)
        /\ Poll' = Poll
    BY <2>3 DEF EntriesOf
  <2> QED
    BY <1>2, <2>1, <2>2, <2>3, <2>4, <2>5 DEF CallOK
<1>4. CASE Lookup(w)
  <2>1. /\ pc[w] = "lookup" /\ poll'[w] = poll[w] /\ todo'[w] = todo[w]
        /\ matches'[w] = matches[w] /\ unread'[w] = unread[w]
    BY <1>1, <1>4 DEF Lookup, Goto
  <2>2. /\ Entry(w)' = e /\ (poll[w] \in Poll /\ poll[w].at <= now)'
        /\ (todo[w] \in Seq(EntriesOf(poll[w].kind)) /\ todo[w] # <<>>)'
    BY <1>1, <1>2, <2>1, SameEntry
  <2>3. matches[w] = {} /\ poll[w].kind \in {"SCHEDULE", "RELEASE"}
    BY <1>1, <2>1, EntryType DEF CallOK
  <2>4. CASE pc'[w] = IF poll[w].kind = "SCHEDULE" THEN "register" ELSE "candidates"
    BY <2>1, <2>2, <2>3, <2>4 DEF CallOK
  <2>5. CASE \E k \in MappedTo(e) :
                /\ key' = [key EXCEPT ![w] = k]
                /\ pc'[w] = IF poll[w].kind = "SCHEDULE" /\ e.package THEN "occurrence" ELSE "history"
    <3>1. PICK k \in MappedTo(e) :
            /\ key'[w] = k
            /\ pc'[w] = IF poll[w].kind = "SCHEDULE" /\ e.package THEN "occurrence" ELSE "history"
      BY <1>1, <2>5 DEF Shape
    <3>2. PICK m \in mapping : m.key = k /\ m.item = e.item /\ m.indicator = e.indicator
      BY <3>1 DEF MappedTo
    <3>3. m = Mapping(e, k)
      BY <1>1, <3>2 DEF Shape, Mapping
    <3>4. Mapping(e, k) \in mapping'
      BY <1>2, <3>2, <3>3
    <3>5. (Mapping(Entry(w), key[w]))' = Mapping(e, k)
      BY <2>2, <3>1 DEF Mapping
    <3> QED
      BY <2>1, <2>2, <2>3, <3>1, <3>4, <3>5 DEF CallOK
  <2> QED
    BY <1>1, <1>4, <2>4, <2>5 DEF Lookup, Goto, Shape
<1>5. CASE ReadOccurrence(w)
  <2>1. /\ pc[w] = "occurrence" /\ poll'[w] = poll[w] /\ todo'[w] = todo[w] /\ key'[w] = key[w]
        /\ \E o \in occurrences :
              o.key = key[w] /\ pc'[w] = IF o.group = {} THEN "attach" ELSE "history"
    BY <1>1, <1>5 DEF ReadOccurrence, Goto, calls, Shape, Ungrouped
  <2>2. /\ Entry(w)' = e /\ (poll[w] \in Poll /\ poll[w].at <= now)'
        /\ (todo[w] \in Seq(EntriesOf(poll[w].kind)) /\ todo[w] # <<>>)'
    BY <1>1, <1>2, <2>1, SameEntry
  <2>3. Mapping(e, key[w]) \in mapping /\ e.item \in ScheduleItems /\ poll[w].kind = "SCHEDULE" /\ e.package
    BY <1>1, <2>1, EntryType DEF CallOK
  <2>4. (Mapping(Entry(w), key[w]))' = Mapping(e, key[w]) /\ Mapping(e, key[w]) \in mapping'
    BY <1>2, <2>1, <2>2, <2>3 DEF Mapping
  <2>5. PICK o \in occurrences : o.key = key[w] /\ pc'[w] = IF o.group = {} THEN "attach" ELSE "history"
    BY <2>1
  <2>6. CASE o.group = {}
    BY <2>1, <2>2, <2>3, <2>4, <2>5, <2>6 DEF CallOK
  <2>7. CASE o.group # {}
    <3>1. o.group = {e.item}
      BY <1>1, <2>3, <2>5, <2>7 DEF GroupsAreItems, Mapping
    <3>2. InGroup(key[w], e.item)
      BY <2>5, <3>1 DEF InGroup
    <3>3. InGroup(key[w], Entry(w).item)'
      BY <1>2, <2>1, <2>2, <3>2
    <3> QED
      BY <2>1, <2>2, <2>4, <2>5, <2>7, <3>3 DEF CallOK
  <2> QED
    BY <2>6, <2>7
<1>6. CASE AttachGroup(w)
  <2>1. /\ pc[w] = "attach" /\ pc'[w] = "history"
        /\ poll'[w] = poll[w] /\ todo'[w] = todo[w] /\ key'[w] = key[w]
    BY <1>1, <1>6 DEF AttachGroup, Goto, calls, Shape
  <2>2. /\ Entry(w)' = e /\ (poll[w] \in Poll /\ poll[w].at <= now)'
        /\ (todo[w] \in Seq(EntriesOf(poll[w].kind)) /\ todo[w] # <<>>)'
    BY <1>1, <1>2, <2>1, SameEntry
  <2>3. Mapping(e, key[w]) \in mapping
    BY <1>1, <2>1 DEF CallOK
  <2>4. (Mapping(Entry(w), key[w]))' = Mapping(e, key[w]) /\ Mapping(e, key[w]) \in mapping'
    BY <1>2, <2>1, <2>2, <2>3 DEF Mapping
  <2>5. InGroup(key[w], Entry(w).item)'
    <3>1. PICK o \in occurrences, p \in Occurrence :
            /\ o.key = key[w] /\ p.key = o.key /\ p.group = {e.item}
            /\ occurrences' = (occurrences \ {o}) \cup {p}
      BY <1>1, <1>6, AttachExchanges
    <3>2. p \in occurrences' /\ p.key = key'[w] /\ p.group = {Entry(w)'.item}
      BY <2>1, <2>2, <3>1
    <3> QED
      BY <3>2 DEF InGroup
  <2> QED
    BY <2>1, <2>2, <2>4, <2>5 DEF CallOK
<1>7. CASE ReadCandidates(w)
  <2>1. /\ pc[w] = "candidates" /\ poll'[w] = poll[w] /\ todo'[w] = todo[w]
        /\ matches'[w] = matches[w] /\ unread'[w] = OccurrencesOf(e.indicator)
        /\ pc'[w] \in {"register", "candidate"}
    BY <1>1, <1>7 DEF ReadCandidates, Goto, Shape, OccurrencesOf
  <2>2. /\ Entry(w)' = e /\ (poll[w] \in Poll /\ poll[w].at <= now)'
        /\ (todo[w] \in Seq(EntriesOf(poll[w].kind)) /\ todo[w] # <<>>)'
    BY <1>1, <1>2, <2>1, SameEntry
  <2>3. matches[w] = {} /\ poll[w].kind = "RELEASE"
    BY <1>1, <2>1 DEF CallOK
  <2>4. unread'[w] \cup matches'[w] \subseteq OccurrencesOf(Entry(w).indicator)'
    BY <1>2, <2>1, <2>2, <2>3
  <2> QED
    BY <2>1, <2>2, <2>3, <2>4 DEF CallOK
<1>8. CASE ReadCandidate(w)
  <2>1. pc[w] = "candidate" /\ poll[w].kind = "RELEASE"
        /\ unread[w] \cup matches[w] \subseteq OccurrencesOf(e.indicator)
    BY <1>1, <1>8 DEF CallOK, ReadCandidate
  <2>2. CASE Advance(w)
    BY <1>1, <1>2, <2>1, <2>2, MovedOn
  <2>3. CASE ~Advance(w)
    <3>0. PICK k \in unread[w] : \E found \in SUBSET (matches[w] \cup {k}) :
            \/ /\ unread' = [unread EXCEPT ![w] = @ \ {k}]
               /\ matches' = [matches EXCEPT ![w] = found]
               /\ UNCHANGED <<pc, poll, todo>>
            \/ /\ found # {} => key'[w] \in found
               /\ UNCHANGED <<poll, todo>>
               /\ pc' = [pc EXCEPT ![w] = IF found = {} THEN "register" ELSE "map"]
      <4>1. PICK k \in unread[w] :
              LET found == matches[w] \cup {m \in {k} : \E s \in Latest(OfOccurrence(schedules, k)) :
                                                          s.fact.date = Entry(w).fact.date}
              IN IF unread[w] # {k}
                 THEN /\ unread' = [unread EXCEPT ![w] = @ \ {k}]
                      /\ matches' = [matches EXCEPT ![w] = found]
                      /\ UNCHANGED <<pc, poll, todo, key, held, reported>>
                 ELSE IF Cardinality(found) > 1 THEN Advance(w)
                 ELSE /\ key' = [key EXCEPT ![w] = IF found = {} THEN 0 ELSE CHOOSE m \in found : TRUE]
                      /\ unread' = [unread EXCEPT ![w] = {}]
                      /\ Goto(w, IF found = {} THEN "register" ELSE "map")
                      /\ UNCHANGED <<matches, held>>
        BY <1>8 DEF ReadCandidate
      <4> DEFINE found == matches[w] \cup {m \in {k} : \E s \in Latest(OfOccurrence(schedules, k)) :
                                                          s.fact.date = Entry(w).fact.date}
      <4>2. found \in SUBSET (matches[w] \cup {k})
        OBVIOUS
      <4> HIDE DEF found
      <4>3. \/ /\ unread' = [unread EXCEPT ![w] = @ \ {k}]
               /\ matches' = [matches EXCEPT ![w] = found]
               /\ UNCHANGED <<pc, poll, todo>>
            \/ /\ key' = [key EXCEPT ![w] = IF found = {} THEN 0 ELSE CHOOSE m \in found : TRUE]
               /\ Goto(w, IF found = {} THEN "register" ELSE "map")
        BY <2>3, <4>1 DEF found
      <4>4. found # {} => (CHOOSE m \in found : TRUE) \in found
        OBVIOUS
      <4>5. CASE /\ key' = [key EXCEPT ![w] = IF found = {} THEN 0 ELSE CHOOSE m \in found : TRUE]
                 /\ Goto(w, IF found = {} THEN "register" ELSE "map")
        <5>1. found # {} => key'[w] \in found
          BY <1>1, <4>4, <4>5 DEF Shape
        <5> QED
          BY <4>2, <4>5, <5>1 DEF Goto
      <4> QED
        BY <4>2, <4>3, <4>5
    <3>1. PICK found \in SUBSET (matches[w] \cup {k}) :
            \/ /\ unread' = [unread EXCEPT ![w] = @ \ {k}]
               /\ matches' = [matches EXCEPT ![w] = found]
               /\ UNCHANGED <<pc, poll, todo>>
            \/ /\ found # {} => key'[w] \in found
               /\ UNCHANGED <<poll, todo>>
               /\ pc' = [pc EXCEPT ![w] = IF found = {} THEN "register" ELSE "map"]
      BY <3>0
    <3>2. poll'[w] = poll[w] /\ todo'[w] = todo[w]
      BY <3>1
    <3>3. /\ Entry(w)' = e /\ (poll[w] \in Poll /\ poll[w].at <= now)'
          /\ (todo[w] \in Seq(EntriesOf(poll[w].kind)) /\ todo[w] # <<>>)'
      BY <1>1, <1>2, <2>1, <3>2, SameEntry
    <3>4. found \subseteq OccurrencesOf(Entry(w).indicator)'
      BY <1>2, <2>1, <3>1, <3>3
    <3>5. CASE /\ unread' = [unread EXCEPT ![w] = @ \ {k}]
               /\ matches' = [matches EXCEPT ![w] = found]
               /\ UNCHANGED <<pc, poll, todo>>
      <4>1. unread'[w] \cup matches'[w] \subseteq OccurrencesOf(Entry(w).indicator)'
        BY <1>1, <1>2, <2>1, <3>3, <3>4, <3>5 DEF Shape
      <4> QED
        BY <1>1, <2>1, <3>2, <3>3, <3>5, <4>1 DEF CallOK
    <3>6. CASE /\ found # {} => key'[w] \in found
               /\ pc'[w] = IF found = {} THEN "register" ELSE "map"
      <4>1. pc'[w] = "map" => key'[w] \in OccurrencesOf(Entry(w).indicator)'
        BY <3>4, <3>6
      <4>2. pc'[w] \in {"register", "map"}
        BY <3>6
      <4> QED
        BY <2>1, <3>2, <3>3, <4>1, <4>2 DEF CallOK
    <3> QED
      BY <1>1, <3>1, <3>5, <3>6 DEF Shape
  <2> QED
    BY <2>2, <2>3
<1>9. CASE Register(w)
  <2>1. /\ pc[w] = "register" /\ pc'[w] = "map" /\ key'[w] = Minted
        /\ poll'[w] = poll[w] /\ todo'[w] = todo[w] /\ mapping' = mapping
    BY <1>1, <1>9 DEF Register, Goto, Shape
  <2>2. /\ Entry(w)' = e /\ (poll[w] \in Poll /\ poll[w].at <= now)'
        /\ (todo[w] \in Seq(EntriesOf(poll[w].kind)) /\ todo[w] # <<>>)'
    BY <1>1, <1>2, <2>1, SameEntry
  <2>3. PICK n \in Occurrence :
          /\ n.key = Minted /\ n.indicator = e.indicator /\ n.group \subseteq {e.item}
          /\ Claims(w)' /\ e.package => n.group = {e.item}
          /\ occurrences' = occurrences \cup {n}
    BY <1>1, <1>9, RegisterAddsNew
  <2>4. \A o \in occurrences : o.key # Minted
    BY <1>1, <1>9, RegisterAddsNew
  <2>5. Minted \in OccurrencesOf(e.indicator)'
    BY <2>2, <2>3 DEF OccurrencesOf
  <2>6. \A m \in mapping' : m.key # Minted
    BY <1>1, <2>1, <2>4 DEF MappingsAgree, OccurrencesOf
  <2>7. \A o \in occurrences' : o.key = Minted => o.group \subseteq {e.item}
    BY <2>3, <2>4
  <2>8. poll[w].kind = "SCHEDULE" /\ e.package => InGroup(key[w], Entry(w).item)'
    <3>1. SUFFICES ASSUME poll[w].kind = "SCHEDULE", e.package PROVE InGroup(key[w], Entry(w).item)'
      OBVIOUS
    <3>2. n \in occurrences' /\ n.key = key'[w] /\ n.group = {Entry(w)'.item}
      BY <2>1, <2>2, <2>3, <3>1 DEF Claims
    <3> QED
      BY <3>2 DEF InGroup
  <2>9. key'[w] \in OccurrencesOf(Entry(w).indicator)'
    BY <2>1, <2>2, <2>5
  <2>10. /\ \A m \in mapping' : m.key = key'[w] => m.item \notin ScheduleItems'
         /\ \A o \in occurrences' : o.key = key'[w] => o.group \subseteq {(Entry(w).item)'}
    BY <2>1, <2>2, <2>6, <2>7
  <2> HIDE DEF e
  <2> QED
    BY <2>1, <2>2, <2>8, <2>9, <2>10 DEF CallOK, e
<1>10. CASE RecordMapping(w)
  <2>1. pc[w] = "map"
    BY <1>10 DEF RecordMapping
  <2>2. CASE End(w)
    BY <1>1, <1>2, <2>1, <2>2, MovedOn
  <2>3. CASE ~End(w)
    <3>1. /\ pc'[w] = "history" /\ poll'[w] = poll[w] /\ todo'[w] = todo[w] /\ key'[w] = key[w]
      BY <1>1, <1>10, <2>3 DEF RecordMapping, Fail, Goto, calls, Shape
    <3>2. /\ Entry(w)' = e /\ (poll[w] \in Poll /\ poll[w].at <= now)'
          /\ (todo[w] \in Seq(EntriesOf(poll[w].kind)) /\ todo[w] # <<>>)'
      BY <1>1, <1>2, <2>1, <3>1, SameEntry
    <3>3. Mapping(e, key[w]) \in mapping'
      <4>1. CASE MappedTo(e) = {}
        BY <1>10, <4>1 DEF RecordMapping, Mapping
      <4>2. CASE MappedTo(e) # {}
        <5>1. MappedTo(e) = {key[w]}
          BY <1>10, <2>3, <4>2 DEF RecordMapping, SameMapping, Fail
        <5>2. PICK m \in mapping : m.key = key[w] /\ m.item = e.item /\ m.indicator = e.indicator
          BY <5>1 DEF MappedTo
        <5>3. m = Mapping(e, key[w])
          BY <1>1, <5>2 DEF Shape, Mapping
        <5> QED
          BY <1>2, <5>2, <5>3
      <4> QED
        BY <4>1, <4>2
    <3>4. (Mapping(Entry(w), key[w]))' = Mapping(e, key[w])
      BY <3>1, <3>2 DEF Mapping
    <3>5. poll[w].kind = "SCHEDULE" /\ e.package => InGroup(key[w], Entry(w).item)'
      BY <1>1, <1>2, <2>1, <3>1, <3>2 DEF CallOK
    <3> HIDE DEF e
    <3> QED
      BY <3>1, <3>2, <3>3, <3>4, <3>5 DEF CallOK, e
  <2> QED
    BY <2>2, <2>3
<1>11. CASE ReadHistory(w)
  <2>1. pc[w] = "history" /\ UNCHANGED tables
    BY <1>11 DEF ReadHistory
  <2>2. CASE Advance(w)
    BY <1>1, <1>2, <2>1, <2>2, MovedOn
  <2>3. CASE ~Advance(w)
    <3>1. /\ pc'[w] = "add" /\ poll'[w] = poll[w] /\ todo'[w] = todo[w] /\ key'[w] = key[w]
          /\ held'[w] = Latest(OfOccurrence(Rows(w), key[w]))
          /\ ~\E l \in Latest(OfOccurrence(Rows(w), key[w])) : l.fact = e.fact
      BY <1>1, <1>11, <2>3 DEF ReadHistory, Goto, Shape
    <3>2. /\ Entry(w)' = e /\ (poll[w] \in Poll /\ poll[w].at <= now)'
          /\ (todo[w] \in Seq(EntriesOf(poll[w].kind)) /\ todo[w] # <<>>)'
      BY <1>1, <1>2, <2>1, <3>1, SameEntry
    <3>3. Mapping(e, key[w]) \in mapping' /\ (Mapping(Entry(w), key[w]))' = Mapping(e, key[w])
      BY <1>1, <2>1, <3>1, <3>2 DEF CallOK, Mapping, tables
    <3>4. poll[w].kind = "SCHEDULE" /\ e.package => InGroup(key[w], Entry(w).item)'
      BY <1>1, <1>2, <2>1, <3>1, <3>2 DEF CallOK
    <3>5. OfOccurrence(Rows(w), key[w])' = OfOccurrence(Rows(w), key[w])
      BY <2>1, <3>1 DEF OfOccurrence, Rows, tables
    <3>6. held'[w] \subseteq {r \in OfOccurrence(Rows(w), key[w])' : r.fact # (Entry(w).fact)'}
      BY <3>1, <3>2, <3>5 DEF Latest
    <3> HIDE DEF e
    <3> QED
      BY <3>1, <3>2, <3>3, <3>4, <3>6 DEF CallOK, e
  <2> QED
    BY <2>2, <2>3
<1>12. CASE AddVintage(w)
  <2>1. pc[w] # "idle" /\ (Advance(w) \/ End(w))
    BY <1>12 DEF AddVintage, Fail
  <2> QED
    BY <1>1, <1>2, <2>1, MovedOn
<1>13. CASE Abort(w)
  <2>1. pc[w] # "idle" /\ End(w)
    BY <1>13 DEF Abort, Fail
  <2> QED
    BY <1>1, <1>2, <2>1, MovedOn
<1> QED
  BY <1>3, <1>4, <1>5, <1>6, <1>7, <1>8, <1>9, <1>10, <1>11, <1>12, <1>13 DEF Step

-----------------------------------------------------------------------------
(* The invariant.                                                          *)

LEMMA InitHolds == Init => IInv
<1> SUFFICES ASSUME Init PROVE IInv
  OBVIOUS
<1> USE DEF Init
<1>1. Shape
  BY CalendarAssumption DEF Shape, Times, Steps
<1>2. KeysAreTaken
  BY FS_EmptySet DEF KeysAreTaken
<1>3. MappingsAgree /\ GroupsAreItems /\ RowsAreUnique /\ RowsAreMapped
      /\ RepeatsAddNothing /\ ReportedAreGrouped
  BY DEF MappingsAgree, GroupsAreItems, RowsAreUnique, RowsAreMapped, RepeatsAddNothing,
         ReportedAreGrouped
<1>4. ClaimsAreExclusive /\ \A w \in Workers : CallOK(w)
  BY DEF ClaimsAreExclusive, Claims, CallOK
<1> QED
  BY <1>1, <1>2, <1>3, <1>4 DEF IInv

\* Nothing depends on the time but that no poll is ahead of it.
LEMMA TimeMayPass ==
  ASSUME IInv, now' \in Times, now <= now',
         UNCHANGED <<tables, pc, poll, todo, calls, made, reported>>
  PROVE  IInv'
<1>1. /\ now' \in Times
      /\ UNCHANGED <<tables, pc, poll, todo, calls, made, reported>>
  OBVIOUS
<1>2. Shape'
  BY <1>1 DEF IInv, Shape, tables, calls
<1>3. KeysAreTaken' /\ MappingsAgree' /\ GroupsAreItems'
  BY <1>1 DEF IInv, KeysAreTaken, MappingsAgree, GroupsAreItems, OccurrencesOf, tables
<1>4. RowsAreUnique' /\ RowsAreMapped' /\ RepeatsAddNothing' /\ ReportedAreGrouped'
  BY <1>1 DEF IInv, RowsAreUnique, RowsAreMapped, RepeatsAddNothing, ReportedAreGrouped,
              OfOccurrence, InGroup, tables
<1>5. ClaimsAreExclusive'
  BY <1>1 DEF IInv, ClaimsAreExclusive, Claims, calls
<1>6. ASSUME NEW w \in Workers PROVE CallOK(w)'
  <2>1. CallOK(w)
    BY DEF IInv
  <2>2. poll[w] \in Poll /\ poll[w].at <= now => poll[w].at <= now'
    BY <1>1 DEF Poll, Times, IInv, Shape
  <2>3. /\ Entry(w)' = Entry(w) /\ (EntriesOf(poll[w].kind))' = EntriesOf(poll[w].kind)
        /\ Poll' = Poll /\ OfOccurrence(Rows(w), key[w])' = OfOccurrence(Rows(w), key[w])
        /\ (OccurrencesOf(Entry(w).indicator))' = OccurrencesOf(Entry(w).indicator)
        /\ (InGroup(key[w], Entry(w).item))' <=> InGroup(key[w], Entry(w).item)
        /\ (Mapping(Entry(w), key[w]))' = Mapping(Entry(w), key[w])
    BY <1>1 DEF Entry, EntriesOf, OfOccurrence, Rows, OccurrencesOf, InGroup, Mapping, calls, tables
  <2> QED
    BY <1>1, <2>1, <2>2, <2>3 DEF CallOK, calls, tables
<1> QED
  BY <1>2, <1>3, <1>4, <1>5, <1>6 DEF IInv

LEMMA StepHolds ==
  ASSUME IInv, NEW w \in Workers, Step(w)
  PROVE  IInv'
<1>1. KeysAreTaken'
  BY TablesGrow DEF IInv
<1>2. MappingsAgree' /\ GroupsAreItems'
  BY MappingsStep
<1>3. RowsAreUnique' /\ RowsAreMapped' /\ RepeatsAddNothing'
  BY RowsStep
<1>4. Shape' /\ ReportedAreGrouped' /\ ClaimsAreExclusive'
  BY ShapeStep, ReportedStep, ClaimsStep
<1>5. \A v \in Workers : CallOK(v)'
  BY OthersKnow, MoverKnows
<1> QED
  BY <1>1, <1>2, <1>3, <1>4, <1>5 DEF IInv

LEMMA InvariantHolds == Spec => []IInv
<1>1. Init => IInv
  BY InitHolds
<1>2. IInv /\ [Next]_vars => IInv'
  <2>1. IInv /\ Tick => IInv'
    BY TimeMayPass, CalendarAssumption DEF Tick, IInv, Shape, Times
  <2>2. IInv /\ UNCHANGED vars => IInv'
    <3>1. IInv => now \in Times /\ now <= now
      BY DEF IInv, Shape, Times
    <3> QED
      BY <3>1, TimeMayPass DEF vars
  <2>3. ASSUME IInv, NEW w \in Workers, Step(w) PROVE IInv'
    BY <2>3, StepHolds
  <2> QED
    BY <2>1, <2>2, <2>3 DEF Next
<1> QED
  BY <1>1, <1>2, PTL DEF Spec

-----------------------------------------------------------------------------
(* Theorems.                                                               *)

\* The calendar's rows and the control of its polls stay well formed: keys and
\* revisions are taken once (the unique constraints of the tables are never what
\* keeps two writers apart unnoticed), and a mapping leads to one occurrence.
THEOREM TypeCorrect == Spec => []TypeOK
<1>1. IInv => TypeOK
  <2>1. \A F : \A r \in RowOf(F) : r.fact \in F /\ r.availability \in Times
    BY DEF RowOf
  <2> QED
    BY <2>1 DEF IInv, Shape, KeysAreTaken, MappingsAgree, RowsAreUnique, TypeOK
<1> QED
  BY <1>1, InvariantHolds, PTL

\* Keys are keys: what CHOOSE finds in the occurrences is the only one there is.
LEMMA KeysLeadToOne ==
  ASSUME KeysAreTaken, NEW o \in occurrences
  PROVE  /\ IndicatorOf(o.key) = o.indicator
         /\ GroupOf(o.key) = [group |-> o.group, alone |-> {j \in {o.key} : o.group = {}}]
  BY DEF KeysAreTaken, IndicatorOf, GroupOf

\* No vintage is ever about an occurrence its item is not mapped to, whatever polls
\* race to register one and wherever they die (_resolve_occurrence_key before
\* _ingest_indicator and _ingest_release_vintage).
THEOREM VintagesFollowMappings == Spec => []OneOccurrencePerItem
<1>1. IInv => OneOccurrencePerItem
  <2> SUFFICES ASSUME IInv, NEW r \in schedules \cup releases
               PROVE  [item |-> r.item, indicator |-> IndicatorOf(r.key), key |-> r.key] \in mapping
    BY DEF OneOccurrencePerItem
  <2>1. PICK m \in mapping : m.item = r.item /\ m.key = r.key
    BY DEF IInv, RowsAreMapped
  <2>2. PICK o \in occurrences : o.key = m.key /\ o.indicator = m.indicator
    BY DEF IInv, MappingsAgree, OccurrencesOf
  <2>3. IndicatorOf(r.key) = m.indicator
    BY <2>1, <2>2, KeysLeadToOne DEF IInv
  <2>4. m = [item |-> r.item, indicator |-> IndicatorOf(r.key), key |-> r.key]
    BY <2>1, <2>3 DEF IInv, Shape
  <2> QED
    BY <2>4
<1> QED
  BY <1>1, InvariantHolds, PTL

\* However many polls found the same news at once, no vintage says what the one
\* before it says (the compare-then-append of _ingest_indicator and
\* _ingest_release_vintage, with the unique constraint against a stale read).
THEOREM NothingIsRepeated == Spec => []RepeatsAddNothing
<1>1. IInv => RepeatsAddNothing
  BY DEF IInv
<1> QED
  BY <1>1, InvariantHolds, PTL

\* The members of a package a poll has reported on are one event in every snapshot
\* from then on, whoever registered each of them.
THEOREM ReportedPackagesAreOne == Spec => []PackagesAreOneEvent
<1>1. IInv => PackagesAreOneEvent
  <2> SUFFICES ASSUME IInv, NEW t \in Times,
                      NEW r \in Evidence(t).upcoming, NEW x \in Evidence(t).upcoming,
                      NEW m \in reported, NEW n \in reported,
                      m.item = n.item, m.key = r.key, n.key = x.key
               PROVE  \E g \in Groups(Evidence(t).upcoming) : {r, x} \subseteq g
    BY DEF PackagesAreOneEvent
  <2> DEFINE listed == Evidence(t).upcoming
  <2>1. PICK o \in occurrences : o.key = m.key /\ o.group = {m.item}
    BY DEF IInv, ReportedAreGrouped, InGroup
  <2>2. PICK p \in occurrences : p.key = n.key /\ p.group = {n.item}
    BY DEF IInv, ReportedAreGrouped, InGroup
  <2>3. GroupOf(r.key) = [group |-> {m.item}, alone |-> {}]
    BY <2>1, KeysLeadToOne DEF IInv
  <2>4. GroupOf(x.key) = [group |-> {m.item}, alone |-> {}]
    BY <2>2, KeysLeadToOne DEF IInv
  <2>5. r \in listed /\ x \in listed
    OBVIOUS
  <2> HIDE DEF listed
  <2>6. {y \in listed : GroupOf(y.key) = GroupOf(r.key)} \in Groups(listed)
    BY <2>5 DEF Groups
  <2> QED
    BY <2>3, <2>4, <2>5, <2>6 DEF listed
<1> QED
  BY <1>1, InvariantHolds, PTL

\* attach_release_group never finds another group than the one it brings, so it
\* never raises: the guard of AttachGroup leaves out nothing the code does.
GroupsNeverConflict ==
    \A w \in Workers : pc[w] = "attach" =>
        \E o \in occurrences : o.key = key[w] /\ o.group \in {{}, {Entry(w).item}}

\* A package's member is in no other package, whatever releases were matched to it.
THEOREM GroupsAreNeverContested == Spec => []GroupsNeverConflict
<1>1. IInv => GroupsNeverConflict
  <2> SUFFICES ASSUME IInv, NEW w \in Workers, pc[w] = "attach"
               PROVE  \E o \in occurrences : o.key = key[w] /\ o.group \in {{}, {Entry(w).item}}
    BY DEF GroupsNeverConflict
  <2>1. Shape /\ CallOK(w)
    BY DEF IInv
  <2>2. Mapping(Entry(w), key[w]) \in mapping /\ Entry(w).item \in ScheduleItems
    BY <2>1, EntryType DEF CallOK
  <2>3. PICK o \in occurrences : o.key = key[w]
    BY <2>2 DEF IInv, MappingsAgree, OccurrencesOf, Mapping
  <2>4. o.group \subseteq {Entry(w).item}
    BY <2>2, <2>3 DEF IInv, GroupsAreItems, Mapping
  <2> QED
    BY <2>3, <2>4
<1> QED
  BY <1>1, InvariantHolds, PTL

\* A vintage of later is not seen by a reader as of earlier.
LEMMA LaterIsUnseen ==
  ASSUME NEW t \in Int, NEW rows, NEW n, n.availability \in Int, n.availability > t
  PROVE  VisibleAt(rows \cup {n}, t) = VisibleAt(rows, t)
<1>1. \A k : OfOccurrence(rows, k) \subseteq OfOccurrence(rows \cup {n}, k)
  BY DEF OfOccurrence
<1>2. \A k : \A x \in OfOccurrence(rows \cup {n}, k) : x \in OfOccurrence(rows, k) \/ x = n
  BY DEF OfOccurrence
<1>3. n \notin VisibleAt(rows \cup {n}, t) /\ n \notin VisibleAt(rows, t)
  BY DEF VisibleAt
<1>4. ASSUME NEW r \in rows, r # n
      PROVE  r \in VisibleAt(rows \cup {n}, t) <=> r \in VisibleAt(rows, t)
  BY <1>1, <1>2 DEF VisibleAt
<1>5. VisibleAt(rows \cup {n}, t) \subseteq rows \cup {n} /\ VisibleAt(rows, t) \subseteq rows
  BY DEF VisibleAt
<1> QED
  BY <1>3, <1>4, <1>5

LEMMA IndicatorsStay ==
  ASSUME IInv, NEW w \in Workers, Step(w), NEW r \in schedules \cup releases
  PROVE  IndicatorOf(r.key)' = IndicatorOf(r.key)
<1>1. PICK m \in mapping : m.key = r.key
  BY DEF IInv, RowsAreMapped
<1>2. PICK o \in occurrences : o.key = r.key
  BY <1>1 DEF IInv, MappingsAgree, OccurrencesOf
<1>3. IndicatorOf(r.key) = o.indicator
  BY <1>2, KeysLeadToOne DEF IInv
<1>4. PICK p \in occurrences' : p.key = o.key /\ p.indicator = o.indicator
  BY TablesGrow DEF IInv, OccurrencesOf
<1>5. KeysAreTaken'
  BY TablesGrow DEF IInv
<1>6. IndicatorOf(r.key)' = (CHOOSE q \in occurrences' : q.key = r.key).indicator
  BY DEF IndicatorOf
<1>7. (CHOOSE q \in occurrences' : q.key = r.key) = p
  BY <1>2, <1>4, <1>5 DEF KeysAreTaken
<1> QED
  BY <1>3, <1>4, <1>6, <1>7

\* What a snapshot as of an instant lists stands once no poll that observed at or
\* before it is still writing (schedule_as_of, release_as_of and the window
\* queries against every append).
THEOREM SettledEventsAlwaysStand == Spec => SettledEventsStand
<1>1. ASSUME IInv, [Next]_vars, NEW t \in Times, Settled(t)
      PROVE  Evidence(t)' = Evidence(t)
  <2>1. CASE UNCHANGED <<occurrences, schedules, releases>>
    BY <2>1 DEF Evidence, Ahead, Behind, VisibleAt, OfOccurrence, IndicatorOf
  <2>2. ASSUME NEW w \in Workers, Step(w) PROVE Evidence(t)' = Evidence(t)
    <3>1. VisibleAt(schedules, t)' = VisibleAt(schedules, t)
          /\ VisibleAt(releases, t)' = VisibleAt(releases, t)
      <4>1. CASE UNCHANGED <<schedules, releases>>
        BY <4>1 DEF VisibleAt, OfOccurrence
      <4>2. CASE ~UNCHANGED <<schedules, releases>>
        <5>1. AddVintage(w)
          BY <2>2, <4>2, OnlyWritersWrite DEF tables, Register, AttachGroup, RecordMapping
        <5> DEFINE n == NewRow(w)
        <5>2. n.availability \in Int /\ n.availability > t /\ t \in Int
          <6>1. pc[w] # "idle" /\ CallOK(w) /\ Shape
            BY <1>1, <5>1 DEF AddVintage, IInv
          <6>2. poll[w].at \in Times /\ poll[w].at > t
            BY <1>1, <6>1, EntryType DEF Settled
          <6> QED
            BY <6>2 DEF NewRow, Times
        <5>3. \/ schedules' = schedules \cup {n} /\ releases' = releases
              \/ releases' = releases \cup {n} /\ schedules' = schedules
          BY <1>1, <4>2, <5>1, VintageAdded
        <5> HIDE DEF n
        <5>4. /\ VisibleAt(schedules \cup {n}, t) = VisibleAt(schedules, t)
              /\ VisibleAt(releases \cup {n}, t) = VisibleAt(releases, t)
          BY <5>2, LaterIsUnseen
        <5>5. /\ VisibleAt(schedules, t)' = VisibleAt(schedules', t)
              /\ VisibleAt(releases, t)' = VisibleAt(releases', t)
          BY DEF VisibleAt, OfOccurrence
        <5> QED
          BY <5>3, <5>4, <5>5
      <4> QED
        BY <4>1, <4>2
    <3>2. Ahead(t)' = Ahead(t) /\ Behind(t)' = Behind(t)
      BY <3>1 DEF Ahead, Behind
    <3>3. \A r \in Ahead(t) \cup Behind(t) : IndicatorOf(r.key)' = IndicatorOf(r.key)
      <4>1. Ahead(t) \cup Behind(t) \subseteq schedules \cup releases
        BY DEF Ahead, Behind, VisibleAt
      <4> QED
        BY <1>1, <2>2, <4>1, IndicatorsStay
    <3> DEFINE Up == {r \in Ahead(t) : IndicatorOf(r.key) \in Relevant}
               Back == {r \in Behind(t) : IndicatorOf(r.key) \in Relevant}
    <3>4. Up' = Up /\ Back' = Back
      BY <3>2, <3>3
    <3>5. Evidence(t) = [upcoming |-> Up, recent |-> Back]
          /\ Evidence(t)' = [upcoming |-> Up', recent |-> Back']
      BY DEF Evidence
    <3> HIDE DEF Up, Back
    <3> QED
      BY <3>4, <3>5
  <2>3. UNCHANGED <<occurrences, schedules, releases>> \/ \E w \in Workers : Step(w)
    BY <1>1 DEF Next, Tick, vars, tables
  <2> QED
    BY <2>1, <2>2, <2>3
<1>2. IInv /\ [Next]_vars => [\A t \in Times : Settled(t) => Evidence(t)' = Evidence(t)]_vars
  BY <1>1
<1> QED
  BY <1>2, InvariantHolds, PTL DEF Spec, SettledEventsStand

=============================================================================

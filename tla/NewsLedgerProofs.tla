-------------------------- MODULE NewsLedgerProofs --------------------------
(***************************************************************************)
(* NewsLedger for any number of identities, workers, contents, channels    *)
(* and calls: its safety invariants hold in every reachable state, and the *)
(* past of an item is never rewritten.                                     *)
(*                                                                         *)
(* The five invariants are inductive only together.  AddVintage keeps the  *)
(* numbering because the revision it read is still stored and no revision  *)
(* number above it is free (NothingBehindTheLatest); CommitFirstVintage    *)
(* because nobody else holds its key or its identity.                      *)
(*                                                                         *)
(* The last part is about VintageLedger itself, and so about every         *)
(* recorder that implements it.                                            *)
(***************************************************************************)
EXTENDS NewsLedger, TLAPS

IInv == /\ TypeOK
        /\ FirstObservationAtomic
        /\ HistoryWellFormed
        /\ NoLostObservation
        /\ WorkersConsistent

\* A worker's own step, its start or its failure.
WorkerAction(w) == Start(w) \/ Step(w) \/ Abort(w)

-----------------------------------------------------------------------------
(* The operators the actions are built from.                               *)

\* A vintage built for an observation is a row of the table.
LEMMA BuildVintageType ==
    ASSUME NEW k \in Keys, NEW o \in Observation, NEW rev \in Nat,
           NEW chans \in SUBSET Channels
    PROVE  BuildVintage(k, o, rev, chans) \in Vintage
BY DEF BuildVintage, Vintage, Observation

\* So is the candidate revision that would follow a stored row.
LEMMA CandidateType ==
    ASSUME NEW l \in Vintage, NEW o \in Observation
    PROVE  /\ Candidate(l, o) \in Vintage
           /\ Candidate(l, o).key = l.key
           /\ Candidate(l, o).revision = l.revision + 1
           /\ Candidate(l, o).availability = o.at
           /\ Candidate(l, o).content = o.content
           /\ Candidate(l, o).channel = o.channel
           /\ Candidate(l, o).channels = l.channels \cup {o.channel}
<1>1. l.key \in Keys /\ l.revision + 1 \in Nat /\ l.channels \cup {o.channel} \in SUBSET Channels
  BY DEF Vintage, Observation
<1>2. Candidate(l, o) \in Vintage
  BY <1>1, BuildVintageType DEF Candidate
<1> QED
  BY <1>2 DEF Candidate, BuildVintage

\* If the number after a stored row is free, the row is its item's last: the
\* numbering has no gap, so a row further on would occupy that number.
LEMMA NothingBehindTheLatest ==
    ASSUME vintages \subseteq Vintage, HistoryWellFormed,
           NEW l \in vintages, NEW o \in Observation,
           Stored(Candidate(l, o)) = {},
           NEW v \in RowsOf(l.key)
    PROVE  v.revision <= l.revision
<1>1. l \in Vintage /\ v \in vintages /\ v \in Vintage /\ v.key = l.key
  BY DEF RowsOf
<1>2. l.revision \in Nat /\ v.revision \in Nat
  BY <1>1 DEF Vintage
<1>3. SUFFICES ASSUME v.revision > l.revision PROVE FALSE
  BY <1>2
<1>4. l.revision + 1 \in 0 .. v.revision
  BY <1>2, <1>3
<1>5. PICK e \in RowsOf(v.key) : e.revision = l.revision + 1
  BY <1>1, <1>4 DEF HistoryWellFormed
<1>6. e \in Stored(Candidate(l, o))
  BY <1>1, <1>5, CandidateType DEF Stored
<1> QED
  BY <1>6

-----------------------------------------------------------------------------
(* The invariant holds initially and is kept by every step.                *)

LEMMA InitEstablishes == Init => IInv
<1> SUFFICES ASSUME Init PROVE IInv
  OBVIOUS
<1> USE NewsAssumption
<1>1. TypeOK
  BY DEF Init, TypeOK, Times, Steps, Reported, Recorded
<1>2. FirstObservationAtomic
  BY DEF Init, FirstObservationAtomic, RowsOf
<1>3. HistoryWellFormed
  BY DEF Init, HistoryWellFormed
<1>4. NoLostObservation
  BY DEF Init, NoLostObservation, Recorded
<1>5. WorkersConsistent
  BY DEF Init, WorkersConsistent, WorkerConsistent, Recorded
<1> QED
  BY <1>1, <1>2, <1>3, <1>4, <1>5 DEF IInv

LEMMA TypeStep == IInv /\ [Next]_vars => TypeOK'
<1> SUFFICES ASSUME IInv, [Next]_vars PROVE TypeOK'
  OBVIOUS
<1> USE NewsAssumption DEF IInv, TypeOK, store
<1>1. CASE Tick
  BY <1>1 DEF Tick, Times
<1>2. ASSUME NEW w \in Workers, Start(w) PROVE TypeOK'
  <2>1. obs' \in [Workers -> Observation \cup {NoObs}]
    BY <1>2 DEF Start, Observation
  <2>2. pc' \in [Workers -> Steps] /\ outcome' \in [Workers -> Reported]
    BY <1>2 DEF Start, Goto, Steps, Reported
  <2> QED
    BY <1>2, <2>1, <2>2 DEF Start
<1>3. ASSUME NEW w \in Workers, Abort(w) PROVE TypeOK'
  BY <1>3 DEF Abort, Finish, Steps, Reported
<1>4. ASSUME NEW w \in Workers, LookupIdentity(w) PROVE TypeOK'
  <2>1. obs[w] \in Observation
    BY <1>4 DEF LookupIdentity, WorkersConsistent, WorkerConsistent
  <2>2. mapping[obs[w].identity] \in Keys \cup {NoKey}
    BY <2>1 DEF Observation
  <2> QED
    BY <1>4, <2>2 DEF LookupIdentity, Goto, Steps
<1>5. ASSUME NEW w \in Workers, InsertItemAndMapping(w) PROVE TypeOK'
  <2>1. obs[w] \in Observation
    BY <1>5 DEF InsertItemAndMapping, WorkersConsistent, WorkerConsistent
  <2>2. mapping[obs[w].identity] \in Keys \cup {NoKey}
    BY <2>1 DEF Observation
  <2> QED
    BY <1>5, <2>2 DEF InsertItemAndMapping, Goto, Steps
<1>6. ASSUME NEW w \in Workers, CommitFirstVintage(w) PROVE TypeOK'
  <2>1. obs[w] \in Observation /\ key[w] \in Keys
    BY <1>6 DEF CommitFirstVintage, WorkersConsistent, WorkerConsistent
  <2>2. BuildVintage(key[w], obs[w], 0, {obs[w].channel}) \in Vintage
    BY <2>1, BuildVintageType DEF Observation
  <2>3. [key |-> key[w], first_seen_at |-> obs[w].at] \in Item
    BY <2>1 DEF Item, Observation
  <2>4. mapping' \in [Identities -> Keys \cup {NoKey}]
    BY <1>6, <2>1 DEF CommitFirstVintage
  <2>5. pc' \in [Workers -> Steps] /\ outcome' \in [Workers -> Reported]
        /\ key' \in [Workers -> Keys \cup {NoKey}] /\ latest' \in [Workers -> Vintage \cup {NoRow}]
    BY <1>6 DEF CommitFirstVintage, Finish, Steps, Reported, Recorded
  <2> QED
    BY <1>6, <2>2, <2>3, <2>4, <2>5 DEF CommitFirstVintage
<1>7. ASSUME NEW w \in Workers, ListVintages(w) PROVE TypeOK'
  BY <1>7 DEF ListVintages, Finish, Goto, Steps, Reported, Recorded
<1>8. ASSUME NEW w \in Workers, AddVintage(w) PROVE TypeOK'
  <2>1. obs[w] \in Observation /\ latest[w] \in Vintage
    BY <1>8 DEF AddVintage, WorkersConsistent, WorkerConsistent, RowsOf
  <2>2. Candidate(latest[w], obs[w]) \in Vintage
    BY <2>1, CandidateType
  <2>3. vintages' \subseteq Vintage
    BY <1>8, <2>2 DEF AddVintage
  <2> QED
    BY <1>8, <2>3 DEF AddVintage, Finish, Steps, Reported, Recorded
<1>9. CASE UNCHANGED vars
  BY <1>9 DEF vars
<1> QED
  BY <1>1, <1>2, <1>3, <1>4, <1>5, <1>6, <1>7, <1>8, <1>9 DEF Next, Step

-----------------------------------------------------------------------------
(* The two steps that write.                                               *)

Appends(w) ==
    /\ pc[w] = "add"
    /\ Stored(Candidate(latest[w], obs[w])) = {}
    /\ vintages' = vintages \cup {Candidate(latest[w], obs[w])}
    /\ Finish(w, "REVISION_ADDED")
    /\ UNCHANGED <<now, mapping, items, obs, started>>

\* Every other step leaves the committed rows alone.
LEMMA OnlyTwoActionsWrite ==
    ASSUME [Next]_vars
    PROVE  \/ \E w \in Workers : CommitFirstVintage(w)
           \/ \E w \in Workers : Appends(w)
           \/ UNCHANGED store
BY DEF Next, Step, Tick, Start, Abort, LookupIdentity, InsertItemAndMapping,
       ListVintages, AddVintage, Appends, vars, store

\* What an appending worker appends is behind every row of its item.
LEMMA AppendedFacts ==
    ASSUME IInv, NEW w \in Workers, Appends(w)
    PROVE  /\ obs[w] \in Observation
           /\ latest[w] \in vintages
           /\ latest[w] \in Vintage
           /\ latest[w].key = mapping[obs[w].identity]
           /\ latest[w].availability <= obs[w].at
           /\ Facts(Candidate(latest[w], obs[w])) # Facts(latest[w])
           /\ \A v \in RowsOf(latest[w].key) :
                 /\ v.revision <= latest[w].revision
                 /\ v.availability <= latest[w].availability
                 /\ v.channels \subseteq latest[w].channels
<1>1. /\ obs[w] \in Observation
      /\ latest[w] \in RowsOf(key[w])
      /\ key[w] = mapping[obs[w].identity]
      /\ ~OutOfOrder(obs[w], latest[w])
      /\ Facts(Candidate(latest[w], obs[w])) # Facts(latest[w])
  BY DEF IInv, Appends, WorkersConsistent, WorkerConsistent
<1>2. latest[w] \in vintages /\ latest[w] \in Vintage /\ latest[w].key = key[w]
  BY <1>1 DEF RowsOf, IInv, TypeOK
<1>3. latest[w].availability <= obs[w].at
  BY <1>1, <1>2 DEF OutOfOrder, Vintage, Observation, Times
<1>4. ASSUME NEW v \in RowsOf(latest[w].key)
      PROVE  /\ v.revision <= latest[w].revision
             /\ v.availability <= latest[w].availability
             /\ v.channels \subseteq latest[w].channels
  <2>1. v.revision <= latest[w].revision
    BY <1>1, <1>2, NothingBehindTheLatest DEF IInv, TypeOK, Appends
  <2>2. v \in Vintage /\ v.revision \in Nat /\ latest[w].revision \in Nat
        /\ v.availability \in Times /\ latest[w].availability \in Times
    BY <1>2 DEF RowsOf, IInv, TypeOK, Vintage
  <2>3. CASE v.revision = latest[w].revision
    <3>1. v = latest[w]
      BY <1>2, <2>3 DEF IInv, HistoryWellFormed
    <3> QED
      BY <3>1, <2>2 DEF Times
  <2>4. CASE v.revision < latest[w].revision
    BY <1>2, <2>2, <2>4 DEF IInv, HistoryWellFormed
  <2> QED
    BY <2>1, <2>2, <2>3, <2>4
<1> QED
  BY <1>1, <1>2, <1>3, <1>4

\* What a worker creating an item commits belongs to nobody else.
LEMMA CreatedFacts ==
    ASSUME IInv, NEW w \in Workers, CommitFirstVintage(w)
    PROVE  /\ obs[w] \in Observation
           /\ key[w] \in Keys
           /\ key[w] # NoKey
           /\ mapping[obs[w].identity] = NoKey
           /\ \A i \in Identities : mapping[i] # key[w]
           /\ \A item \in items : item.key # key[w]
           /\ \A v \in vintages : v.key # key[w]
           /\ \A u \in Workers \ {w} : key[u] # key[w]
           /\ Holders(obs[w].identity) = {w}
           /\ mapping' = [mapping EXCEPT ![obs[w].identity] = key[w]]
           /\ items' = items \cup {[key |-> key[w], first_seen_at |-> obs[w].at]}
           /\ vintages' = vintages \cup {BuildVintage(key[w], obs[w], 0, {obs[w].channel})}
BY NewsAssumption DEF IInv, CommitFirstVintage, WorkersConsistent, WorkerConsistent

\* A row put behind the rows of its item keeps every history well formed.
LEMMA AppendKeepsHistory ==
    ASSUME vintages \subseteq Vintage, HistoryWellFormed,
           NEW r \in Vintage,
           vintages' = vintages \cup {r},
           r.channel \in r.channels,
           \A v \in RowsOf(r.key) : /\ v.revision < r.revision
                                    /\ v.availability <= r.availability
                                    /\ v.channels \subseteq r.channels,
           \/ r.revision = 0
           \/ \E l \in RowsOf(r.key) : l.revision + 1 = r.revision /\ Facts(l) # Facts(r)
    PROVE  HistoryWellFormed'
<1>1. \A k : RowsOf(k)' = IF k = r.key THEN RowsOf(k) \cup {r} ELSE RowsOf(k)
  BY DEF RowsOf
<1>2. \A v \in vintages \cup {r} : v \in Vintage /\ v.revision \in Nat
  BY DEF Vintage
<1>3. ASSUME NEW v \in vintages', NEW n \in 0 .. v.revision
      PROVE  \E e \in RowsOf(v.key)' : e.revision = n
  <2>1. CASE v \in vintages
    <3>1. PICK e \in RowsOf(v.key) : e.revision = n
      BY <2>1 DEF HistoryWellFormed
    <3> QED
      BY <3>1, <1>1
  <2>2. CASE v = r /\ n = r.revision
    BY <2>2, <1>1
  <2>3. CASE v = r /\ n # r.revision
    <3>1. PICK l \in RowsOf(r.key) : l.revision + 1 = r.revision
      BY <2>3, <1>2
    <3>2. l \in vintages /\ l.key = r.key /\ l.revision \in Nat
      BY <1>2, <3>1 DEF RowsOf
    <3>3. n \in 0 .. l.revision
      BY <1>2, <2>3, <3>1, <3>2
    <3>4. PICK e \in RowsOf(l.key) : e.revision = n
      BY <3>2, <3>3 DEF HistoryWellFormed
    <3> QED
      BY <1>1, <2>3, <3>2, <3>4
  <2> QED
    BY <2>1, <2>2, <2>3
<1>4. \A v \in vintages' : v.channel \in v.channels
  BY DEF HistoryWellFormed
<1>5. ASSUME NEW v \in vintages', NEW e \in RowsOf(v.key)'
      PROVE  /\ e.revision = v.revision => e = v
             /\ e.revision < v.revision =>
                   e.availability <= v.availability /\ e.channels \subseteq v.channels
             /\ e.revision + 1 = v.revision => Facts(e) # Facts(v)
  <2>1. e \in vintages \cup {r} /\ v \in vintages \cup {r} /\ e.key = v.key
    BY <1>1 DEF RowsOf
  <2>2. e.revision \in Nat /\ v.revision \in Nat
    BY <1>2, <2>1
  <2>3. CASE v \in vintages /\ e \in vintages
    <3>1. e \in RowsOf(v.key)
      BY <2>1, <2>3 DEF RowsOf
    <3> QED
      BY <2>3, <3>1 DEF HistoryWellFormed
  <2>4. CASE v = r /\ e \in vintages
    <3>1. e \in RowsOf(r.key)
      BY <2>1, <2>4 DEF RowsOf
    <3>2. e.revision < r.revision
      BY <3>1
    <3>3. e.revision + 1 = r.revision => Facts(e) # Facts(r)
      <4>1. SUFFICES ASSUME e.revision + 1 = r.revision PROVE Facts(e) # Facts(r)
        OBVIOUS
      <4>2. r.revision # 0
        BY <2>2, <4>1
      <4>3. PICK l \in RowsOf(r.key) : l.revision + 1 = r.revision /\ Facts(l) # Facts(r)
        BY <4>2
      <4>4. l \in vintages /\ l.revision \in Nat /\ l.key = r.key
        BY <1>2, <4>3 DEF RowsOf
      <4>5. l.revision = e.revision
        BY <2>2, <4>1, <4>3, <4>4
      <4>6. e = l
        BY <3>1, <4>4, <4>5 DEF HistoryWellFormed
      <4> QED
        BY <4>3, <4>6
    <3> QED
      BY <2>2, <2>4, <3>1, <3>2, <3>3
  <2>5. CASE v \in vintages /\ e = r
    <3>1. v \in RowsOf(r.key)
      BY <2>1, <2>5 DEF RowsOf
    <3>2. v.revision < r.revision
      BY <3>1
    <3> QED
      BY <2>2, <2>5, <3>2
  <2>6. CASE v = r /\ e = r
    BY <2>2, <2>6
  <2> QED
    BY <2>1, <2>3, <2>4, <2>5, <2>6
<1> QED
  BY <1>3, <1>4, <1>5 DEF HistoryWellFormed, Facts

LEMMA HistoryStep == IInv /\ [Next]_vars => HistoryWellFormed'
<1> SUFFICES ASSUME IInv, [Next]_vars PROVE HistoryWellFormed'
  OBVIOUS
<1>1. vintages \subseteq Vintage /\ HistoryWellFormed
  BY DEF IInv, TypeOK
<1>2. ASSUME NEW w \in Workers, CommitFirstVintage(w) PROVE HistoryWellFormed'
  <2> DEFINE r == BuildVintage(key[w], obs[w], 0, {obs[w].channel})
  <2>1. obs[w] \in Observation /\ key[w] \in Keys /\ vintages' = vintages \cup {r}
    BY <1>2, CreatedFacts
  <2>2. r \in Vintage /\ r.key = key[w] /\ r.revision = 0 /\ r.channel \in r.channels
    BY <2>1, BuildVintageType DEF BuildVintage, Observation
  <2> HIDE DEF r
  <2>3. \A v \in vintages : v.key # r.key
    BY <1>2, <2>2, CreatedFacts
  <2>4. RowsOf(r.key) = {}
    BY <2>3 DEF RowsOf
  <2> QED
    BY <1>1, <2>1, <2>2, <2>4, AppendKeepsHistory
<1>3. ASSUME NEW w \in Workers, Appends(w) PROVE HistoryWellFormed'
  <2> DEFINE l == latest[w]
             r == Candidate(l, obs[w])
  <2>1. /\ obs[w] \in Observation /\ l \in Vintage /\ l \in vintages
        /\ l.availability <= obs[w].at /\ Facts(r) # Facts(l)
        /\ \A v \in RowsOf(l.key) : /\ v.revision <= l.revision
                                    /\ v.availability <= l.availability
                                    /\ v.channels \subseteq l.channels
    BY <1>3, AppendedFacts
  <2>2. /\ r \in Vintage /\ r.key = l.key /\ r.revision = l.revision + 1
        /\ r.availability = obs[w].at /\ r.channel = obs[w].channel
        /\ r.channels = l.channels \cup {obs[w].channel}
    BY <2>1, CandidateType
  <2>3. vintages' = vintages \cup {r}
    BY <1>3 DEF Appends
  <2>4. ASSUME NEW v \in RowsOf(r.key)
        PROVE  /\ v.revision < r.revision
               /\ v.availability <= r.availability
               /\ v.channels \subseteq r.channels
    <3>1. v \in Vintage
      BY <1>1 DEF RowsOf
    <3> QED
      BY <2>1, <2>2, <3>1 DEF Vintage, Observation, Times
  <2>5. l \in RowsOf(r.key)
    BY <2>1, <2>2 DEF RowsOf
  <2> HIDE DEF r, l
  <2> QED
    BY <1>1, <2>1, <2>2, <2>3, <2>4, <2>5, AppendKeepsHistory
<1>4. CASE UNCHANGED store
  BY <1>1, <1>4 DEF store, HistoryWellFormed, RowsOf
<1> QED
  BY <1>2, <1>3, <1>4, OnlyTwoActionsWrite

LEMMA AtomicStep == IInv /\ [Next]_vars => FirstObservationAtomic'
<1> SUFFICES ASSUME IInv, [Next]_vars PROVE FirstObservationAtomic'
  OBVIOUS
<1> USE NewsAssumption
<1>1. FirstObservationAtomic /\ mapping \in [Identities -> Keys \cup {NoKey}]
  BY DEF IInv, TypeOK
<1>2. ASSUME NEW w \in Workers, CommitFirstVintage(w) PROVE FirstObservationAtomic'
  <2> DEFINE r == BuildVintage(key[w], obs[w], 0, {obs[w].channel})
             it == [key |-> key[w], first_seen_at |-> obs[w].at]
  <2>1. /\ vintages' = vintages \cup {r}
        /\ items' = items \cup {it}
        /\ mapping' = [mapping EXCEPT ![obs[w].identity] = key[w]]
        /\ obs[w].identity \in Identities
        /\ \A i \in Identities : mapping[i] # key[w]
        /\ \A v \in vintages : v.key # key[w]
    BY <1>2, CreatedFacts DEF Observation
  <2>2. r.key = key[w] /\ r.revision = 0 /\ r.availability = obs[w].at
        /\ it.key = key[w] /\ it.first_seen_at = obs[w].at
    BY DEF BuildVintage
  <2> HIDE DEF r, it
  <2>3. \A i \in Identities :
           mapping'[i] = IF i = obs[w].identity THEN key[w] ELSE mapping[i]
    BY <1>1, <2>1
  <2>4. \A k : RowsOf(k) \subseteq RowsOf(k)'
    BY <2>1 DEF RowsOf
  <2>5. \A k : k = key[w] => r \in RowsOf(k)'
    BY <2>1, <2>2 DEF RowsOf
  <2>6. ASSUME NEW i \in Identities, mapping'[i] # NoKey
        PROVE  \E item \in items' : item.key = mapping'[i]
    BY <1>1, <2>1, <2>2, <2>3, <2>6 DEF FirstObservationAtomic
  <2>7. ASSUME NEW item \in items'
        PROVE  /\ \E i \in Identities : mapping'[i] = item.key
               /\ \E v \in RowsOf(item.key)' :
                     v.revision = 0 /\ v.availability = item.first_seen_at
    <3>1. CASE item = it
      BY <2>1, <2>2, <2>3, <2>5, <3>1
    <3>2. CASE item \in items
      <4>1. PICK i \in Identities : mapping[i] = item.key
        BY <1>1, <3>2 DEF FirstObservationAtomic
      <4>2. mapping'[i] = item.key
        <5>1. mapping[i] # NoKey
          BY <1>1, <3>2, <4>1 DEF IInv, TypeOK, Item
        <5>2. mapping[obs[w].identity] = NoKey
          BY <1>2, CreatedFacts
        <5> QED
          BY <2>3, <4>1, <5>1, <5>2
      <4>3. PICK v \in RowsOf(item.key) :
               v.revision = 0 /\ v.availability = item.first_seen_at
        BY <1>1, <3>2 DEF FirstObservationAtomic
      <4> QED
        BY <2>4, <4>2, <4>3
    <3> QED
      BY <2>1, <3>1, <3>2
  <2>8. \A v \in vintages' : \E item \in items' : item.key = v.key
    BY <1>1, <2>1, <2>2 DEF FirstObservationAtomic
  <2>9. ASSUME NEW i \in Identities, NEW j \in Identities, mapping'[i] = mapping'[j]
        PROVE  i = j \/ mapping'[i] = NoKey
    BY <1>1, <2>1, <2>3, <2>9 DEF FirstObservationAtomic
  <2> QED
    BY <2>6, <2>7, <2>8, <2>9 DEF FirstObservationAtomic
<1>3. ASSUME NEW w \in Workers, Appends(w) PROVE FirstObservationAtomic'
  <2> DEFINE r == Candidate(latest[w], obs[w])
  <2>1. /\ vintages' = vintages \cup {r} /\ items' = items /\ mapping' = mapping
        /\ latest[w] \in vintages
    BY <1>3, AppendedFacts DEF Appends
  <2>2. r.key = latest[w].key
    BY <1>3, AppendedFacts, CandidateType
  <2> HIDE DEF r
  <2>3. \A k : RowsOf(k) \subseteq RowsOf(k)'
    BY <2>1 DEF RowsOf
  <2>4. ASSUME NEW item \in items
        PROVE  /\ \E i \in Identities : mapping'[i] = item.key
               /\ \E v \in RowsOf(item.key)' :
                     v.revision = 0 /\ v.availability = item.first_seen_at
    BY <1>1, <2>1, <2>3 DEF FirstObservationAtomic
  <2> QED
    BY <1>1, <2>1, <2>2, <2>4 DEF FirstObservationAtomic
<1>4. CASE UNCHANGED store
  BY <1>1, <1>4 DEF store, FirstObservationAtomic, RowsOf
<1> QED
  BY <1>2, <1>3, <1>4, OnlyTwoActionsWrite

\* Rows are never removed and a mapped identity is never mapped again.
LEMMA StoreGrows ==
    ASSUME IInv, [Next]_vars
    PROVE  /\ vintages \subseteq vintages'
           /\ \A i \in Identities : mapping[i] # NoKey => mapping'[i] = mapping[i]
<1>1. ASSUME NEW w \in Workers, CommitFirstVintage(w)
      PROVE  /\ vintages \subseteq vintages'
             /\ \A i \in Identities : mapping[i] # NoKey => mapping'[i] = mapping[i]
  BY <1>1, CreatedFacts DEF IInv, TypeOK, Observation
<1>2. ASSUME NEW w \in Workers, Appends(w)
      PROVE  /\ vintages \subseteq vintages'
             /\ \A i \in Identities : mapping[i] # NoKey => mapping'[i] = mapping[i]
  BY <1>2 DEF Appends
<1> QED
  BY <1>1, <1>2, OnlyTwoActionsWrite DEF store

\* A worker's step moves no other worker.
LEMMA OthersUntouched ==
    ASSUME TypeOK, NEW w \in Workers, WorkerAction(w), NEW u \in Workers \ {w}
    PROVE  /\ pc'[u] = pc[u] /\ obs'[u] = obs[u] /\ key'[u] = key[u]
           /\ latest'[u] = latest[u] /\ outcome'[u] = outcome[u]
BY DEF TypeOK, WorkerAction, Step, Start, Abort, LookupIdentity, InsertItemAndMapping,
       CommitFirstVintage, ListVintages, AddVintage, Finish, Goto

\* The row that makes a reported success true.
Tells(v, w) == /\ v.key = mapping[obs[w].identity]
               /\ v.content = obs[w].content
               /\ obs[w].channel \in v.channels
               /\ v.availability <= obs[w].at

LEMMA LostStep == IInv /\ [Next]_vars => NoLostObservation'
<1> SUFFICES ASSUME IInv, [Next]_vars,
                    NEW u \in Workers, pc'[u] = "idle", outcome'[u] \in Recorded
             PROVE  \E v \in vintages' : Tells(v, u)'
  BY DEF NoLostObservation, Tells
<1> USE NewsAssumption
<1>1. TypeOK
  BY DEF IInv
<1>2. ASSUME pc[u] = "idle", outcome[u] \in Recorded, obs'[u] = obs[u]
      PROVE  \E v \in vintages' : Tells(v, u)'
  <2>1. PICK v \in vintages : Tells(v, u)
    BY <1>2 DEF IInv, NoLostObservation, Tells
  <2>2. v.key \in Keys /\ v.key = mapping[obs[u].identity]
    BY <1>1, <2>1 DEF TypeOK, Vintage, Tells
  <2>3. obs[u] \in Observation
    BY <1>2 DEF IInv, WorkersConsistent, WorkerConsistent
  <2>4. mapping'[obs[u].identity] = mapping[obs[u].identity]
    BY <2>2, <2>3, StoreGrows DEF Observation
  <2> QED
    BY <1>2, <2>1, <2>4, StoreGrows DEF Tells
<1>3. ASSUME NEW w \in Workers, WorkerAction(w), u # w
      PROVE  \E v \in vintages' : Tells(v, u)'
  BY <1>1, <1>2, <1>3, OthersUntouched
<1>4. CASE Tick \/ UNCHANGED vars
  BY <1>2, <1>4 DEF Tick, vars
<1>5. CASE Start(u) \/ Abort(u) \/ LookupIdentity(u) \/ InsertItemAndMapping(u)
  BY <1>1, <1>5 DEF TypeOK, Start, Abort, LookupIdentity, InsertItemAndMapping,
                    Finish, Goto, Recorded
<1>6. CASE CommitFirstVintage(u)
  <2> DEFINE r == BuildVintage(key[u], obs[u], 0, {obs[u].channel})
  <2>1. /\ r \in vintages' /\ obs[u] \in Observation /\ obs' = obs
        /\ mapping'[obs[u].identity] = key[u]
    BY <1>1, <1>6, CreatedFacts DEF CommitFirstVintage, Observation, TypeOK
  <2>2. r.key = key[u] /\ r.content = obs[u].content /\ obs[u].channel \in r.channels
        /\ r.availability = obs[u].at
    BY DEF BuildVintage
  <2>3. r.availability <= obs[u].at
    BY <2>1, <2>2 DEF Observation, Times
  <2> HIDE DEF r
  <2> QED
    BY <2>1, <2>2, <2>3 DEF Tells
<1>7. CASE ListVintages(u)
  <2>1. /\ obs[u] \in Observation /\ key[u] = mapping[obs[u].identity]
        /\ obs' = obs /\ mapping' = mapping /\ vintages' = vintages
    BY <1>7 DEF ListVintages, store, IInv, WorkersConsistent, WorkerConsistent
  <2>2. PICK l \in RowsOf(key[u]) :
           ~OutOfOrder(obs[u], l) /\ Facts(Candidate(l, obs[u])) = Facts(l)
    BY <1>1, <1>7 DEF ListVintages, IsLatest, Finish, Goto, TypeOK, Recorded
  <2>3. l \in vintages /\ l \in Vintage /\ l.key = key[u]
    BY <1>1, <2>2 DEF RowsOf, TypeOK
  <2>4. l.content = obs[u].content /\ l.channels = l.channels \cup {obs[u].channel}
    <3>1. /\ Candidate(l, obs[u]).content = obs[u].content
          /\ Candidate(l, obs[u]).channels = l.channels \cup {obs[u].channel}
      BY <2>1, <2>3, CandidateType
    <3> QED
      BY <2>2, <3>1 DEF Facts
  <2>5. l.availability <= obs[u].at
    BY <2>1, <2>2, <2>3 DEF OutOfOrder, Vintage, Observation, Times
  <2> QED
    BY <2>1, <2>3, <2>4, <2>5 DEF Tells
<1>8. CASE AddVintage(u)
  <2> DEFINE r == Candidate(latest[u], obs[u])
  <2>1. /\ obs[u] \in Observation /\ latest[u] \in Vintage
        /\ latest[u].key = mapping[obs[u].identity]
        /\ obs' = obs /\ mapping' = mapping
    BY <1>1, <1>8 DEF AddVintage, IInv, WorkersConsistent, WorkerConsistent, RowsOf, TypeOK
  <2>2. r \in vintages'
    BY <1>1, <1>8 DEF AddVintage, Finish, Stored, RowsOf, TypeOK, Recorded
  <2>3. /\ r.key = latest[u].key /\ r.content = obs[u].content
        /\ r.channels = latest[u].channels \cup {obs[u].channel}
        /\ r.availability = obs[u].at
    BY <2>1, CandidateType
  <2>4. r.availability <= obs[u].at
    BY <2>1, <2>3 DEF Observation, Times
  <2> HIDE DEF r
  <2> QED
    BY <2>1, <2>2, <2>3, <2>4 DEF Tells
<1> QED
  BY <1>3, <1>4, <1>5, <1>6, <1>7, <1>8 DEF Next, Step, WorkerAction

\* Another call's step takes nothing away from what u holds.
LEMMA OtherWorkerStep ==
    ASSUME IInv, [Next]_vars,
           NEW w \in Workers, WorkerAction(w), NEW u \in Workers \ {w}
    PROVE  WorkerConsistent(u)'
<1> USE NewsAssumption
<1>1. TypeOK /\ WorkerConsistent(u) /\ WorkerConsistent(w)
  BY DEF IInv, WorkersConsistent
<1>2. /\ pc'[u] = pc[u] /\ obs'[u] = obs[u] /\ key'[u] = key[u]
      /\ latest'[u] = latest[u] /\ outcome'[u] = outcome[u]
  BY <1>1, OthersUntouched
<1>3. pc'[u] # "idle" \/ outcome'[u] \in Recorded => obs'[u] \in Observation
  BY <1>1, <1>2 DEF WorkerConsistent
<1>4. ASSUME pc[u] \in {"insert", "first_vintage"}
      PROVE  /\ key[u] \in Keys
             /\ \A item \in items' : item.key # key[u]
             /\ \A i \in Identities : mapping'[i] # key[u]
             /\ \A v \in vintages' : v.key # key[u]
             /\ \A x \in Workers \ {u} : key'[x] # key[u]
  <2>1. /\ key[u] \in Keys
        /\ \A item \in items : item.key # key[u]
        /\ \A i \in Identities : mapping[i] # key[u]
        /\ \A v \in vintages : v.key # key[u]
        /\ \A x \in Workers \ {u} : key[x] # key[u]
    BY <1>1, <1>4 DEF WorkerConsistent
  <2>2. \A x \in Workers \ {u, w} : key'[x] = key[x]
    BY <1>1, OthersUntouched
  <2>3. key'[w] # key[u]
    <3>1. CASE LookupIdentity(w)
      <4>1. obs[w] \in Observation
        BY <1>1, <3>1 DEF LookupIdentity, WorkerConsistent
      <4> QED
        BY <1>1, <2>1, <3>1, <4>1 DEF LookupIdentity, Minted, Observation, TypeOK
    <3>2. CASE InsertItemAndMapping(w)
      <4>1. obs[w] \in Observation
        BY <1>1, <3>2 DEF InsertItemAndMapping, WorkerConsistent
      <4> QED
        BY <1>1, <2>1, <3>2, <4>1 DEF InsertItemAndMapping, Observation, TypeOK
    <3>3. CASE ~LookupIdentity(w) /\ ~InsertItemAndMapping(w)
      <4>1. key'[w] = NoKey \/ key'[w] = key[w]
        BY <1>1, <3>3 DEF WorkerAction, Step, Start, Abort, CommitFirstVintage,
                         ListVintages, AddVintage, Finish, TypeOK
      <4> QED
        BY <2>1, <4>1
    <3> QED
      BY <3>1, <3>2, <3>3
  <2>4. ASSUME NEW x \in Workers, CommitFirstVintage(x)
        PROVE  /\ \A item \in items' : item.key # key[u]
               /\ \A i \in Identities : mapping'[i] # key[u]
               /\ \A v \in vintages' : v.key # key[u]
    <3>1. x # u
      BY <1>1, <1>2, <1>4, <2>4 DEF CommitFirstVintage, Finish, TypeOK
    <3>2. key[x] # key[u]
      BY <2>1, <3>1
    <3>3. BuildVintage(key[x], obs[x], 0, {obs[x].channel}).key = key[x]
      BY DEF BuildVintage
    <3>4. \A i \in Identities : mapping'[i] \in {mapping[i], key[x]}
      BY <1>1, <2>4 DEF CommitFirstVintage, TypeOK
    <3>5. \A item \in items' : item \in items \/ item.key = key[x]
      BY <2>4 DEF CommitFirstVintage
    <3>6. \A v \in vintages' : v \in vintages \/ v.key = key[x]
      BY <2>4, <3>3 DEF CommitFirstVintage
    <3> QED
      BY <2>1, <3>2, <3>4, <3>5, <3>6
  <2>5. ASSUME NEW x \in Workers, Appends(x)
        PROVE  /\ \A item \in items' : item.key # key[u]
               /\ \A i \in Identities : mapping'[i] # key[u]
               /\ \A v \in vintages' : v.key # key[u]
    <3>1. /\ latest[x] \in vintages /\ latest[x] \in Vintage /\ obs[x] \in Observation
      BY <2>5, AppendedFacts
    <3>2. Candidate(latest[x], obs[x]).key # key[u]
      BY <2>1, <3>1, CandidateType
    <3> QED
      BY <2>1, <2>5, <3>2 DEF Appends
  <2>6. ASSUME UNCHANGED store
        PROVE  /\ \A item \in items' : item.key # key[u]
               /\ \A i \in Identities : mapping'[i] # key[u]
               /\ \A v \in vintages' : v.key # key[u]
    BY <2>1, <2>6 DEF store
  <2>7. /\ \A item \in items' : item.key # key[u]
        /\ \A i \in Identities : mapping'[i] # key[u]
        /\ \A v \in vintages' : v.key # key[u]
    BY <2>4, <2>5, <2>6, OnlyTwoActionsWrite
  <2> QED
    BY <2>1, <2>2, <2>3, <2>7
<1>5. ASSUME pc[u] = "first_vintage"
      PROVE  mapping'[obs[u].identity] = NoKey /\ Holders(obs[u].identity)' = {u}
  <2>1. /\ obs[u] \in Observation /\ mapping[obs[u].identity] = NoKey
        /\ Holders(obs[u].identity) = {u}
    BY <1>1, <1>5 DEF WorkerConsistent
  <2>2. ASSUME NEW x \in Workers, pc'[x] = "first_vintage",
               obs'[x].identity = obs'[u].identity
        PROVE  x = u
    <3>1. SUFFICES ASSUME x = w PROVE FALSE
      BY <1>1, <1>2, <2>1, <2>2, OthersUntouched DEF Holders
    <3>2. InsertItemAndMapping(w)
      <4>1. pc[w] # "first_vintage" \/ obs'[w] # obs[w]
        BY <1>2, <2>1, <2>2, <3>1 DEF Holders
      <4> QED
        BY <1>1, <2>2, <3>1, <4>1 DEF WorkerAction, Step, Start, Abort, LookupIdentity,
             CommitFirstVintage, ListVintages, AddVintage, Finish, Goto, TypeOK
    <3>3. Holders(obs[w].identity) = {} /\ obs' = obs
      BY <3>2 DEF InsertItemAndMapping
    <3> QED
      BY <2>1, <2>2, <3>1, <3>3
  <2>3. Holders(obs[u].identity)' = {u}
    BY <1>2, <1>5, <2>2 DEF Holders
  <2>4. ASSUME NEW x \in Workers, CommitFirstVintage(x)
        PROVE  mapping'[obs[u].identity] = NoKey
    <3>1. x # u
      <4>1. pc[x] = "first_vintage" /\ pc' = [pc EXCEPT ![x] = "idle"]
        BY <2>4 DEF CommitFirstVintage, Finish
      <4>2. pc'[x] = "idle"
        BY <1>1, <4>1 DEF TypeOK
      <4> QED
        BY <1>2, <1>5, <4>2
    <3>2. obs[x].identity # obs[u].identity
      <4>1. Holders(obs[x].identity) = {x}
        BY <2>4, CreatedFacts
      <4>2. {x} # {u}
        BY <3>1
      <4> QED
        BY <2>1, <4>1, <4>2
    <3>3. mapping' = [mapping EXCEPT ![obs[x].identity] = key[x]]
      BY <2>4 DEF CommitFirstVintage
    <3>4. obs[u].identity \in Identities
      BY <2>1 DEF Observation
    <3> QED
      BY <1>1, <2>1, <3>2, <3>3, <3>4 DEF TypeOK
  <2>5. mapping'[obs[u].identity] = NoKey
    BY <2>1, <2>4, OnlyTwoActionsWrite DEF Appends, store
  <2> QED
    BY <2>3, <2>5
<1>6. ASSUME pc[u] \in {"list", "add"}
      PROVE  key[u] \in Keys /\ key[u] = mapping'[obs[u].identity]
  BY <1>1, <1>6, StoreGrows DEF WorkerConsistent, Observation
<1>7. ASSUME pc[u] = "add"
      PROVE  /\ latest[u] \in vintages' /\ latest[u].key = key[u]
             /\ ~OutOfOrder(obs[u], latest[u])
             /\ Facts(Candidate(latest[u], obs[u])) # Facts(latest[u])
  BY <1>1, <1>7, StoreGrows DEF WorkerConsistent, RowsOf
<1> QED
  BY <1>2, <1>3, <1>4, <1>5, <1>6, <1>7
  DEF WorkerConsistent, RowsOf, OutOfOrder, Facts, Candidate, BuildVintage

\* A call's own step establishes what it holds next.
LEMMA OwnStep ==
    ASSUME IInv, [Next]_vars, NEW u \in Workers, WorkerAction(u)
    PROVE  WorkerConsistent(u)'
<1> USE NewsAssumption
<1>1. TypeOK /\ WorkerConsistent(u)
  BY DEF IInv, WorkersConsistent
<1>2. CASE Start(u)
  BY <1>1, <1>2 DEF Start, Goto, WorkerConsistent, TypeOK, Observation
<1>3. CASE Abort(u)
  BY <1>1, <1>3 DEF Abort, Finish, WorkerConsistent, TypeOK, Recorded
<1>4. CASE CommitFirstVintage(u) \/ AddVintage(u)
  <2>1. pc'[u] = "idle" /\ obs'[u] = obs[u] /\ obs[u] \in Observation
    BY <1>1, <1>4 DEF CommitFirstVintage, AddVintage, Finish, TypeOK, WorkerConsistent
  <2> QED
    BY <2>1 DEF WorkerConsistent
<1>5. CASE LookupIdentity(u)
  <2>1. obs[u] \in Observation /\ obs' = obs /\ UNCHANGED store
    BY <1>1, <1>5 DEF LookupIdentity, WorkerConsistent
  <2>2. CASE mapping[obs[u].identity] # NoKey
    <3>1. pc'[u] = "list" /\ key'[u] = mapping[obs[u].identity]
      BY <1>1, <1>5, <2>2 DEF LookupIdentity, Goto, TypeOK
    <3>2. mapping[obs[u].identity] \in Keys
      BY <1>1, <2>1, <2>2 DEF TypeOK, Observation
    <3> QED
      BY <2>1, <3>1, <3>2 DEF WorkerConsistent, store
  <2>3. CASE mapping[obs[u].identity] = NoKey
    <3>1. PICK k \in Keys : ~Minted(k) /\ key' = [key EXCEPT ![u] = k]
      BY <1>5, <2>3 DEF LookupIdentity
    <3>2. pc'[u] = "insert" /\ key'[u] = k
      BY <1>1, <1>5, <2>3, <3>1 DEF LookupIdentity, Goto, TypeOK
    <3>3. /\ \A item \in items : item.key # k
          /\ \A x \in Workers : key[x] # k
      BY <3>1 DEF Minted
    <3>4. /\ \A i \in Identities : mapping[i] # k
          /\ \A v \in vintages : v.key # k
      BY <3>3 DEF IInv, FirstObservationAtomic
    <3>5. \A x \in Workers \ {u} : key'[x] # k
      BY <1>1, <3>1, <3>3 DEF TypeOK
    <3> QED
      BY <2>1, <3>2, <3>3, <3>4, <3>5 DEF WorkerConsistent, store
  <2> QED
    BY <2>2, <2>3
<1>6. CASE InsertItemAndMapping(u)
  <2>1. /\ obs[u] \in Observation /\ obs' = obs /\ UNCHANGED store
        /\ pc[u] = "insert" /\ Holders(obs[u].identity) = {}
    BY <1>1, <1>6 DEF InsertItemAndMapping, WorkerConsistent
  <2>2. CASE mapping[obs[u].identity] # NoKey
    <3>1. pc'[u] = "list" /\ key'[u] = mapping[obs[u].identity]
      BY <1>1, <1>6, <2>2 DEF InsertItemAndMapping, Goto, TypeOK
    <3>2. mapping[obs[u].identity] \in Keys
      BY <1>1, <2>1, <2>2 DEF TypeOK, Observation
    <3> QED
      BY <2>1, <3>1, <3>2 DEF WorkerConsistent, store
  <2>3. CASE mapping[obs[u].identity] = NoKey
    <3>1. pc' = [pc EXCEPT ![u] = "first_vintage"] /\ key' = key
      BY <1>6, <2>3 DEF InsertItemAndMapping, Goto
    <3>2. Holders(obs[u].identity)' = {u}
      BY <1>1, <2>1, <3>1 DEF Holders, TypeOK
    <3> QED
      BY <1>1, <2>1, <2>3, <3>1, <3>2 DEF WorkerConsistent, store, TypeOK
  <2> QED
    BY <2>2, <2>3
<1>7. CASE ListVintages(u)
  <2>1. /\ obs[u] \in Observation /\ obs' = obs /\ UNCHANGED store /\ pc[u] = "list"
    BY <1>1, <1>7 DEF ListVintages, WorkerConsistent
  <2>2. CASE pc'[u] = "idle"
    BY <2>1, <2>2 DEF WorkerConsistent
  <2>3. CASE pc'[u] # "idle"
    <3>1. PICK l \in vintages :
             /\ IsLatest(l, key[u])
             /\ ~OutOfOrder(obs[u], l)
             /\ Facts(Candidate(l, obs[u])) # Facts(l)
             /\ latest' = [latest EXCEPT ![u] = l]
             /\ Goto(u, "add")
             /\ UNCHANGED <<key, outcome>>
      BY <1>1, <1>7, <2>3 DEF ListVintages, Finish, TypeOK
    <3>2. latest'[u] = l /\ pc'[u] = "add" /\ key' = key
      BY <1>1, <3>1 DEF Goto, TypeOK
    <3>3. l.key = key[u]
      BY <3>1 DEF IsLatest, RowsOf
    <3> QED
      BY <1>1, <2>1, <3>1, <3>2, <3>3
      DEF WorkerConsistent, store, RowsOf, OutOfOrder, Facts, Candidate, BuildVintage
  <2> QED
    BY <2>2, <2>3
<1> QED
  BY <1>2, <1>3, <1>4, <1>5, <1>6, <1>7 DEF WorkerAction, Step

LEMMA WorkersStep == IInv /\ [Next]_vars => WorkersConsistent'
<1> SUFFICES ASSUME IInv, [Next]_vars, NEW u \in Workers PROVE WorkerConsistent(u)'
  BY DEF WorkersConsistent
<1>1. ASSUME NEW w \in Workers, WorkerAction(w) PROVE WorkerConsistent(u)'
  BY <1>1, OwnStep, OtherWorkerStep
<1>2. CASE Tick \/ UNCHANGED vars
  BY <1>2 DEF IInv, WorkersConsistent, WorkerConsistent, Tick, vars, store,
              Holders, RowsOf, OutOfOrder, Facts, Candidate, BuildVintage
<1> QED
  BY <1>1, <1>2 DEF Next, WorkerAction

-----------------------------------------------------------------------------
(* The theorems.                                                           *)

LEMMA StepKeeps == IInv /\ [Next]_vars => IInv'
BY TypeStep, AtomicStep, HistoryStep, LostStep, WorkersStep DEF IInv

\* The five invariants hold together in every reachable state.
THEOREM InvariantHolds == Spec => []IInv
BY InitEstablishes, StepKeeps, PTL DEF Spec

\* Every variable always has its type, and no revision number leaves Nat.
THEOREM TypeCorrect == Spec => []TypeOK
<1>1. IInv => TypeOK
  BY DEF IInv
<1> QED
  BY <1>1, InvariantHolds, PTL

\* However creating calls race, fail or die, item, mapping and revision 0
\* appear together.
THEOREM FirstObservationIsAtomic == Spec => []FirstObservationAtomic
<1>1. IInv => FirstObservationAtomic
  BY DEF IInv
<1> QED
  BY <1>1, InvariantHolds, PTL

\* Every item's stored revisions are gapless, in order and cumulative.
THEOREM HistoriesAreWellFormed == Spec => []HistoryWellFormed
<1>1. IInv => HistoryWellFormed
  BY DEF IInv
<1> QED
  BY <1>1, InvariantHolds, PTL

\* What a call reported as recorded is stored.
THEOREM NothingReportedIsLost == Spec => []NoLostObservation
<1>1. IInv => NoLostObservation
  BY DEF IInv
<1> QED
  BY <1>1, InvariantHolds, PTL

\* What a call holds between its awaits stays true of the store.
THEOREM CallsStayConsistent == Spec => []WorkersConsistent
<1>1. IInv => WorkersConsistent
  BY DEF IInv
<1> QED
  BY <1>1, InvariantHolds, PTL

\* No step changes what was visible at an instant before an item's newest row.
LEMMA StepKeepsPast ==
    ASSUME IInv, [Next]_vars,
           NEW k \in Keys, NEW t \in Times,
           NEW late \in RowsOf(k), late.availability > t
    PROVE  Visible(k, t)' = Visible(k, t)
<1>1. late \in vintages /\ late \in Vintage /\ late.key = k
  BY DEF RowsOf, IInv, TypeOK
<1>2. ASSUME NEW w \in Workers, CommitFirstVintage(w)
      PROVE  Visible(k, t)' = Visible(k, t)
  <2> DEFINE r == BuildVintage(key[w], obs[w], 0, {obs[w].channel})
  <2>1. vintages' = vintages \cup {r} /\ key[w] # k
    BY <1>1, <1>2, CreatedFacts
  <2>2. r.key = key[w]
    BY DEF BuildVintage
  <2> HIDE DEF r
  <2> QED
    BY <2>1, <2>2 DEF Visible, RowsOf
<1>3. ASSUME NEW w \in Workers, Appends(w)
      PROVE  Visible(k, t)' = Visible(k, t)
  <2> DEFINE r == Candidate(latest[w], obs[w])
  <2>1. /\ obs[w] \in Observation /\ latest[w] \in Vintage
        /\ latest[w].availability <= obs[w].at
        /\ \A v \in RowsOf(latest[w].key) : v.availability <= latest[w].availability
    BY <1>3, AppendedFacts
  <2>2. r.key = latest[w].key /\ r.availability = obs[w].at /\ vintages' = vintages \cup {r}
    BY <1>3, <2>1, CandidateType DEF Appends
  <2>3. CASE latest[w].key = k
    <3>1. late.availability <= latest[w].availability
      BY <1>1, <2>1, <2>3 DEF RowsOf
    <3>2. ~(obs[w].at <= t)
      BY <1>1, <2>1, <3>1 DEF Vintage, Observation, Times
    <3> HIDE DEF r
    <3> QED
      BY <2>2, <3>2 DEF Visible, RowsOf
  <2>4. CASE latest[w].key # k
    <3> HIDE DEF r
    <3> QED
      BY <2>2, <2>4 DEF Visible, RowsOf
  <2> QED
    BY <2>3, <2>4
<1>4. CASE UNCHANGED store
  BY <1>4 DEF store, Visible, RowsOf
<1> QED
  BY <1>2, <1>3, <1>4, OnlyTwoActionsWrite

\* Point-in-time history is never rewritten: once something later is recorded
\* about an item, what was visible of it earlier is frozen.
THEOREM PastStaysFrozen == Spec => PastIsFrozen
<1>1. IInv /\ [Next]_vars =>
         [\A k \in Keys, t \in Times :
             (\E v \in RowsOf(k) : v.availability > t)
                => Visible(k, t)' = Visible(k, t)]_vars
  BY StepKeepsPast
<1> QED
  BY <1>1, InvariantHolds, PTL DEF Spec, PastIsFrozen

-----------------------------------------------------------------------------
(* The stored revisions are a vintage ledger.                              *)

Ledger == INSTANCE VintageLedger WITH
              Subject <- Keys, Revision <- Nat, Time <- Times,
              Payload <- Contents \X (SUBSET Channels), ledger <- Entries

EntryOf(v) == [subject |-> v.key, revision |-> v.revision,
               availability |-> v.availability, payload |-> Facts(v)]

\* The entry of a row put behind its item's rows is a legal append.
LEMMA AppendIsLedgerStep ==
    ASSUME vintages \subseteq Vintage,
           NEW r \in Vintage,
           vintages' = vintages \cup {r},
           \A v \in RowsOf(r.key) : /\ v.revision < r.revision
                                    /\ v.availability <= r.availability,
           \/ r.revision = 0
           \/ \E l \in RowsOf(r.key) : l.revision + 1 = r.revision /\ Facts(l) # Facts(r)
    PROVE  Ledger!Next
<1>1. Entries = {EntryOf(v) : v \in vintages}
  BY DEF Entries, EntryOf
<1>2. Entries' = Entries \cup {EntryOf(r)}
  BY DEF Entries, EntryOf, Facts
<1>3. EntryOf(r) \in Ledger!Entry
  BY DEF EntryOf, Vintage, Facts, Ledger!Entry
<1>4. \A o \in Ledger!HistoryOf(r.key) : \E v \in RowsOf(r.key) : o = EntryOf(v)
  BY <1>1 DEF Ledger!HistoryOf, EntryOf, RowsOf
<1>5. \A v \in RowsOf(r.key) : EntryOf(v) \in Ledger!HistoryOf(r.key)
  BY <1>1 DEF Ledger!HistoryOf, EntryOf, RowsOf
<1>6. Ledger!Follows(EntryOf(r))
  <2>1. EntryOf(r).subject = r.key /\ EntryOf(r).revision = r.revision
        /\ EntryOf(r).availability = r.availability /\ EntryOf(r).payload = Facts(r)
    BY DEF EntryOf
  <2>2. \A o \in Ledger!HistoryOf(r.key) :
           o.revision < r.revision /\ o.availability <= r.availability
    BY <1>4 DEF EntryOf
  <2>3. r.revision # 0 =>
           \E o \in Ledger!HistoryOf(r.key) :
              o.revision + 1 = r.revision /\ o.payload # Facts(r)
    BY <1>5 DEF EntryOf
  <2> QED
    BY <2>1, <2>2, <2>3 DEF Ledger!Follows
<1> QED
  BY <1>2, <1>3, <1>6 DEF Ledger!Next, Ledger!Append

LEMMA StepRefines == IInv /\ [Next]_vars => [Ledger!Next]_Entries
<1> SUFFICES ASSUME IInv, [Next]_vars PROVE Ledger!Next \/ UNCHANGED Entries
  OBVIOUS
<1>1. vintages \subseteq Vintage
  BY DEF IInv, TypeOK
<1>2. ASSUME NEW w \in Workers, CommitFirstVintage(w) PROVE Ledger!Next
  <2> DEFINE r == BuildVintage(key[w], obs[w], 0, {obs[w].channel})
  <2>1. obs[w] \in Observation /\ key[w] \in Keys /\ vintages' = vintages \cup {r}
    BY <1>2, CreatedFacts
  <2>2. r \in Vintage /\ r.key = key[w] /\ r.revision = 0
    BY <2>1, BuildVintageType DEF BuildVintage, Observation
  <2> HIDE DEF r
  <2>3. \A v \in vintages : v.key # r.key
    BY <1>2, <2>2, CreatedFacts
  <2>4. RowsOf(r.key) = {}
    BY <2>3 DEF RowsOf
  <2> QED
    BY <1>1, <2>1, <2>2, <2>4, AppendIsLedgerStep
<1>3. ASSUME NEW w \in Workers, Appends(w) PROVE Ledger!Next
  <2> DEFINE l == latest[w]
             r == Candidate(l, obs[w])
  <2>1. /\ obs[w] \in Observation /\ l \in Vintage /\ l \in vintages
        /\ l.availability <= obs[w].at /\ Facts(r) # Facts(l)
        /\ \A v \in RowsOf(l.key) : /\ v.revision <= l.revision
                                    /\ v.availability <= l.availability
    BY <1>3, AppendedFacts
  <2>2. /\ r \in Vintage /\ r.key = l.key /\ r.revision = l.revision + 1
        /\ r.availability = obs[w].at
    BY <2>1, CandidateType
  <2>3. vintages' = vintages \cup {r}
    BY <1>3 DEF Appends
  <2>4. ASSUME NEW v \in RowsOf(r.key)
        PROVE  v.revision < r.revision /\ v.availability <= r.availability
    <3>1. v \in Vintage
      BY <1>1 DEF RowsOf
    <3> QED
      BY <2>1, <2>2, <3>1 DEF Vintage, Observation, Times
  <2>5. l \in RowsOf(r.key)
    BY <2>1, <2>2 DEF RowsOf
  <2> HIDE DEF r, l
  <2> QED
    BY <1>1, <2>1, <2>2, <2>3, <2>4, <2>5, AppendIsLedgerStep
<1>4. CASE UNCHANGED store
  BY <1>4 DEF store, Entries, Facts
<1> QED
  BY <1>2, <1>3, <1>4, OnlyTwoActionsWrite

\* RecordNewsObservation implements the append-only vintage ledger.
THEOREM NewsImplementsLedger == Spec => Ledger!Spec
<1>1. Init => Ledger!Init
  BY DEF Init, Ledger!Init, Entries
<1> QED
  BY <1>1, StepRefines, InvariantHolds, PTL DEF Spec, Ledger!Spec

-----------------------------------------------------------------------------
(* Any vintage ledger, whatever its subjects, revisions, instants and      *)
(* payloads, can be read by revision number or by time alike, and its past *)
(* is settled.  A recorder that implements VintageLedger inherits both.    *)

CONSTANTS Subject, Revision, Time, Payload

VARIABLE ledger

Any == INSTANCE VintageLedger

\* Within a subject, entries are ordered by number and by time alike.
LedgerOrdered ==
    /\ ledger \subseteq Any!Entry
    /\ \A e, o \in ledger : e.subject = o.subject =>
          /\ e.revision = o.revision => e = o
          /\ e.revision < o.revision => e.availability <= o.availability

LEMMA AppendKeepsOrder == Any!Numbered /\ LedgerOrdered /\ [Any!Next]_ledger => LedgerOrdered'
<1> SUFFICES ASSUME Any!Numbered, LedgerOrdered, [Any!Next]_ledger PROVE LedgerOrdered'
  OBVIOUS
<1>1. CASE UNCHANGED ledger
  BY <1>1 DEF LedgerOrdered
<1>2. CASE Any!Next
  <2>1. PICK n \in Any!Entry : Any!Follows(n) /\ ledger' = ledger \cup {n}
    BY <1>2 DEF Any!Next, Any!Append
  <2>2. \A o \in ledger : o.subject = n.subject =>
           /\ o.revision < n.revision /\ o.availability <= n.availability
           /\ o.revision \in Nat /\ n.revision \in Nat
    BY <2>1 DEF Any!Numbered, Any!Follows, Any!HistoryOf, LedgerOrdered, Any!Entry
  <2>3. \A e, o \in ledger' : e.subject = o.subject =>
           /\ e.revision = o.revision => e = o
           /\ e.revision < o.revision => e.availability <= o.availability
    <3>1. SUFFICES ASSUME NEW e \in ledger', NEW o \in ledger', e.subject = o.subject
                   PROVE  /\ e.revision = o.revision => e = o
                          /\ e.revision < o.revision => e.availability <= o.availability
      OBVIOUS
    <3>2. CASE e \in ledger /\ o \in ledger
      BY <3>1, <3>2 DEF LedgerOrdered
    <3>3. CASE e \in ledger /\ o = n
      BY <2>2, <3>1, <3>3
    <3>4. CASE e = n /\ o \in ledger
      BY <2>2, <3>1, <3>4
    <3>5. CASE e = n /\ o = n
      <4>1. n.revision \in Nat
        BY DEF Any!Numbered, Any!Entry
      <4> QED
        BY <3>5, <4>1
    <3> QED
      BY <2>1, <3>2, <3>3, <3>4, <3>5
  <2> QED
    BY <2>1, <2>3 DEF LedgerOrdered
<1> QED
  BY <1>1, <1>2

LEMMA OrderHolds ==
  ASSUME Any!Numbered
  PROVE  Any!Spec => []LedgerOrdered
<1>1. Any!Init => LedgerOrdered
  BY DEF Any!Init, LedgerOrdered
<1> QED
  BY <1>1, AppendKeepsOrder, PTL DEF Any!Spec

\* The visible entry with the highest revision is the answer to an as-of query,
\* and no other entry is.
THEOREM RevisionsAndTimeAgree ==
  ASSUME Any!Numbered
  PROVE  Any!Spec => []Any!NumberingAgreesWithTime
<1>1. LedgerOrdered => Any!NumberingAgreesWithTime
  <2> SUFFICES ASSUME LedgerOrdered, NEW s \in Subject, NEW t \in Time, NEW e \in Any!Visible(s, t)
               PROVE  Any!IsAnswer(e, s, t) <=> \A o \in Any!Visible(s, t) : o.revision <= e.revision
    BY DEF Any!NumberingAgreesWithTime
  <2>1. ASSUME NEW o \in Any!Visible(s, t)
        PROVE  /\ o.revision \in Nat /\ e.revision \in Nat
               /\ o.availability \in Nat /\ e.availability \in Nat
               /\ e.revision < o.revision => e.availability <= o.availability
               /\ o.revision < e.revision => o.availability <= e.availability
    BY <2>1 DEF Any!Numbered, Any!Visible, Any!HistoryOf, LedgerOrdered, Any!Entry
  <2>2. ASSUME Any!IsAnswer(e, s, t), NEW o \in Any!Visible(s, t)
        PROVE  o.revision <= e.revision
    BY <2>1, <2>2 DEF Any!IsAnswer
  <2>3. ASSUME \A o \in Any!Visible(s, t) : o.revision <= e.revision
        PROVE  Any!IsAnswer(e, s, t)
    <3>1. ASSUME NEW o \in Any!Visible(s, t)
          PROVE  \/ o.availability < e.availability
                 \/ o.availability = e.availability /\ o.revision <= e.revision
      <4>1. CASE o.revision < e.revision
        BY <2>1, <4>1
      <4>2. CASE o.revision = e.revision
        <5>1. o = e
          BY <4>2 DEF Any!Visible, Any!HistoryOf, LedgerOrdered
        <5> QED
          BY <2>1, <4>2, <5>1
      <4> QED
        BY <2>1, <2>3, <4>1, <4>2
    <3> QED
      BY <3>1 DEF Any!IsAnswer
  <2> QED
    BY <2>2, <2>3
<1> QED
  BY <1>1, OrderHolds, PTL

\* No append reaches behind a later entry of its subject.
THEOREM PastIsAlwaysSettled ==
  ASSUME Any!Numbered
  PROVE  Any!Spec => Any!PastIsSettled
<1>1. LedgerOrdered /\ [Any!Next]_ledger =>
         [\A s \in Subject, t \in Time :
            (\E e \in Any!HistoryOf(s) : e.availability > t)
               => Any!Visible(s, t)' = Any!Visible(s, t)]_ledger
  <2> SUFFICES ASSUME LedgerOrdered, Any!Next, NEW s \in Subject, NEW t \in Time,
                      NEW late \in Any!HistoryOf(s), late.availability > t
               PROVE  Any!Visible(s, t)' = Any!Visible(s, t)
    OBVIOUS
  <2>1. PICK n \in Any!Entry : Any!Follows(n) /\ ledger' = ledger \cup {n}
    BY DEF Any!Next, Any!Append
  <2>2. late \in ledger /\ late.subject = s /\ late.availability \in Nat
        /\ n.availability \in Nat /\ t \in Nat
    BY DEF Any!Numbered, Any!HistoryOf, LedgerOrdered, Any!Entry
  <2>3. n.subject = s => late.availability <= n.availability
    BY <2>1 DEF Any!Follows
  <2> QED
    BY <2>1, <2>2, <2>3 DEF Any!Visible, Any!HistoryOf
<1> QED
  BY <1>1, OrderHolds, PTL DEF Any!Spec, Any!PastIsSettled
=============================================================================

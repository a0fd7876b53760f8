---------------------------- MODULE CandleProofs ----------------------------
(***************************************************************************)
(* Candles, proved about.  First that a watermark can be trusted, for any  *)
(* grid of candle starts, any page size and any number of concurrent       *)
(* backfills and IngestCandles calls.  The invariant comes in layers, each *)
(* inductive given the ones before: types and roles, the lock, what the    *)
(* lock's holder is up to (PlanOK), and what the fetched and stored        *)
(* candles are worth (StoredOK, FinalOK).                                  *)
(*                                                                         *)
(* Then the connections the same calls hold (LockPools): dedicated engines *)
(* rule the pool deadlock out.                                             *)
(*                                                                         *)
(* Last what is made of candles (Backtest and what it extends): that the   *)
(* walk of a range expects its grid, that aggregates are whole, that the   *)
(* incremental strategies say what the reference ones say and use the past *)
(* only, and that trades earn what the account of the signals earns.       *)
(* These go by induction over times, series and hypotheses: Upwards, from  *)
(* the well-foundedness of the naturals.                                   *)
(***************************************************************************)
EXTENDS CandleBackfill, Backtest, FiniteSetTheorems, WellFoundedInduction, TLAPS

\* IngestCandles and BackfillCandles do not share their awaits.
Roles ==
    /\ \A w \in Workers : pc[w] \notin {"ingest", "upsert"}
    /\ \A g \in Ingesters : pc[g] \in {"idle", "ingest", "upsert"}

-----------------------------------------------------------------------------
(* The grid.                                                               *)

\* candle_start_boundary is the last boundary not after an instant, and leaves
\* boundaries alone.
LEMMA FloorIs ==
  ASSUME NEW t \in Instants
  PROVE  /\ Floor(t) \in Boundaries
         /\ Floor(t) \in Nat /\ Floor(t) \in Starts
         /\ Floor(t) <= t
         /\ \A c \in Boundaries : c <= t => c <= Floor(t)
         /\ t \in Boundaries => Floor(t) = t
<1>1. \E b \in Boundaries : IsFloor(b, t)
  BY GridAssumption
<1>2. Floor(t) \in Boundaries /\ IsFloor(Floor(t), t)
  BY <1>1 DEF Floor
<1>3. t \in Nat /\ \A c \in Boundaries : c \in Nat
  BY GridAssumption DEF Instants
<1>4. \A c \in Boundaries : c <= t => c <= Floor(t)
  BY <1>2 DEF IsFloor
<1>5. Floor(t) <= t /\ Floor(t) \in Nat
  BY <1>2, <1>3 DEF IsFloor
<1>6. Floor(t) \in Starts
  BY <1>2, <1>3, <1>5, GridAssumption DEF Starts, Instants
<1>7. t \in Boundaries => Floor(t) = t
  BY <1>3, <1>4, <1>5
<1> QED
  BY <1>2, <1>4, <1>5, <1>6, <1>7

\* Instants and candle starts are natural numbers.
LEMMA NumbersAre ==
  /\ \A t \in Instants : t \in Nat
  /\ \A b \in Boundaries : b \in Nat
  /\ 0 \in Instants
  /\ \A t \in Instants, n \in Nat : n <= t => n \in Instants
BY GridAssumption DEF Instants

\* A page of a forward extension starts where the extension does and ends
\* beyond, on a boundary unless it is the last one.
LEMMA ForwardPages ==
  ASSUME NEW from \in Starts, NEW upto \in Instants, from <= upto,
         NEW p \in Page, IsForwardPage(p, from, upto)
  PROVE  /\ p.start = from /\ from <= p.end /\ p.end <= upto
         /\ p.end < upto => p.end \in Boundaries
<1>1. p.end \in Nat /\ from \in Nat /\ upto \in Nat
  BY NumbersAre DEF Page, Starts
<1>2. p.end < from => Cardinality(CandlesIn(from, p.end)) = 0
  <2> SUFFICES ASSUME p.end < from PROVE Cardinality(CandlesIn(from, p.end)) = 0
    OBVIOUS
  <2>1. ASSUME NEW b \in CandlesIn(from, p.end) PROVE FALSE
    BY <1>1, <2>1, NumbersAre DEF CandlesIn
  <2>2. CandlesIn(from, p.end) = {}
    BY <2>1
  <2> QED
    BY <2>2, FS_EmptySet
<1>3. CASE p.end = upto
  BY <1>1, <1>3 DEF IsForwardPage
<1>4. CASE p.end # upto
  <2>1. p.start = from /\ p.end \in Boundaries /\ p.end <= upto
        /\ Cardinality(CandlesIn(from, p.end)) = PageSize
    BY <1>4 DEF IsForwardPage
  <2>2. ~(p.end < from)
    BY <1>2, <2>1, BackfillAssumption
  <2> QED
    BY <1>1, <2>1, <2>2
<1> QED
  BY <1>3, <1>4

-----------------------------------------------------------------------------
(* Types and roles.                                                        *)

\* What the provider answers is a set of candles,
LEMMA AnswerType == \A s, e : Answer(s, e) \in Candles
BY DEF Answer, Candles, Knowledge

\* and so is what the table holds after an upsert,
LEMMA UpsertedType == ASSUME NEW f \in Candles, candles \in Candles PROVE Upserted(f) \in Candles
BY DEF Upserted, Candles, Knowledge

\* and what a call holds before its first await is of the types.
LEMMA BlanksType == NoSpan \in Page /\ NoSpan \in Span /\ NoPlan \in Plan /\ Nothing \in Candles
<1>1. Floor(0) \in Starts /\ 0 \in Instants
  BY FloorIs, NumbersAre
<1> QED
  BY <1>1 DEF NoSpan, NoPlan, Nothing, Plan, Page, Span, Starts, Candles, Knowledge

\* What a call holds that its next step's types depend on: a page that is not
\* the last one ends on a boundary, and a backward extension left a watermark.
InHand ==
    \A w \in Calls :
       /\ pc[w] \in {"store", "mark"} /\ plan[w].way = "forward" /\ page[w].end < plan[w].upto
             => page[w].end \in Starts
       /\ pc[w] = "reread" => watermark # NoMark

Typed == TypeOK /\ Roles /\ LockHeldThroughout /\ InHand

\* A watermark is never taken for there being none.
LEMMA RecordsAreMarks == \A m : m \in Mark => m # NoMark
BY NumbersAre, BackfillAssumption DEF Mark, Starts

\* Types, roles and the lock, at first,
LEMMA InitTyped == Init => Typed
BY BlanksType, NumbersAre, BackfillAssumption
   DEF Init, Typed, InHand, TypeOK, Roles, LockHeldThroughout, Locked, Steps, Calls

\* Leaving a call anywhere keeps types, roles and the lock in order.
LEMMA EndTyped ==
  ASSUME Typed, NEW w \in Calls, NEW how \in {"done", "disjoint", "unavailable", "crashed"},
         End(w, how), now' \in Instants, candles' \in Candles,
         watermark' = watermark, made' = made
  PROVE  Typed'
BY BlanksType, BackfillAssumption
   DEF End, Goto, Typed, InHand, TypeOK, Roles, LockHeldThroughout, Locked, Steps, Calls

\* after every step of a call or of the clock,
LEMMA StepTyped == Typed /\ [Next]_vars => Typed'
<1> SUFFICES ASSUME Typed, [Next]_vars PROVE Typed'
  OBVIOUS
<1> USE BackfillAssumption DEF Typed, InHand, TypeOK, Roles, LockHeldThroughout, Locked, Steps, Calls, Goto
<1>1. CASE UNCHANGED vars
  BY <1>1 DEF vars
<1>2. ASSUME Tick PROVE Typed'
  BY <1>2, GridAssumption DEF Tick, Instants
<1>3. ASSUME NEW w \in Workers, NEW s \in Instants, NEW e \in Instants, Call(w, s, e, "acquire")
      PROVE Typed'
  BY <1>3 DEF Call, Span
<1>4. ASSUME NEW w \in Ingesters, NEW s \in Instants, NEW e \in Instants, Call(w, s, e, "ingest")
      PROVE Typed'
  BY <1>4 DEF Call, Span
<1>5. ASSUME NEW w \in Calls, Acquire(w) PROVE Typed'
  BY <1>5 DEF Acquire
<1>6. ASSUME NEW w \in Calls, ReadWatermark(w) PROVE Typed'
  <2> DEFINE r == request[w]
  <2>1. r.start \in Instants /\ r.end \in Instants
    BY DEF Span
  <2>2. CASE watermark = NoMark
    <3>1. Floor(r.start) \in Starts
      BY <2>1, FloorIs
    <3> QED
      BY <1>6, <2>1, <2>2, <3>1 DEF ReadWatermark, Work, Plan
  <2>3. CASE watermark # NoMark
    <3>1. Floor(r.start) \in Starts
      BY <2>1, FloorIs
    <3>2. watermark.earliest \in Starts /\ watermark.latest \in Starts
      BY <2>3 DEF Mark
    <3>3. ASSUME End(w, "disjoint"), now' = now, candles' = candles, watermark' = watermark, made' = made
          PROVE  Typed'
      BY <3>3, EndTyped
    <3>4. CASE pc'[w] = "idle"
      BY <1>6, <2>3, <3>3, <3>4 DEF ReadWatermark, End
    <3>5. CASE pc'[w] # "idle"
      BY <1>6, <2>1, <2>3, <3>1, <3>2, <3>5 DEF ReadWatermark, Work, Plan, End, ForwardStart, Starts
    <3> QED
      BY <3>4, <3>5
  <2> QED
    BY <2>2, <2>3
<1>7. ASSUME NEW w \in Calls, Fetch(w) PROVE Typed'
  <2>1. CASE End(w, "unavailable")
    BY <1>7, <2>1, EndTyped DEF Fetch
  <2>2. CASE ~End(w, "unavailable")
    <3>1. PICK p \in Page :
             /\ IsPage(p, plan[w])
             /\ page' = [page EXCEPT ![w] = p]
             /\ got' = [got EXCEPT ![w] = Answer(p.start, p.end)]
             /\ pc' = [pc EXCEPT ![w] = "store"]
             /\ UNCHANGED <<lock, request, plan, result>>
      BY <1>7, <2>2 DEF Fetch
    <3>2. p.end \in Instants /\ plan[w].upto \in Instants
          /\ \A t \in Instants : t \in Nat
      BY NumbersAre DEF Page, Plan
    <3>3. plan[w].way = "forward" /\ p.end < plan[w].upto => p.end \in Starts
      BY <3>1, <3>2 DEF IsPage, IsForwardPage, Starts
    <3> QED
      BY <1>7, <3>1, <3>3, AnswerType DEF Fetch
  <2> QED
    BY <2>1, <2>2
<1>8. ASSUME NEW w \in Calls, Store(w) PROVE Typed'
  BY <1>8, UpsertedType DEF Store
<1>9. ASSUME NEW w \in Calls, MarkForward(w) PROVE Typed'
  <2>1. page[w].end \in Instants /\ plan[w].kept \in Starts /\ plan[w].upto \in Instants
    BY DEF Page, Plan
  <2>2. Floor(page[w].end) \in Starts
    BY <2>1, FloorIs
  <2>3. watermark' = [earliest |-> plan[w].kept, latest |-> Floor(page[w].end)]
    BY <1>9 DEF MarkForward, AlignedLatest
  <2>4. watermark' \in Mark /\ watermark' # NoMark
    BY <2>1, <2>2, <2>3, RecordsAreMarks DEF Mark
  <2>5. CASE page[w].end < plan[w].upto
    <3>1. page[w].end \in Starts
      BY <1>9, <2>5 DEF MarkForward
    <3> DEFINE work == [way |-> "forward", from |-> page[w].end, upto |-> plan[w].upto,
                        kept |-> plan[w].kept]
    <3>2. work \in Plan /\ work.way = "forward"
      BY <2>1, <3>1 DEF Plan
    <3>3. plan' = [plan EXCEPT ![w] = work] /\ pc' = [pc EXCEPT ![w] = "fetch"] /\ pc[w] = "mark"
      BY <1>9, <2>5 DEF MarkForward, Work
    <3>4. UNCHANGED <<now, candles, lock, request, page, got, result, made>>
      BY <1>9 DEF MarkForward
    <3> HIDE DEF work
    <3> QED
      BY <2>4, <3>2, <3>3, <3>4
  <2>6. CASE ~(page[w].end < plan[w].upto)
    BY <1>9, <2>4, <2>6 DEF MarkForward
  <2> QED
    BY <2>5, <2>6
<1>10. ASSUME NEW w \in Calls, MarkBackward(w) PROVE Typed'
  <2>1. /\ page[w].start \in Starts /\ plan[w].from \in Starts /\ plan[w].kept \in Starts
        /\ page[w].start \in Instants
    BY DEF Page, Plan, Starts
  <2>2. watermark' = [earliest |-> page[w].start, latest |-> plan[w].kept]
    BY <1>10 DEF MarkBackward
  <2>3. watermark' \in Mark /\ watermark' # NoMark
    BY <2>1, <2>2, RecordsAreMarks DEF Mark
  <2>4. CASE plan[w].from < page[w].start
    BY <1>10, <2>1, <2>3, <2>4 DEF MarkBackward, Work, Plan
  <2>5. CASE ~(plan[w].from < page[w].start)
    BY <1>10, <2>3, <2>5 DEF MarkBackward, AfterBackward
  <2> QED
    BY <2>4, <2>5
<1>11. ASSUME NEW w \in Calls, Reread(w) PROVE Typed'
  <2>1. /\ watermark.earliest \in Starts /\ plan[w].kept \in Starts
        /\ request[w].end \in Instants
    BY <1>11 DEF Reread, Plan, Span, Mark
  <2> QED
    BY <1>11, <2>1 DEF Reread, Plan, Work
<1>12. ASSUME NEW w \in Calls, Finish(w) PROVE Typed'
  BY <1>12, EndTyped DEF Finish
<1>13. ASSUME NEW w \in Calls, Crash(w) PROVE Typed'
  BY <1>13, EndTyped DEF Crash
<1>14. ASSUME NEW w \in Calls, IngestFetch(w) PROVE Typed'
  BY <1>14, AnswerType DEF IngestFetch
<1>15. ASSUME NEW w \in Calls, IngestStore(w) PROVE Typed'
  BY <1>15, EndTyped, UpsertedType DEF IngestStore
<1> QED
  BY <1>1, <1>2, <1>3, <1>4, <1>5, <1>6, <1>7, <1>8, <1>9, <1>10, <1>11, <1>12, <1>13, <1>14,
     <1>15 DEF Next, Step

\* and so always.
LEMMA TypedHolds == Spec => []Typed
BY InitTyped, StepTyped, PTL DEF Spec

-----------------------------------------------------------------------------
(* What the lock's holder is up to.                                        *)

\* The plan, the page and the watermark agree: a forward extension goes on
\* where the coverage ends, a backward one where it begins, and both leave the
\* other bound alone until what was asked for is covered.
PlanOK(w) ==
    /\ pc[w] # "idle" => request[w].start < request[w].end /\ request[w].end <= now
    /\ pc[w] \in {"fetch", "store", "mark"} /\ plan[w].way = "forward" =>
          /\ plan[w].from <= plan[w].upto
          /\ plan[w].upto = request[w].end
          /\ plan[w].kept <= Floor(request[w].start)
          /\ watermark = NoMark => plan[w].from = plan[w].kept
          /\ watermark # NoMark =>
                watermark.earliest = plan[w].kept /\ watermark.latest = plan[w].from
    /\ pc[w] \in {"fetch", "store", "mark"} /\ plan[w].way = "backward" =>
          /\ watermark # NoMark
          /\ watermark.earliest = plan[w].upto
          /\ watermark.latest = plan[w].kept
          /\ plan[w].from = Floor(request[w].start)
    /\ pc[w] \in {"store", "mark"} /\ plan[w].way = "forward" =>
          /\ page[w].start = plan[w].from
          /\ plan[w].from <= page[w].end
          /\ page[w].end <= plan[w].upto
    /\ pc[w] \in {"store", "mark"} /\ plan[w].way = "backward" =>
          /\ page[w].end = plan[w].upto
          /\ plan[w].from <= page[w].start
          /\ page[w].start < page[w].end
    /\ pc[w] = "reread" =>
          /\ watermark.latest = plan[w].kept
          /\ plan[w].kept < request[w].end
          /\ watermark.earliest <= Floor(request[w].start)
    /\ pc[w] = "finish" =>
          /\ watermark # NoMark
          /\ watermark.earliest <= Floor(request[w].start)
          /\ Floor(request[w].end) <= watermark.latest

Planned ==
    /\ \A w \in Calls : PlanOK(w)
    /\ watermark # NoMark => watermark.earliest <= now /\ watermark.latest <= now

\* The numbers a call handles.
LEMMA CallTypes ==
  ASSUME Typed, NEW w \in Calls
  PROVE  /\ now \in Nat
         /\ request[w].start \in Instants /\ request[w].end \in Instants
         /\ request[w].start \in Nat /\ request[w].end \in Nat
         /\ plan[w].from \in Starts /\ plan[w].from \in Nat
         /\ plan[w].kept \in Starts /\ plan[w].kept \in Nat
         /\ plan[w].upto \in Instants /\ plan[w].upto \in Nat
         /\ plan[w].way \in {"forward", "backward"}
         /\ page[w] \in Page /\ page[w].start \in Starts /\ page[w].start \in Nat
         /\ page[w].end \in Instants /\ page[w].end \in Nat
         /\ watermark # NoMark => /\ watermark.earliest \in Starts /\ watermark.earliest \in Nat
                                  /\ watermark.latest \in Starts /\ watermark.latest \in Nat
<1>1. request[w] \in Span /\ plan[w] \in Plan /\ page[w] \in Page
      /\ (watermark # NoMark => watermark \in Mark) /\ now \in Instants
  BY DEF Typed, TypeOK
<1> QED
  BY <1>1, NumbersAre DEF Span, Plan, Page, Mark, Starts

\* Whatever leaves a call and the watermark alone, or a call that does not hold
\* the lock, leaves its plan in order.
LEMMA OthersPlanned ==
  ASSUME Typed, Typed', NEW u \in Calls, PlanOK(u),
         pc'[u] = pc[u], request'[u] = request[u], plan'[u] = plan[u], page'[u] = page[u],
         now <= now', watermark' = watermark \/ pc[u] \notin Locked
  PROVE  PlanOK(u)'
<1>1. now \in Nat /\ now' \in Nat /\ request[u].end \in Nat
  <2>1. now' \in Instants
    BY DEF Typed, TypeOK
  <2> QED
    BY <2>1, CallTypes, NumbersAre
<1>2. request[u].end <= now => request[u].end <= now'
  BY <1>1
<1>3. CASE watermark' = watermark
  BY <1>2, <1>3 DEF PlanOK
<1>4. CASE pc[u] \notin Locked
  BY <1>2, <1>4 DEF PlanOK, Locked
<1> QED
  BY <1>3, <1>4

\* A call that ends has no plan.
LEMMA EndPlanned ==
  ASSUME Typed, Typed', Planned, NEW w \in Calls, NEW how, End(w, how),
         now' = now, watermark' = watermark
  PROVE  Planned'
<1>1. ASSUME NEW u \in Calls, u # w PROVE PlanOK(u)'
  <2>1. now <= now'
    BY CallTypes
  <2>2. pc'[u] = pc[u] /\ request'[u] = request[u] /\ plan'[u] = plan[u] /\ page'[u] = page[u]
    BY <1>1 DEF End, Goto, Typed, TypeOK
  <2> QED
    BY <2>1, <2>2, OthersPlanned DEF Planned
<1>2. pc'[w] = "idle"
  BY DEF End, Goto, Typed, TypeOK
<1>3. PlanOK(w)'
  BY <1>2 DEF PlanOK
<1> QED
  BY <1>1, <1>3 DEF Planned

\* What the holder of the lock is up to stays in keeping with the watermark.
LEMMA StepPlanned == Typed /\ Typed' /\ Planned /\ [Next]_vars => Planned'
<1> SUFFICES ASSUME Typed, Typed', Planned, [Next]_vars PROVE Planned'
  OBVIOUS
<1> DEFINE Same(u) == /\ pc'[u] = pc[u] /\ request'[u] = request[u]
                      /\ plan'[u] = plan[u] /\ page'[u] = page[u]
<1>t. \A u \in Calls : u \in DOMAIN pc /\ u \in DOMAIN request /\ u \in DOMAIN plan /\ u \in DOMAIN page
  BY DEF Typed, TypeOK
<1>n. now \in Nat /\ now' \in Nat
  BY NumbersAre DEF Typed, TypeOK
<1>k. ASSUME NEW w \in Calls, PlanOK(w)', \A u \in Calls : u # w => Same(u),
             now' = now,
             watermark' = watermark \/ pc[w] \in Locked,
             watermark' = watermark \/ (watermark'.earliest <= now /\ watermark'.latest <= now)
      PROVE  Planned'
  <2>1. ASSUME NEW u \in Calls, u # w PROVE PlanOK(u)'
    <3>1. watermark' = watermark \/ pc[u] \notin Locked
      BY <1>k, <2>1 DEF Typed, LockHeldThroughout
    <3> QED
      BY <1>k, <1>n, <2>1, <3>1, OthersPlanned DEF Planned
  <2> QED
    BY <1>k, <2>1 DEF Planned
<1>1. CASE UNCHANGED vars
  <2>1. ASSUME NEW u \in Calls PROVE PlanOK(u)'
    BY <1>1, <1>n, OthersPlanned DEF Planned, vars
  <2> QED
    BY <1>1, <2>1 DEF Planned, vars
<1>2. ASSUME Tick PROVE Planned'
  <2>1. ASSUME NEW u \in Calls PROVE PlanOK(u)'
    BY <1>2, <1>n, OthersPlanned DEF Planned, Tick
  <2>2. now <= now' /\ watermark' = watermark
    BY <1>2, <1>n DEF Tick
  <2>3. watermark # NoMark => watermark.earliest \in Nat /\ watermark.latest \in Nat
    BY NumbersAre DEF Typed, TypeOK, Mark, Starts
  <2> QED
    BY <1>n, <2>1, <2>2, <2>3 DEF Planned
<1>3. ASSUME NEW w \in Calls, NEW s \in Instants, NEW e \in Instants,
             NEW first \in {"acquire", "ingest"}, Call(w, s, e, first)
      PROVE Planned'
  <2>1. PlanOK(w)'
    BY <1>3, <1>t DEF Call, Goto, PlanOK
  <2> QED
    BY <1>3, <1>k, <2>1 DEF Call, Goto
<1>4. ASSUME NEW w \in Calls, Acquire(w) PROVE Planned'
  <2>1. PlanOK(w)'
    BY <1>4, <1>t DEF Acquire, Goto, PlanOK, Planned
  <2> QED
    BY <1>4, <1>k, <2>1 DEF Acquire, Goto
<1>5. ASSUME NEW w \in Calls, ReadWatermark(w) PROVE Planned'
  <2>1. CASE pc'[w] = "idle"
    <3>1. End(w, "disjoint")
      BY <1>5, <1>t, <2>1 DEF ReadWatermark, Goto
    <3> QED
      BY <1>5, <3>1, EndPlanned DEF ReadWatermark
  <2>2. CASE pc'[w] # "idle"
    <3> DEFINE s == request[w].start
               e == request[w].end
    <3>1. /\ s \in Instants /\ e \in Instants /\ s \in Nat /\ e \in Nat
          /\ watermark # NoMark => /\ watermark.earliest \in Boundaries /\ watermark.earliest \in Nat
                                   /\ watermark.latest \in Boundaries /\ watermark.latest \in Nat
      BY CallTypes DEF Starts
    <3>2. /\ Floor(s) \in Nat /\ Floor(s) <= s /\ Floor(e) \in Nat /\ Floor(e) <= e
          /\ \A c \in Boundaries : c <= s => c <= Floor(s)
      BY <3>1, FloorIs
    <3>3. s < e /\ e <= now
      BY <1>5 DEF ReadWatermark, Planned, PlanOK
    <3>4. PlanOK(w)'
      <4> HIDE DEF s, e
      <4>1. request'[w].start = s /\ request'[w].end = e /\ watermark' = watermark /\ now' = now
        BY <1>5, <1>t, <2>2 DEF ReadWatermark, End, Goto, s, e
      <4>2. CASE watermark = NoMark
        <5>1. plan'[w] = [way |-> "forward", from |-> Floor(s), upto |-> e, kept |-> Floor(s)]
              /\ pc'[w] = "fetch"
          BY <1>5, <1>t, <2>2, <4>2 DEF ReadWatermark, Goto, Work, s, e
        <5> QED
          BY <1>n, <3>1, <3>2, <3>3, <4>1, <4>2, <5>1 DEF PlanOK
      <4>3. CASE watermark # NoMark /\ s < watermark.earliest
        <5>1. /\ plan'[w] = [way |-> "backward", from |-> Floor(s),
                             upto |-> watermark.earliest, kept |-> watermark.latest]
              /\ pc'[w] = "fetch"
          BY <1>5, <1>t, <2>2, <3>1, <4>3 DEF ReadWatermark, Goto, Work, End, s, e
        <5> QED
          BY <1>n, <3>1, <3>2, <3>3, <4>1, <4>3, <5>1 DEF PlanOK
      <4>4. CASE watermark # NoMark /\ s >= watermark.earliest /\ e > watermark.latest
        <5>1. /\ plan'[w] = [way |-> "forward", from |-> watermark.latest,
                             upto |-> e, kept |-> watermark.earliest]
              /\ pc'[w] = "fetch"
          BY <1>5, <1>t, <2>2, <3>1, <4>4 DEF ReadWatermark, Goto, Work, End, ForwardStart, s, e
        <5> QED
          BY <1>n, <3>1, <3>2, <3>3, <4>1, <4>4, <5>1 DEF PlanOK
      <4>5. CASE watermark # NoMark /\ s >= watermark.earliest /\ e <= watermark.latest
        <5>1. pc'[w] = "finish"
          BY <1>5, <1>t, <2>2, <3>1, <4>5 DEF ReadWatermark, Goto, Work, End, s, e
        <5> QED
          BY <1>n, <3>1, <3>2, <3>3, <4>1, <4>5, <5>1 DEF PlanOK
      <4> QED
        BY <3>1, <4>2, <4>3, <4>4, <4>5
    <3>5. ASSUME NEW u \in Calls, u # w PROVE Same(u)
      <4>1. (plan'[u] = plan[u] /\ UNCHANGED <<request, page>>) \/ End(w, "disjoint")
        BY <1>5, <1>t, <3>5 DEF ReadWatermark, Work
      <4>2. pc'[u] = pc[u]
        BY <1>5, <1>t, <3>5 DEF ReadWatermark, Goto, End
      <4> QED
        BY <1>t, <3>5, <4>1, <4>2 DEF End
    <3> QED
      BY <1>5, <1>k, <3>4, <3>5 DEF ReadWatermark
  <2> QED
    BY <2>1, <2>2
<1>6. ASSUME NEW w \in Calls, Fetch(w) PROVE Planned'
  <2>1. CASE End(w, "unavailable")
    BY <1>6, <2>1, EndPlanned DEF Fetch
  <2>2. CASE ~End(w, "unavailable")
    <3>1. PICK p \in Page :
             /\ IsPage(p, plan[w])
             /\ page' = [page EXCEPT ![w] = p]
             /\ pc' = [pc EXCEPT ![w] = "store"]
             /\ UNCHANGED <<request, plan, watermark, now>>
      BY <1>6, <2>2 DEF Fetch, Goto
    <3>2. pc[w] = "fetch" /\ pc'[w] = "store" /\ page'[w] = p /\ plan'[w] = plan[w]
          /\ request'[w] = request[w]
      BY <1>6, <1>t, <3>1 DEF Fetch
    <3>3. CASE plan[w].way = "forward"
      <4>1. IsForwardPage(p, plan[w].from, plan[w].upto)
        BY <3>1, <3>3 DEF IsPage
      <4>2. p.start = plan[w].from /\ plan[w].from <= p.end /\ p.end <= plan[w].upto
        BY <3>2, <3>3, <4>1, CallTypes, ForwardPages DEF Planned, PlanOK
      <4>3. PlanOK(w)'
        BY <3>1, <3>2, <3>3, <4>2 DEF Planned, PlanOK
      <4> QED
        BY <1>k, <3>1, <4>3
    <3>4. CASE plan[w].way = "backward"
      <4>1. IsBackwardPage(p, plan[w].from, plan[w].upto)
        BY <3>1, <3>4 DEF IsPage
      <4>2. p.end = plan[w].upto /\ plan[w].from <= p.start /\ p.start < p.end
        BY <4>1 DEF IsBackwardPage, CandlesIn
      <4>3. PlanOK(w)'
        BY <3>1, <3>2, <3>4, <4>2 DEF Planned, PlanOK
      <4> QED
        BY <1>k, <3>1, <4>3
    <3> QED
      BY <3>3, <3>4, CallTypes
  <2> QED
    BY <2>1, <2>2
<1>7. ASSUME NEW w \in Calls, Store(w) PROVE Planned'
  <2>1. PlanOK(w)'
    BY <1>7, <1>t DEF Store, Goto, PlanOK, Planned
  <2> QED
    BY <1>7, <1>k, <2>1 DEF Store, Goto
<1>8. ASSUME NEW w \in Calls, MarkForward(w) PROVE Planned'
  <2> DEFINE e == page[w].end
             u == plan[w].upto
             k == plan[w].kept
  <2>1. /\ pc[w] = "mark" /\ plan[w].way = "forward" /\ now' = now
        /\ watermark' = [earliest |-> k, latest |-> Floor(e)]
        /\ request'[w] = request[w] /\ page'[w] = page[w]
    BY <1>8 DEF MarkForward, AlignedLatest
  <2>2. /\ e \in Instants /\ e \in Nat /\ u \in Nat /\ k \in Nat
        /\ request[w].start \in Nat /\ request[w].end \in Nat /\ request[w].start \in Instants
    BY CallTypes
  <2>3. /\ Floor(e) \in Nat /\ Floor(e) <= e /\ (e \in Boundaries => Floor(e) = e)
        /\ Floor(request[w].start) \in Nat /\ Floor(request[w].start) <= request[w].start
    BY <2>2, FloorIs
  <2>4. /\ e <= u /\ u = request[w].end /\ k <= Floor(request[w].start)
        /\ request[w].start < request[w].end /\ request[w].end <= now
    BY <2>1 DEF Planned, PlanOK
  <2>5. watermark' # NoMark /\ watermark'.earliest = k /\ watermark'.latest = Floor(e)
    BY <2>1, <2>2, <2>3, BackfillAssumption
  <2>6. watermark'.earliest <= now /\ watermark'.latest <= now
    BY <1>n, <2>2, <2>3, <2>4, <2>5
  <2>7. PlanOK(w)'
    <3>1. CASE e < u
      <4>1. e \in Boundaries
        BY <2>1, <3>1 DEF Typed, InHand, Starts
      <4>2. pc'[w] = "fetch"
            /\ plan'[w] = [way |-> "forward", from |-> e, upto |-> u, kept |-> k]
        BY <1>8, <1>t, <3>1 DEF MarkForward, Goto, Work
      <4> HIDE DEF e, u, k
      <4> QED
        BY <2>1, <2>2, <2>3, <2>4, <2>5, <3>1, <4>1, <4>2 DEF PlanOK
    <3>2. CASE ~(e < u)
      <4>1. pc'[w] = "finish"
        BY <1>8, <1>t, <3>2 DEF MarkForward, Goto
      <4> HIDE DEF e, u, k
      <4>2. e = request[w].end
        BY <2>2, <2>4, <3>2
      <4> QED
        BY <2>1, <2>2, <2>3, <2>4, <2>5, <4>1, <4>2 DEF PlanOK
    <3> QED
      BY <3>1, <3>2
  <2>8. ASSUME NEW v \in Calls, v # w PROVE Same(v)
    <3>1. plan'[v] = plan[v]
      BY <1>8, <1>t, <2>8 DEF MarkForward, Work
    <3>2. pc'[v] = pc[v] /\ UNCHANGED <<request, page>>
      BY <1>8, <1>t, <2>8 DEF MarkForward, Goto
    <3> QED
      BY <3>1, <3>2
  <2> QED
    BY <1>k, <2>1, <2>6, <2>7, <2>8 DEF Locked
<1>9. ASSUME NEW w \in Calls, MarkBackward(w) PROVE Planned'
  <2> DEFINE b == page[w].start
             k == plan[w].kept
             from == plan[w].from
  <2>1. /\ pc[w] = "mark" /\ plan[w].way = "backward" /\ now' = now
        /\ watermark' = [earliest |-> b, latest |-> k]
        /\ request'[w] = request[w] /\ page'[w] = page[w]
    BY <1>9 DEF MarkBackward
  <2>2. /\ b \in Nat /\ k \in Nat /\ from \in Nat /\ page[w].end \in Nat
        /\ request[w].start \in Nat /\ request[w].end \in Nat
        /\ request[w].start \in Instants /\ request[w].end \in Instants
    BY CallTypes
  <2>3. /\ Floor(request[w].start) \in Nat
        /\ Floor(request[w].end) \in Nat /\ Floor(request[w].end) <= request[w].end
    BY <2>2, FloorIs
  <2>4. /\ from = Floor(request[w].start) /\ from <= b
        /\ request[w].start < request[w].end /\ request[w].end <= now
        /\ b < page[w].end /\ page[w].end = watermark.earliest /\ k = watermark.latest
        /\ watermark # NoMark /\ watermark.earliest <= now /\ watermark.latest <= now
    BY <2>1 DEF Planned, PlanOK
  <2>5. watermark' # NoMark /\ watermark'.earliest = b /\ watermark'.latest = k
    BY <2>1, <2>2, BackfillAssumption
  <2>6. watermark'.earliest <= now /\ watermark'.latest <= now
    BY <1>n, <2>2, <2>4, <2>5
  <2>7. PlanOK(w)'
    <3>1. CASE from < b
      <4>1. pc'[w] = "fetch"
            /\ plan'[w] = [way |-> "backward", from |-> from, upto |-> b, kept |-> k]
        BY <1>9, <1>t, <3>1 DEF MarkBackward, Goto, Work
      <4> HIDE DEF b, k, from
      <4> QED
        BY <2>1, <2>2, <2>3, <2>4, <2>5, <3>1, <4>1 DEF PlanOK
    <3>2. CASE ~(from < b)
      <4>1. /\ plan'[w] = plan[w]
            /\ pc'[w] = IF request[w].end > k THEN "reread" ELSE "finish"
        BY <1>9, <1>t, <3>2 DEF MarkBackward, Goto, AfterBackward
      <4>2. plan'[w].kept = k
        BY <4>1
      <4> HIDE DEF b, k, from
      <4>3. b = Floor(request[w].start)
        BY <2>2, <2>4, <3>2
      <4>4. CASE request[w].end > k
        BY <2>1, <2>2, <2>3, <2>4, <2>5, <4>1, <4>2, <4>3, <4>4 DEF PlanOK
      <4>5. CASE ~(request[w].end > k)
        BY <2>1, <2>2, <2>3, <2>4, <2>5, <4>1, <4>3, <4>5 DEF PlanOK
      <4> QED
        BY <4>4, <4>5
    <3> QED
      BY <3>1, <3>2
  <2>8. ASSUME NEW v \in Calls, v # w PROVE Same(v)
    <3>1. plan'[v] = plan[v]
      BY <1>9, <1>t, <2>8 DEF MarkBackward, Work
    <3>2. pc'[v] = pc[v] /\ UNCHANGED <<request, page>>
      BY <1>9, <1>t, <2>8 DEF MarkBackward, Goto
    <3> QED
      BY <3>1, <3>2
  <2> QED
    BY <1>k, <2>1, <2>6, <2>7, <2>8 DEF Locked
<1>10. ASSUME NEW w \in Calls, Reread(w) PROVE Planned'
  <2>1. /\ pc[w] = "reread" /\ pc'[w] = "fetch" /\ watermark' = watermark /\ now' = now
        /\ plan'[w] = [way |-> "forward", from |-> plan[w].kept,
                       upto |-> request[w].end, kept |-> watermark.earliest]
        /\ request'[w] = request[w]
    BY <1>10, <1>t DEF Reread, Goto, Work
  <2>2. /\ watermark # NoMark /\ plan[w].kept \in Nat /\ request[w].end \in Nat
    BY <2>1, CallTypes DEF Typed, InHand
  <2>3. PlanOK(w)'
    BY <2>1, <2>2 DEF PlanOK, Planned
  <2>4. \A v \in Calls : v # w => Same(v)
    BY <1>10 DEF Reread, Goto, Work
  <2> QED
    BY <1>k, <2>1, <2>3, <2>4
<1>11. ASSUME NEW w \in Calls, Finish(w) PROVE Planned'
  BY <1>11, EndPlanned DEF Finish
<1>12. ASSUME NEW w \in Calls, Crash(w) PROVE Planned'
  BY <1>12, EndPlanned DEF Crash
<1>13. ASSUME NEW w \in Calls, IngestFetch(w) PROVE Planned'
  <2>1. PlanOK(w)'
    BY <1>13, <1>t DEF IngestFetch, Goto, PlanOK, Planned
  <2> QED
    BY <1>13, <1>k, <2>1 DEF IngestFetch, Goto
<1>14. ASSUME NEW w \in Calls, IngestStore(w) PROVE Planned'
  BY <1>14, EndPlanned DEF IngestStore
<1> QED
  BY <1>1, <1>2, <1>3, <1>4, <1>5, <1>6, <1>7, <1>8, <1>9, <1>10, <1>11, <1>12, <1>13, <1>14
     DEF Next, Step, Calls

\* Types and plans hold together, always.
LEMMA PlannedHolds == Spec => [](Typed /\ Planned)
<1>1. Init => Planned
  BY DEF Init, Planned, PlanOK
<1>2. Typed /\ Planned /\ [Next]_vars => (Typed /\ Planned)'
  BY StepTyped, StepPlanned
<1> QED
  BY <1>1, <1>2, InitTyped, PTL DEF Spec

-----------------------------------------------------------------------------
(* What the fetched and the stored candles are worth.                      *)

\* Every traded candle of a page is in the answer, then in the table, and so is
\* everything the watermark claims.
StoredOK ==
    /\ CoverageIsStored
    /\ \A w \in Calls : pc[w] = "store" =>
          \A b \in Traded : page[w].start <= b /\ b < page[w].end => got[w][b] # "absent"
    /\ \A w \in Calls : pc[w] = "mark" =>
          \A b \in Traded : page[w].start <= b /\ b < page[w].end => candles[b] # "absent"

Known == Typed /\ Planned

\* Coverage and pages in terms of numbers.
LEMMA CoveredIs ==
  ASSUME NEW b \in Boundaries, watermark # NoMark
  PROVE  b \in Covered <=> watermark.earliest <= b /\ b < watermark.latest
BY DEF Covered, CandlesIn

\* What a marked page adds to the coverage is within the page.
LEMMA MarkAdds ==
  ASSUME Known, Known', NEW w \in Calls, MarkForward(w) \/ MarkBackward(w),
         NEW b \in Boundaries, b \in Covered'
  PROVE  \/ b \in Covered
         \/ page[w].start <= b /\ b < Floor(page[w].end) /\ b < page[w].end
<1>1. /\ b \in Nat /\ page[w].end \in Nat /\ page[w].start \in Nat
      /\ Floor(page[w].end) \in Nat /\ Floor(page[w].end) <= page[w].end
      /\ page[w].end \in Boundaries => Floor(page[w].end) = page[w].end
      /\ plan[w].kept \in Nat /\ plan[w].from \in Nat
  BY CallTypes, FloorIs, NumbersAre DEF Known
<1>2. watermark # NoMark => /\ watermark.earliest \in Nat /\ watermark.latest \in Nat
                            /\ watermark.earliest \in Boundaries
  BY CallTypes DEF Known, Starts
<1>3. CASE MarkForward(w)
  <2>1. watermark' = [earliest |-> plan[w].kept, latest |-> Floor(page[w].end)]
        /\ pc[w] = "mark" /\ plan[w].way = "forward"
    BY <1>3 DEF MarkForward, AlignedLatest
  <2>2. /\ page[w].start = plan[w].from
        /\ watermark = NoMark => plan[w].from = plan[w].kept
        /\ watermark # NoMark => /\ watermark.earliest = plan[w].kept
                                 /\ watermark.latest = plan[w].from
    BY <2>1 DEF Known, Planned, PlanOK
  <2>3. watermark' # NoMark
    BY <1>1, <2>1, BackfillAssumption
  <2>4. plan[w].kept <= b /\ b < Floor(page[w].end)
    BY <2>1, <2>3 DEF Covered, CandlesIn
  <2>5. CASE watermark = NoMark
    BY <1>1, <2>2, <2>4, <2>5
  <2>6. CASE watermark # NoMark
    BY <1>1, <1>2, <2>2, <2>4, <2>6, CoveredIs
  <2> QED
    BY <2>5, <2>6
<1>4. CASE MarkBackward(w)
  <2>1. watermark' = [earliest |-> page[w].start, latest |-> plan[w].kept]
        /\ pc[w] = "mark" /\ plan[w].way = "backward"
    BY <1>4 DEF MarkBackward
  <2>2. /\ page[w].end = plan[w].upto /\ watermark # NoMark
        /\ watermark.earliest = plan[w].upto /\ watermark.latest = plan[w].kept
    BY <2>1 DEF Known, Planned, PlanOK
  <2>3. watermark' # NoMark
    BY <1>1, <2>1, BackfillAssumption
  <2>4. page[w].start <= b /\ b < plan[w].kept
    BY <2>1, <2>3 DEF Covered, CandlesIn
  <2> QED
    BY <1>1, <1>2, <2>2, <2>4, CoveredIs
<1> QED
  BY <1>3, <1>4

\* A page asked for lies in the past.
LEMMA PagesArePast ==
  ASSUME Known, Known', NEW w \in Calls, Fetch(w), ~End(w, "unavailable")
  PROVE  \E p \in Page : /\ p.end <= now
                         /\ page' = [page EXCEPT ![w] = p]
                         /\ got' = [got EXCEPT ![w] = Answer(p.start, p.end)]
                         /\ pc' = [pc EXCEPT ![w] = "store"]
<1>1. PICK p \in Page :
         /\ page' = [page EXCEPT ![w] = p]
         /\ got' = [got EXCEPT ![w] = Answer(p.start, p.end)]
         /\ pc' = [pc EXCEPT ![w] = "store"]
         /\ UNCHANGED <<plan, request>> /\ watermark' = watermark /\ now' = now
  BY DEF Fetch, Goto
<1>2. pc'[w] = "store" /\ page'[w] = p
  BY <1>1 DEF Known, Typed, TypeOK
<1>3. PlanOK(w)'
  BY DEF Known, Planned
<1>4. /\ p.end \in Nat /\ now \in Nat /\ request[w].end \in Nat /\ plan[w].upto \in Nat
      /\ plan[w].way \in {"forward", "backward"}
  BY CallTypes, NumbersAre DEF Known, Page
<1>5. CASE plan[w].way = "forward"
  <2>1. p.end <= plan[w].upto /\ plan[w].upto = request[w].end /\ request[w].end <= now
    BY <1>1, <1>2, <1>3, <1>5 DEF PlanOK
  <2>2. p.end <= now
    BY <1>4, <2>1
  <2> QED
    BY <1>1, <2>2
<1>6. CASE plan[w].way = "backward"
  <2>1. p.end = plan[w].upto /\ watermark # NoMark /\ watermark.earliest = plan[w].upto
    BY <1>1, <1>2, <1>3, <1>6 DEF PlanOK
  <2>2. watermark.earliest <= now
    BY <2>1 DEF Known, Planned
  <2> QED
    BY <1>1, <2>1, <2>2
<1> QED
  BY <1>4, <1>5, <1>6

\* Every await leaves what the watermark covers stored.
LEMMA StepStored == Known /\ Known' /\ StoredOK /\ [Next]_vars => StoredOK'
<1> SUFFICES ASSUME Known, Known', StoredOK, [Next]_vars PROVE StoredOK'
  OBVIOUS
<1>b. Traded \subseteq Boundaries
  BY BackfillAssumption
<1>t. /\ pc \in [Calls -> Steps] /\ page \in [Calls -> Page] /\ got \in [Calls -> Candles]
      /\ candles \in Candles
  BY DEF Known, Typed, TypeOK
\* Steps that leave the table and the watermark alone, and no call with a page
\* it did not have.
<1>q. ASSUME candles' = candles, watermark' = watermark,
             \A u \in Calls : /\ pc'[u] \in {"store", "mark"} => pc'[u] = pc[u]
                              /\ pc'[u] = "store" => page'[u] = page[u] /\ got'[u] = got[u]
                              /\ pc'[u] = "mark" => page'[u] = page[u]
      PROVE  StoredOK'
  BY <1>q DEF StoredOK, CoverageIsStored, Covered
<1>e. ASSUME NEW w \in Calls, NEW how, End(w, how), candles' = candles, watermark' = watermark
      PROVE  StoredOK'
  BY <1>e, <1>t, <1>q DEF End, Goto
<1>1. CASE UNCHANGED vars
  BY <1>1, <1>q DEF vars
<1>2. ASSUME Tick PROVE StoredOK'
  BY <1>2, <1>q DEF Tick
<1>3. ASSUME NEW w \in Calls, NEW s \in Instants, NEW e \in Instants,
             NEW first \in {"acquire", "ingest"}, Call(w, s, e, first)
      PROVE  StoredOK'
  BY <1>3, <1>t, <1>q DEF Call, Goto
<1>4. ASSUME NEW w \in Calls, Acquire(w) PROVE StoredOK'
  BY <1>4, <1>t, <1>q DEF Acquire, Goto
<1>5. ASSUME NEW w \in Calls, ReadWatermark(w) PROVE StoredOK'
  <2>1. CASE End(w, "disjoint")
    BY <1>5, <1>e, <2>1 DEF ReadWatermark
  <2>2. CASE ~End(w, "disjoint")
    <3>1. UNCHANGED <<page, got, candles, watermark>> /\ \E x \in {"fetch", "finish"} : Goto(w, x)
      BY <1>5, <2>2 DEF ReadWatermark
    <3> QED
      BY <1>t, <1>q, <3>1 DEF Goto
  <2> QED
    BY <2>1, <2>2
<1>6. ASSUME NEW w \in Calls, Fetch(w) PROVE StoredOK'
  <2>1. CASE End(w, "unavailable")
    BY <1>6, <1>e, <2>1 DEF Fetch
  <2>2. CASE ~End(w, "unavailable")
    <3>1. PICK p \in Page : /\ p.end <= now
                            /\ page' = [page EXCEPT ![w] = p]
                            /\ got' = [got EXCEPT ![w] = Answer(p.start, p.end)]
                            /\ pc' = [pc EXCEPT ![w] = "store"]
      BY <1>6, <2>2, PagesArePast
    <3>2. candles' = candles /\ watermark' = watermark
      BY <1>6 DEF Fetch
    <3>3. ASSUME NEW b \in Traded, p.start <= b, b < p.end PROVE Answer(p.start, p.end)[b] # "absent"
      <4>1. b \in Boundaries /\ b \in Nat /\ p.end \in Nat /\ now \in Nat
        BY <1>b, NumbersAre, CallTypes DEF Page, Known
      <4>2. ~(b >= now)
        BY <3>1, <3>3, <4>1
      <4> QED
        BY <3>3, <4>1, <4>2 DEF Answer, CandlesIn
    <3>4. page'[w] = p /\ got'[w] = Answer(p.start, p.end) /\ pc'[w] = "store"
      BY <1>t, <3>1
    <3>5. \A u \in Calls : u # w => pc'[u] = pc[u] /\ page'[u] = page[u] /\ got'[u] = got[u]
      BY <1>t, <3>1
    <3>6. CoverageIsStored'
      BY <3>2 DEF StoredOK, CoverageIsStored, Covered
    <3> QED
      BY <3>2, <3>3, <3>4, <3>5, <3>6 DEF StoredOK
  <2> QED
    BY <2>1, <2>2
<1>g. ASSUME NEW w \in Calls, candles' = Upserted(got[w]), NEW b \in Boundaries
      PROVE  /\ candles'[b] = "absent" <=> candles[b] = "absent" /\ got[w][b] = "absent"
  BY <1>g DEF Upserted
<1>7. ASSUME NEW w \in Calls, Store(w) PROVE StoredOK'
  <2>1. /\ pc[w] = "store" /\ pc' = [pc EXCEPT ![w] = "mark"] /\ UNCHANGED <<page, got, watermark>>
        /\ candles' = Upserted(got[w])
    BY <1>7 DEF Store, Goto
  <2>2. CoverageIsStored'
    BY <1>b, <1>g, <2>1 DEF StoredOK, CoverageIsStored, Covered, CandlesIn
  <2>3. pc'[w] = "mark" /\ \A u \in Calls : u # w => pc'[u] = pc[u]
    BY <1>t, <2>1
  <2> QED
    BY <1>b, <1>g, <2>1, <2>2, <2>3 DEF StoredOK
<1>8. ASSUME NEW w \in Calls, MarkForward(w) \/ MarkBackward(w) PROVE StoredOK'
  <2>1. /\ pc[w] = "mark" /\ UNCHANGED <<page, got, candles>>
        /\ \E x \in {"fetch", "finish", "reread"} : Goto(w, x)
    BY <1>8 DEF MarkForward, MarkBackward, AfterBackward
  <2>2. CoverageIsStored'
    <3>1. ASSUME NEW b \in Traded, b \in Covered' PROVE candles'[b] # "absent"
      <4>1. CASE b \in Covered
        BY <2>1, <4>1 DEF StoredOK, CoverageIsStored
      <4>2. CASE page[w].start <= b /\ b < page[w].end
        BY <2>1, <4>2 DEF StoredOK
      <4> QED
        BY <1>8, <1>b, <3>1, <4>1, <4>2, MarkAdds
    <3> QED
      BY <3>1 DEF CoverageIsStored
  <2>3. \A u \in Calls : pc'[u] \in {"store", "mark"} => pc'[u] = pc[u]
    BY <1>t, <2>1 DEF Goto
  <2> QED
    BY <2>1, <2>2, <2>3 DEF StoredOK
<1>9. ASSUME NEW w \in Calls, Reread(w) PROVE StoredOK'
  BY <1>9, <1>t, <1>q DEF Reread, Goto
<1>10. ASSUME NEW w \in Calls, Finish(w) \/ Crash(w) PROVE StoredOK'
  BY <1>10, <1>e DEF Finish, Crash
<1>11. ASSUME NEW w \in Calls, IngestFetch(w) PROVE StoredOK'
  <2>1. /\ pc[w] = "ingest" /\ pc' = [pc EXCEPT ![w] = "upsert"] /\ UNCHANGED <<page, candles, watermark>>
        /\ got' = [got EXCEPT ![w] = Answer(request[w].start, request[w].end)]
    BY <1>11 DEF IngestFetch, Goto
  <2> QED
    BY <1>t, <1>q, <2>1
<1>12. ASSUME NEW w \in Calls, IngestStore(w) PROVE StoredOK'
  <2>1. /\ pc' = [pc EXCEPT ![w] = "idle"] /\ candles' = Upserted(got[w]) /\ watermark' = watermark
        /\ page' = [page EXCEPT ![w] = NoSpan] /\ got' = [got EXCEPT ![w] = Nothing]
    BY <1>12 DEF IngestStore, End, Goto
  <2>2. CoverageIsStored'
    BY <1>b, <1>g, <2>1 DEF StoredOK, CoverageIsStored, Covered, CandlesIn
  <2>3. \A u \in Calls : pc'[u] \in {"store", "mark"} =>
           pc'[u] = pc[u] /\ page'[u] = page[u] /\ got'[u] = got[u]
    BY <1>t, <2>1
  <2> QED
    BY <1>b, <1>g, <2>1, <2>2, <2>3 DEF StoredOK
<1> QED
  BY <1>1, <1>2, <1>3, <1>4, <1>5, <1>6, <1>7, <1>8, <1>9, <1>10, <1>11, <1>12
     DEF Next, Step, Calls

\* As long as only backfills write, what is stored and what is under way says
\* "final" of finished candles only, and of every finished candle up to the
\* bound a page will claim.
FinalOK ==
    OnlyBackfills =>
       /\ \A b \in Boundaries : candles[b] = "final" => Over(b)
       /\ \A b \in Traded : b \in Covered => candles[b] = "final"
       /\ \A w \in Calls : pc[w] = "store" =>
             /\ \A b \in Boundaries :
                   /\ got[w][b] = "final" => Over(b)
                   /\ candles[b] = "final" => got[w][b] # "forming"
             /\ \A b \in Traded :
                   page[w].start <= b /\ b < Floor(page[w].end) => got[w][b] = "final"
       /\ \A w \in Calls : pc[w] = "mark" =>
             \A b \in Traded :
                page[w].start <= b /\ b < Floor(page[w].end) => candles[b] = "final"

\* A call of IngestCandles, once made, has been made.
LEMMA OnlyStays == Typed /\ [Next]_vars /\ OnlyBackfills' => OnlyBackfills
<1> SUFFICES ASSUME Typed, [Next]_vars, NEW g \in Ingesters, pc'[g] = "idle", result'[g] = "none"
             PROVE  pc[g] = "idle" /\ result[g] = "none"
  BY DEF OnlyBackfills
<1>t. /\ pc \in [Calls -> Steps] /\ DOMAIN result = Calls /\ g \in Calls /\ g \notin Workers
      /\ pc[g] \in {"idle", "ingest", "upsert"}
  BY BackfillAssumption DEF Typed, TypeOK, Roles, Calls
<1>e. ASSUME NEW w \in Calls, NEW how, how # "none", End(w, how)
      PROVE  pc[g] = "idle" /\ result[g] = "none"
  BY <1>e, <1>t DEF End, Goto
<1>1. CASE UNCHANGED vars \/ Tick
  BY <1>1 DEF vars, Tick
<1>2. ASSUME NEW w \in Calls, NEW s \in Instants, NEW e \in Instants,
             NEW first \in {"acquire", "ingest"}, Call(w, s, e, first)
      PROVE  pc[g] = "idle" /\ result[g] = "none"
  BY <1>2, <1>t DEF Call, Goto
<1>3. ASSUME NEW w \in Calls,
             Acquire(w) \/ Store(w) \/ MarkForward(w) \/ MarkBackward(w) \/ Reread(w)
             \/ IngestFetch(w)
      PROVE  pc[g] = "idle" /\ result[g] = "none"
  <2>1. result' = result /\ w # g
    BY <1>3, <1>t DEF Acquire, Store, MarkForward, MarkBackward, Reread, IngestFetch, Goto
  <2>2. \E x : Goto(w, x)
    BY <1>3 DEF Acquire, Store, MarkForward, MarkBackward, Reread, IngestFetch
  <2> QED
    BY <1>t, <2>1, <2>2 DEF Goto
<1>4. ASSUME NEW w \in Calls, ReadWatermark(w) PROVE pc[g] = "idle" /\ result[g] = "none"
  <2>1. CASE End(w, "disjoint")
    BY <1>e, <2>1
  <2>2. CASE ~End(w, "disjoint")
    <3>1. w # g /\ result' = result /\ \E x : Goto(w, x)
      BY <1>4, <1>t, <2>2 DEF ReadWatermark
    <3> QED
      BY <1>t, <3>1 DEF Goto
  <2> QED
    BY <2>1, <2>2
<1>5. ASSUME NEW w \in Calls, Fetch(w) PROVE pc[g] = "idle" /\ result[g] = "none"
  <2>1. CASE End(w, "unavailable")
    BY <1>e, <2>1
  <2>2. CASE ~End(w, "unavailable")
    <3>1. w # g /\ result' = result /\ Goto(w, "store")
      BY <1>5, <1>t, <2>2 DEF Fetch
    <3> QED
      BY <1>t, <3>1 DEF Goto
  <2> QED
    BY <2>1, <2>2
<1>6. ASSUME NEW w \in Calls, Finish(w) \/ Crash(w) \/ IngestStore(w)
      PROVE  pc[g] = "idle" /\ result[g] = "none"
  BY <1>6, <1>e DEF Finish, Crash, IngestStore
<1> QED
  BY <1>1, <1>2, <1>3, <1>4, <1>5, <1>6 DEF Next, Step, Calls

\* Every await leaves what backfills store final once its time is over.
LEMMA StepFinal == Known /\ Known' /\ FinalOK /\ [Next]_vars => FinalOK'
<1> SUFFICES ASSUME Known, Known', FinalOK, [Next]_vars, OnlyBackfills' PROVE FinalOK'
  BY DEF FinalOK
<1>o. OnlyBackfills
  BY OnlyStays DEF Known
<1>b. Traded \subseteq Boundaries
  BY BackfillAssumption
<1>t. /\ pc \in [Calls -> Steps] /\ page \in [Calls -> Page] /\ got \in [Calls -> Candles]
      /\ candles \in Candles /\ now \in Nat /\ now' \in Nat /\ DOMAIN result = Calls
  BY NumbersAre DEF Known, Typed, TypeOK
<1>v. ASSUME now <= now', NEW b \in Boundaries, Over(b) PROVE Over(b)'
  BY <1>v, <1>t, NumbersAre DEF Over
<1>q. ASSUME candles' = candles, watermark' = watermark, now <= now',
             \A u \in Calls : /\ pc'[u] \in {"store", "mark"} => pc'[u] = pc[u] /\ page'[u] = page[u]
                              /\ pc'[u] = "store" => got'[u] = got[u]
      PROVE  FinalOK'
  <2>1. Covered' = Covered
    BY <1>q DEF Covered
  <2> QED
    BY <1>q, <1>v, <1>o, <2>1 DEF FinalOK
<1>e. ASSUME NEW w \in Calls, NEW how, End(w, how), candles' = candles, watermark' = watermark, now' = now
      PROVE  FinalOK'
  BY <1>e, <1>t, <1>q DEF End, Goto
<1>i. ASSUME NEW w \in Calls, pc[w] \in {"ingest", "upsert"} PROVE FALSE
  BY <1>i, <1>o DEF OnlyBackfills, Known, Typed, Roles, Calls
<1>1. CASE UNCHANGED vars
  BY <1>1, <1>t, <1>q DEF vars
<1>2. ASSUME Tick PROVE FinalOK'
  BY <1>2, <1>t, <1>q DEF Tick
<1>3. ASSUME NEW w \in Calls, NEW s \in Instants, NEW e \in Instants,
             NEW first \in {"acquire", "ingest"}, Call(w, s, e, first)
      PROVE  FinalOK'
  BY <1>3, <1>t, <1>q DEF Call, Goto
<1>4. ASSUME NEW w \in Calls, Acquire(w) PROVE FinalOK'
  BY <1>4, <1>t, <1>q DEF Acquire, Goto
<1>5. ASSUME NEW w \in Calls, ReadWatermark(w) PROVE FinalOK'
  <2>1. CASE End(w, "disjoint")
    BY <1>5, <1>e, <2>1 DEF ReadWatermark
  <2>2. CASE ~End(w, "disjoint")
    <3>1. UNCHANGED <<page, got, candles, watermark, now>> /\ \E x \in {"fetch", "finish"} : Goto(w, x)
      BY <1>5, <2>2 DEF ReadWatermark
    <3> QED
      BY <1>t, <1>q, <3>1 DEF Goto
  <2> QED
    BY <2>1, <2>2
<1>6. ASSUME NEW w \in Calls, Fetch(w) PROVE FinalOK'
  <2>1. CASE End(w, "unavailable")
    BY <1>6, <1>e, <2>1 DEF Fetch
  <2>2. CASE ~End(w, "unavailable")
    <3>1. PICK p \in Page : /\ p.end <= now
                            /\ page' = [page EXCEPT ![w] = p]
                            /\ got' = [got EXCEPT ![w] = Answer(p.start, p.end)]
                            /\ pc' = [pc EXCEPT ![w] = "store"]
      BY <1>6, <2>2, PagesArePast
    <3>2. candles' = candles /\ watermark' = watermark /\ now' = now
      BY <1>6 DEF Fetch
    <3>3. ASSUME NEW b \in Boundaries
          PROVE  /\ Answer(p.start, p.end)[b] = "final" => Over(b)
                 /\ Over(b) => Answer(p.start, p.end)[b] # "forming"
      BY DEF Answer
    <3>4. ASSUME NEW b \in Traded, p.start <= b, b < Floor(p.end)
          PROVE  Answer(p.start, p.end)[b] = "final"
      <4>1. /\ b \in Boundaries /\ b \in Nat /\ p.end \in Nat /\ now \in Nat
            /\ Floor(p.end) \in Boundaries /\ Floor(p.end) \in Nat /\ Floor(p.end) <= p.end
        BY <1>b, <1>t, NumbersAre, FloorIs DEF Page
      <4>2. b < p.end /\ ~(b >= now) /\ Floor(p.end) <= now
        BY <3>1, <3>4, <4>1
      <4>3. Over(b)
        BY <3>4, <4>1, <4>2 DEF Over
      <4> QED
        BY <3>4, <4>1, <4>2, <4>3 DEF Answer, CandlesIn
    <3>5. page'[w] = p /\ got'[w] = Answer(p.start, p.end) /\ pc'[w] = "store"
      BY <1>t, <3>1
    <3>6. \A u \in Calls : u # w => pc'[u] = pc[u] /\ page'[u] = page[u] /\ got'[u] = got[u]
      BY <1>t, <3>1
    <3>7. \A b : Over(b)' <=> Over(b)
      BY <3>2 DEF Over
    <3>8. Covered' = Covered
      BY <3>2 DEF Covered
    <3> QED
      BY <1>o, <3>2, <3>3, <3>4, <3>5, <3>6, <3>7, <3>8 DEF FinalOK
  <2> QED
    BY <2>1, <2>2
<1>7. ASSUME NEW w \in Calls, Store(w) PROVE FinalOK'
  <2>1. /\ pc[w] = "store" /\ pc' = [pc EXCEPT ![w] = "mark"]
        /\ UNCHANGED <<page, got, watermark, now>> /\ candles' = Upserted(got[w])
    BY <1>7 DEF Store, Goto
  <2>2. ASSUME NEW b \in Boundaries
        PROVE  /\ got[w][b] = "final" => candles'[b] = "final"
               /\ candles[b] = "final" => candles'[b] = "final"
               /\ candles'[b] = "final" => candles[b] = "final" \/ got[w][b] = "final"
    <3>1. got[w][b] \in Knowledge
      BY <1>t DEF Candles
    <3> QED
      BY <1>o, <2>1, <3>1 DEF Upserted, FinalOK, Knowledge
  <2>3. pc'[w] = "mark"
    BY <1>t, <2>1
  <2>4. ASSUME NEW u \in Calls, u # w PROVE pc'[u] \notin {"store", "mark"}
    BY <1>t, <2>1, <2>4 DEF Known, Typed, LockHeldThroughout, Locked
  <2>5. \A b : Over(b)' <=> Over(b)
    BY <2>1 DEF Over
  <2>6. Covered' = Covered
    BY <2>1 DEF Covered
  <2> QED
    BY <1>b, <1>o, <2>1, <2>2, <2>3, <2>4, <2>5, <2>6 DEF FinalOK
<1>8. ASSUME NEW w \in Calls, MarkForward(w) \/ MarkBackward(w) PROVE FinalOK'
  <2>1. /\ pc[w] = "mark" /\ UNCHANGED <<page, got, candles, now>>
        /\ \E x \in {"fetch", "finish", "reread"} : Goto(w, x)
    BY <1>8 DEF MarkForward, MarkBackward, AfterBackward
  <2>2. ASSUME NEW b \in Traded, b \in Covered' PROVE candles'[b] = "final"
    <3>1. CASE b \in Covered
      BY <1>o, <2>1, <3>1 DEF FinalOK
    <3>2. CASE page[w].start <= b /\ b < Floor(page[w].end)
      BY <1>o, <2>1, <3>2 DEF FinalOK
    <3> QED
      BY <1>8, <1>b, <2>2, <3>1, <3>2, MarkAdds
  <2>3. \A u \in Calls : pc'[u] \in {"store", "mark"} => pc'[u] = pc[u]
    BY <1>t, <2>1 DEF Goto
  <2>4. \A b : Over(b)' <=> Over(b)
    BY <2>1 DEF Over
  <2> QED
    BY <1>o, <2>1, <2>2, <2>3, <2>4 DEF FinalOK
<1>9. ASSUME NEW w \in Calls, Reread(w) PROVE FinalOK'
  BY <1>9, <1>t, <1>q DEF Reread, Goto
<1>10. ASSUME NEW w \in Calls, Finish(w) \/ Crash(w) PROVE FinalOK'
  BY <1>10, <1>e DEF Finish, Crash
<1>11. ASSUME NEW w \in Calls, IngestFetch(w) \/ IngestStore(w) PROVE FinalOK'
  BY <1>11, <1>i DEF IngestFetch, IngestStore
<1> QED
  BY <1>1, <1>2, <1>3, <1>4, <1>5, <1>6, <1>7, <1>8, <1>9, <1>10, <1>11 DEF Next, Step, Calls

Inv == Known /\ StoredOK /\ FinalOK

\* All layers together, always.
LEMMA InvariantHolds == Spec => []Inv
<1>1. Init => StoredOK /\ FinalOK
  BY BackfillAssumption
     DEF Init, StoredOK, FinalOK, CoverageIsStored, Covered, Nothing
<1>2. Known /\ Known' /\ StoredOK /\ FinalOK /\ [Next]_vars => StoredOK' /\ FinalOK'
  BY StepStored, StepFinal
<1>3. Spec => []Known
  BY PlannedHolds, PTL DEF Known
<1> QED
  BY <1>1, <1>2, <1>3, PTL DEF Spec, Inv

-----------------------------------------------------------------------------
(* The theorems.                                                           *)

\* Every variable keeps its type.
THEOREM TypeCorrect == Spec => []TypeOK
<1>1. Typed => TypeOK
  BY DEF Typed
<1> QED
  BY <1>1, TypedHolds, PTL

\* The advisory lock is held by exactly the call that is between acquiring it
\* and leaving its context, so no two backfills of a series work at once.
THEOREM LockIsHeldThroughout == Spec => []LockHeldThroughout
<1>1. Typed => LockHeldThroughout
  BY DEF Typed
<1> QED
  BY <1>1, TypedHolds, PTL

\* What the watermark claims is stored, whatever crashed, failed or ran
\* alongside.
THEOREM CoverageIsAlwaysStored == Spec => []CoverageIsStored
<1>1. Inv => CoverageIsStored
  BY DEF Inv, StoredOK
<1> QED
  BY <1>1, InvariantHolds, PTL

\* While only backfills write, what the watermark claims is finished.
THEOREM CoverageIsAlwaysFinal == Spec => []CoverageIsFinal
<1>1. Inv => CoverageIsFinal
  BY DEF Inv, FinalOK, CoverageIsFinal
<1> QED
  BY <1>1, InvariantHolds, PTL

\* A backfill that returns covers what it was asked for, from the candle its
\* start falls in to the one its end falls in.
THEOREM DoneAlwaysCovers == Spec => []DoneCoversRequest
<1>1. Inv => DoneCoversRequest
  <2> SUFFICES ASSUME Inv, NEW w \in Workers, pc[w] = "finish"
               PROVE  /\ watermark # NoMark
                      /\ watermark.earliest <= Floor(request[w].start)
                      /\ watermark.latest >= Floor(request[w].end)
    BY DEF DoneCoversRequest
  <2>1. w \in Calls
    BY DEF Calls
  <2>2. /\ watermark # NoMark
        /\ watermark.earliest <= Floor(request[w].start)
        /\ Floor(request[w].end) <= watermark.latest
    BY <2>1 DEF Inv, Known, Planned, PlanOK
  <2>3. Floor(request[w].end) \in Nat /\ watermark.latest \in Nat
    BY <2>1, <2>2, CallTypes, FloorIs DEF Inv, Known
  <2> QED
    BY <2>2, <2>3
<1> QED
  BY <1>1, InvariantHolds, PTL

\* Nothing that is covered is fetched again.
THEOREM NothingIsRefetched == Spec => []NothingRefetched
<1>1. Inv => NothingRefetched
  <2> SUFFICES ASSUME Inv, NEW w \in Workers, pc[w] = "store", NEW b \in Boundaries,
                      b \in CandlesIn(page[w].start, page[w].end), b \in Covered
               PROVE  FALSE
    BY DEF NothingRefetched, CandlesIn
  <2>1. w \in Calls
    BY DEF Calls
  <2>2. /\ watermark # NoMark
        /\ watermark.earliest <= b /\ b < watermark.latest
        /\ page[w].start <= b /\ b < page[w].end
    BY DEF Covered, CandlesIn
  <2>3. /\ b \in Nat /\ watermark.earliest \in Nat /\ watermark.latest \in Nat
        /\ page[w].start \in Nat /\ page[w].end \in Nat
        /\ plan[w].way \in {"forward", "backward"}
    BY <2>1, <2>2, CallTypes, NumbersAre DEF Inv, Known
  <2>4. CASE plan[w].way = "forward"
    <3>1. page[w].start = watermark.latest
      BY <2>1, <2>2, <2>4 DEF Inv, Known, Planned, PlanOK
    <3> QED
      BY <2>2, <2>3, <3>1
  <2>5. CASE plan[w].way = "backward"
    <3>1. page[w].end = watermark.earliest
      BY <2>1, <2>2, <2>5 DEF Inv, Known, Planned, PlanOK
    <3> QED
      BY <2>2, <2>3, <3>1
  <2> QED
    BY <2>3, <2>4, <2>5
<1> QED
  BY <1>1, InvariantHolds, PTL

\* No call ever replaces the coverage another one has recorded by less.
THEOREM WatermarkNeverShrinks == Spec => WatermarkOnlyGrows
<1>1. Inv /\ [Next]_vars =>
         [watermark # NoMark =>
             /\ watermark'.earliest <= watermark.earliest
             /\ watermark.latest <= watermark'.latest]_watermark
  <2> SUFFICES ASSUME Inv, [Next]_vars, watermark # NoMark, watermark' # watermark
               PROVE  /\ watermark'.earliest <= watermark.earliest
                      /\ watermark.latest <= watermark'.latest
    OBVIOUS
  <2>1. PICK w \in Calls : MarkForward(w) \/ MarkBackward(w)
    BY DEF Next, Step, vars, Tick, Call, Acquire, ReadWatermark, Fetch, Store, Reread, Finish,
           Crash, IngestFetch, IngestStore
  <2>2. /\ watermark.earliest \in Nat /\ watermark.latest \in Nat
        /\ page[w].start \in Nat /\ page[w].end \in Instants /\ page[w].end \in Nat
        /\ plan[w].from \in Starts /\ plan[w].from \in Nat
    BY CallTypes DEF Inv, Known
  <2>3. CASE MarkForward(w)
    <3>1. watermark' = [earliest |-> plan[w].kept, latest |-> Floor(page[w].end)]
          /\ pc[w] = "mark" /\ plan[w].way = "forward"
      BY <2>3 DEF MarkForward, AlignedLatest
    <3>2. /\ watermark.earliest = plan[w].kept /\ watermark.latest = plan[w].from
          /\ plan[w].from <= page[w].end
      BY <3>1 DEF Inv, Known, Planned, PlanOK
    <3>3. plan[w].from <= Floor(page[w].end)
      BY <2>2, <3>2, FloorIs DEF Starts
    <3> QED
      BY <2>2, <3>1, <3>2, <3>3
  <2>4. CASE MarkBackward(w)
    <3>1. watermark' = [earliest |-> page[w].start, latest |-> plan[w].kept]
          /\ pc[w] = "mark" /\ plan[w].way = "backward"
      BY <2>4 DEF MarkBackward
    <3>2. /\ watermark.earliest = page[w].end /\ watermark.latest = plan[w].kept
          /\ page[w].start < page[w].end
      BY <3>1 DEF Inv, Known, Planned, PlanOK
    <3> QED
      BY <2>2, <3>1, <3>2
  <2> QED
    BY <2>1, <2>3, <2>4
<1> QED
  BY <1>1, InvariantHolds, PTL DEF Spec, WatermarkOnlyGrows

\* While only backfills write, no stale answer replaces a finished candle.
THEOREM FinishedCandlesStay == Spec => FinalStaysFinal
<1>1. Inv /\ [Next]_vars =>
         [OnlyBackfills =>
             \A b \in Boundaries : candles[b] = "final" => candles'[b] = "final"]_candles
  <2> SUFFICES ASSUME Inv, [Next]_vars, OnlyBackfills, candles' # candles,
                      NEW b \in Boundaries, candles[b] = "final"
               PROVE  candles'[b] = "final"
    OBVIOUS
  <2>1. PICK w \in Calls : Store(w) \/ IngestStore(w)
    BY DEF Next, Step, vars, Tick, Call, Acquire, ReadWatermark, Fetch, MarkForward, MarkBackward,
           Reread, Finish, Crash, IngestFetch
  <2>2. pc[w] = "store" /\ candles' = Upserted(got[w])
    BY <2>1 DEF Store, IngestStore, OnlyBackfills, Inv, Known, Typed, Roles, Calls
  <2>3. got[w][b] \in Knowledge /\ got[w][b] # "forming"
    BY <2>2 DEF Inv, FinalOK, Known, Typed, TypeOK, Candles
  <2> QED
    BY <2>2, <2>3 DEF Upserted, Knowledge
<1> QED
  BY <1>1, InvariantHolds, PTL DEF Spec, FinalStaysFinal

-----------------------------------------------------------------------------
(* The connections behind the calls (LockPools), for any number of calls and  *)
(* series and any pool sizes.                                              *)

CONSTANTS Series, LockSlots, WorkSlots, MaxPages

VARIABLES stage, subject, pagesLeft, connections, owner

Pools == INSTANCE LockPools WITH pc <- stage, held <- connections, series <- subject, pages <- pagesLeft

\* A connection is held exactly while the call is in the part of its life
\* that needs it.
HeldWhenNeeded ==
    \A w \in Workers :
       /\ <<w, "lock">> \in connections <=> stage[w] \in {"lock", "checkout", "work", "unlock"}
       /\ <<w, "work">> \in connections => stage[w] \in {"work", "unlock", "close"}

PoolsTyped ==
    /\ stage \in [Workers -> Pools!Steps] /\ subject \in [Workers -> Series]
    /\ connections \subseteq Workers \X Pools!Uses
    /\ owner \in [Series -> Workers \cup {Nobody}]

PoolsInv == PoolsTyped /\ HeldWhenNeeded /\ Pools!LockNeedsConnection

\* No connection is held at first.
LEMMA PoolsInit == Pools!Init => PoolsInv
BY BackfillAssumption DEF Pools!Init, PoolsInv, PoolsTyped, HeldWhenNeeded,
                          Pools!LockNeedsConnection, Pools!Steps, Pools!Uses

\* Every step of every call keeps the invariant.
LEMMA PoolsStep == PoolsInv /\ [Pools!Next]_Pools!vars => PoolsInv'
<1> SUFFICES ASSUME PoolsInv, [Pools!Next]_Pools!vars PROVE PoolsInv'
  OBVIOUS
<1> USE BackfillAssumption DEF PoolsInv, PoolsTyped, HeldWhenNeeded, Pools!LockNeedsConnection,
           Pools!Steps, Pools!Uses, Pools!Goto
<1>1. CASE UNCHANGED Pools!vars
  BY <1>1 DEF Pools!vars
<1>2. CASE Pools!Next
  <2>1. ASSUME NEW w \in Workers, NEW s \in Series, NEW n \in 0 .. MaxPages, Pools!Call(w, s, n)
        PROVE PoolsInv'
    BY <2>1 DEF Pools!Call
  <2>2. ASSUME NEW w \in Workers, Pools!Connect(w) PROVE PoolsInv'
    BY <2>2 DEF Pools!Connect
  <2>3. ASSUME NEW w \in Workers, Pools!Lock(w) PROVE PoolsInv'
    <3>1. /\ stage[w] = "lock" /\ stage' = [stage EXCEPT ![w] = "checkout"]
          /\ owner' = [owner EXCEPT ![subject[w]] = w]
          /\ subject' = subject /\ connections' = connections
      BY <2>3 DEF Pools!Lock
    <3>2. PoolsTyped'
      BY <3>1
    <3>3. HeldWhenNeeded'
      BY <3>1
    <3>4. ASSUME NEW s \in Series, owner'[s] # Nobody
          PROVE  /\ subject'[owner'[s]] = s
                 /\ <<owner'[s], "lock">> \in connections'
                 /\ stage'[owner'[s]] \in {"checkout", "work", "unlock"}
      <4>1. CASE s = subject[w]
        <5>1. owner'[s] = w /\ stage'[w] = "checkout"
          BY <3>1, <4>1
        <5> QED
          BY <3>1, <4>1, <5>1
      <4>2. CASE s # subject[w]
        <5>1. owner'[s] = owner[s] /\ owner[s] # w
          BY <3>1, <3>4, <4>2
        <5>2. /\ subject[owner[s]] = s
              /\ <<owner[s], "lock">> \in connections
              /\ stage[owner[s]] \in {"checkout", "work", "unlock"}
          BY <3>4, <5>1
        <5>3. owner[s] \in Workers
          BY <3>4, <5>1
        <5> QED
          BY <3>1, <5>1, <5>2, <5>3
      <4> QED
        BY <4>1, <4>2
    <3> QED
      BY <3>2, <3>3, <3>4
  <2>4. ASSUME NEW w \in Workers, Pools!Checkout(w) PROVE PoolsInv'
    BY <2>4 DEF Pools!Checkout
  <2>5. ASSUME NEW w \in Workers, Pools!Commit(w) PROVE PoolsInv'
    BY <2>5 DEF Pools!Commit
  <2>6. ASSUME NEW w \in Workers, Pools!FinalRead(w) PROVE PoolsInv'
    BY <2>6 DEF Pools!FinalRead
  <2>7. ASSUME NEW w \in Workers, Pools!Fail(w) PROVE PoolsInv'
    BY <2>7 DEF Pools!Fail
  <2>8. ASSUME NEW w \in Workers, Pools!Unlock(w) PROVE PoolsInv'
    BY <2>8 DEF Pools!Unlock
  <2>9. ASSUME NEW w \in Workers, Pools!CloseSession(w) PROVE PoolsInv'
    BY <2>9 DEF Pools!CloseSession
  <2> QED
    BY <1>2, <2>1, <2>2, <2>3, <2>4, <2>5, <2>6, <2>7, <2>8, <2>9 DEF Pools!Next, Pools!Step
<1> QED
  BY <1>1, <1>2

\* Connections are held exactly while needed, always.
LEMMA PoolsHold == Pools!Spec => []PoolsInv
BY PoolsInit, PoolsStep, PTL DEF Pools!Spec

\* The advisory lock of a series never outlives the connection it is tied to,
\* whatever is committed, fails or is checked out meanwhile.
THEOREM LocksKeepTheirConnection == Pools!Spec => []Pools!LockNeedsConnection
<1>1. PoolsInv => Pools!LockNeedsConnection
  BY DEF PoolsInv
<1> QED
  BY <1>1, PoolsHold, PTL

\* With an engine of their own for the locks, a call waiting for a session
\* connection never waits for a call that is itself waiting for a lock, for
\* any pool sizes.
THEOREM OwnersNeverWaitForWaiters == Pools!Spec => []Pools!OwnersWaitForWorkers
<1>1. PoolsInv => Pools!OwnersWaitForWorkers
  BY DEF PoolsInv, PoolsTyped, HeldWhenNeeded, Pools!OwnersWaitForWorkers, Pools!PoolOf,
         Pools!Uses
<1> QED
  BY <1>1, PoolsHold, PTL

-----------------------------------------------------------------------------
(* Boundaries (CandleWalk), of every granularity over every kind of day but  *)
(* the one on which the start of a candle is skipped.                        *)

\* The granularities of which every candle starts at a time that clocks show.
Ordinary(h) == h \in Granularities /\ ~(h = 3 /\ shift = 1)

\* The wall times at which candles start.
Aligned(b, h) == b \in Int /\ \E k \in Int : b = DailyAlignment + h * k

\* The aligned time a wall time comes after.
AlignedStart(w, h) == DayStart(w) + h * ((w - DayStart(w)) \div h)

Bucketed(w, h) ==
    /\ Aligned(AlignedStart(w, h), h)
    /\ AlignedStart(w, h) <= w /\ w < AlignedStart(w, h) + h

\* Every wall time is in the bucket of an aligned one: the day is a whole
\* number of candles.
LEMMA EveryTimeHasABucket ==
  ASSUME NEW h \in Granularities \ {1}, NEW w \in Int
  PROVE  Bucketed(w, h)
<1>1. Bucketed(w, 2)
  <2>1. /\ AlignedStart(w, 2) = 17 + 2 * ((w - 17) \div 2)
        /\ (w - 17) \div 2 \in Int /\ 2 * ((w - 17) \div 2) <= w - 17
        /\ w - 17 < 2 * ((w - 17) \div 2) + 2
    BY DEF AlignedStart, DayStart, DailyAlignment
  <2> QED
    BY <2>1 DEF Bucketed, Aligned, DailyAlignment
<1>2. Bucketed(w, 3)
  <2>1. /\ AlignedStart(w, 3) = 17 + 3 * ((w - 17) \div 3)
        /\ (w - 17) \div 3 \in Int /\ 3 * ((w - 17) \div 3) <= w - 17
        /\ w - 17 < 3 * ((w - 17) \div 3) + 3
    BY DEF AlignedStart, DayStart, DailyAlignment
  <2> QED
    BY <2>1 DEF Bucketed, Aligned, DailyAlignment
<1>3. Bucketed(w, 4)
  <2>1. /\ AlignedStart(w, 4) = 17 + 4 * ((w - 17) \div 4)
        /\ (w - 17) \div 4 \in Int /\ 4 * ((w - 17) \div 4) <= w - 17
        /\ w - 17 < 4 * ((w - 17) \div 4) + 4
    BY DEF AlignedStart, DayStart, DailyAlignment
  <2> QED
    BY <2>1 DEF Bucketed, Aligned, DailyAlignment
<1>4. Bucketed(w, 6)
  <2>1. /\ AlignedStart(w, 6) = 17 + 6 * ((w - 17) \div 6)
        /\ (w - 17) \div 6 \in Int /\ 6 * ((w - 17) \div 6) <= w - 17
        /\ w - 17 < 6 * ((w - 17) \div 6) + 6
    BY DEF AlignedStart, DayStart, DailyAlignment
  <2> QED
    BY <2>1 DEF Bucketed, Aligned, DailyAlignment
<1>5. Bucketed(w, 8)
  <2>1. /\ AlignedStart(w, 8) = 17 + 8 * ((w - 17) \div 8)
        /\ (w - 17) \div 8 \in Int /\ 8 * ((w - 17) \div 8) <= w - 17
        /\ w - 17 < 8 * ((w - 17) \div 8) + 8
    BY DEF AlignedStart, DayStart, DailyAlignment
  <2> QED
    BY <2>1 DEF Bucketed, Aligned, DailyAlignment
<1>6. Bucketed(w, 12)
  <2>1. /\ AlignedStart(w, 12) = 17 + 12 * ((w - 17) \div 12)
        /\ (w - 17) \div 12 \in Int /\ 12 * ((w - 17) \div 12) <= w - 17
        /\ w - 17 < 12 * ((w - 17) \div 12) + 12
    BY DEF AlignedStart, DayStart, DailyAlignment
  <2> QED
    BY <2>1 DEF Bucketed, Aligned, DailyAlignment
<1>7. Bucketed(w, 24)
  <2>1. /\ AlignedStart(w, 24) = 17 + 24 * ((w - 17) \div 24)
        /\ (w - 17) \div 24 \in Int /\ 24 * ((w - 17) \div 24) <= w - 17
        /\ w - 17 < 24 * ((w - 17) \div 24) + 24
    BY DEF AlignedStart, DayStart, DailyAlignment
  <2> QED
    BY <2>1 DEF Bucketed, Aligned, DailyAlignment
<1> QED
  BY <1>1, <1>2, <1>3, <1>4, <1>5, <1>6, <1>7 DEF Granularities

\* Aligned times are a candle apart, and none of them is skipped.
Apart(b, c, h) ==
    /\ b < c => b + h <= c
    /\ Aligned(b + h, h)
    /\ h # 3 => b # TransitionHour

\* For every granularity but the one that is walked by the hour.
LEMMA AlignedApart ==
  ASSUME NEW h \in Granularities \ {1}, NEW b, NEW c, Aligned(b, h), Aligned(c, h)
  PROVE  Apart(b, c, h)
<1> USE DEF DailyAlignment, TransitionHour
<1>1. PICK k \in Int : b = 17 + h * k
  BY DEF Aligned
<1>2. PICK n \in Int : c = 17 + h * n
  BY DEF Aligned
<1>3. CASE h = 2
  <2>1. b = 17 + 2 * k /\ c = 17 + 2 * n /\ b + 2 = 17 + 2 * (k + 1) /\ k + 1 \in Int
    BY <1>1, <1>2, <1>3
  <2> QED
    BY <1>3, <2>1 DEF Apart, Aligned
<1>4. CASE h = 3
  <2>1. b = 17 + 3 * k /\ c = 17 + 3 * n /\ b + 3 = 17 + 3 * (k + 1) /\ k + 1 \in Int
    BY <1>1, <1>2, <1>4
  <2> QED
    BY <1>4, <2>1 DEF Apart, Aligned
<1>5. CASE h = 4
  <2>1. b = 17 + 4 * k /\ c = 17 + 4 * n /\ b + 4 = 17 + 4 * (k + 1) /\ k + 1 \in Int
    BY <1>1, <1>2, <1>5
  <2> QED
    BY <1>5, <2>1 DEF Apart, Aligned
<1>6. CASE h = 6
  <2>1. b = 17 + 6 * k /\ c = 17 + 6 * n /\ b + 6 = 17 + 6 * (k + 1) /\ k + 1 \in Int
    BY <1>1, <1>2, <1>6
  <2> QED
    BY <1>6, <2>1 DEF Apart, Aligned
<1>7. CASE h = 8
  <2>1. b = 17 + 8 * k /\ c = 17 + 8 * n /\ b + 8 = 17 + 8 * (k + 1) /\ k + 1 \in Int
    BY <1>1, <1>2, <1>7
  <2> QED
    BY <1>7, <2>1 DEF Apart, Aligned
<1>8. CASE h = 12
  <2>1. b = 17 + 12 * k /\ c = 17 + 12 * n /\ b + 12 = 17 + 12 * (k + 1) /\ k + 1 \in Int
    BY <1>1, <1>2, <1>8
  <2> QED
    BY <1>8, <2>1 DEF Apart, Aligned
<1>9. CASE h = 24
  <2>1. b = 17 + 24 * k /\ c = 17 + 24 * n /\ b + 24 = 17 + 24 * (k + 1) /\ k + 1 \in Int
    BY <1>1, <1>2, <1>9
  <2> QED
    BY <1>9, <2>1 DEF Apart, Aligned
<1> QED
  BY <1>3, <1>4, <1>5, <1>6, <1>7, <1>8, <1>9 DEF Granularities

\* A wall time is in the bucket of one aligned time.
LEMMA OneBucket ==
  ASSUME NEW h \in Granularities \ {1}, NEW b, NEW c, Aligned(b, h), Aligned(c, h),
         NEW w \in Int, b <= w, w < b + h, c <= w, w < c + h
  PROVE  b = c
<1>1. Apart(b, c, h) /\ Apart(c, b, h)
  BY AlignedApart
<1>2. b \in Int /\ c \in Int /\ h \in Nat
  BY DEF Aligned, Granularities
<1> QED
  BY <1>1, <1>2 DEF Apart

\* candle_start_boundary and candle_end_time, by the wall clock.
LEMMA StartsAreAligned ==
  ASSUME shift \in {-1, 0, 1}, NEW h, Ordinary(h), h # 1, NEW t \in Int
  PROVE  \E b \in Int : /\ Aligned(b, h) /\ b <= ToWall(t) /\ ToWall(t) < b + h
                        /\ StartOf(t, h) = FromWall(b)
                        /\ ToWall(FromWall(b)) = b
<1> DEFINE w == ToWall(t)
           b == AlignedStart(w, h)
<1>1. w \in Int /\ h \in Granularities \ {1}
  BY DEF ToWall, TransitionHour, Ordinary
<1>2. /\ Aligned(b, h) /\ b <= w /\ w < b + h
  BY <1>1, EveryTimeHasABucket DEF Bucketed
<1>3. StartOf(t, h) = FromWall(b)
  BY DEF StartOf, AlignedStart
<1> HIDE DEF w, b
<1>4. b \in Int /\ (shift = 1 => b # TransitionHour)
  BY <1>1, <1>2, AlignedApart DEF Aligned, Apart, Ordinary
<1>5. ToWall(FromWall(b)) = b
  BY <1>4 DEF ToWall, FromWall, TransitionHour
<1> QED
  BY <1>2, <1>3, <1>4, <1>5 DEF w

\* Wall times that clocks show are shown in order.
LEMMA FromWallOrder ==
  ASSUME shift \in {-1, 0, 1}, NEW b \in Int, NEW c \in Int, b < c,
         ToWall(FromWall(b)) = b, ToWall(FromWall(c)) = c
  PROVE  /\ FromWall(b) \in Int /\ FromWall(c) \in Int
         /\ FromWall(b) < FromWall(c) /\ FromWall(c) <= FromWall(b) + (c - b) + 1
BY DEF ToWall, FromWall, TransitionHour

\* The boundary of an instant is not after it, and is its own boundary.
LEMMA EverythingFloored ==
  ASSUME shift \in {-1, 0, 1}, NEW h, Ordinary(h), NEW t \in Int
  PROVE  StartOf(t, h) \in Int /\ StartOf(t, h) <= t /\ StartOf(StartOf(t, h), h) = StartOf(t, h)
<1>1. CASE h = 1
  BY <1>1 DEF StartOf
<1>2. CASE h # 1
  <2>1. PICK b \in Int : /\ Aligned(b, h) /\ b <= ToWall(t) /\ ToWall(t) < b + h
                         /\ StartOf(t, h) = FromWall(b) /\ ToWall(FromWall(b)) = b
    BY <1>2, StartsAreAligned
  <2>2. FromWall(b) \in Int /\ FromWall(b) <= t
    BY <2>1 DEF ToWall, FromWall, TransitionHour
  <2>3. PICK c \in Int : /\ Aligned(c, h) /\ c <= ToWall(FromWall(b)) /\ ToWall(FromWall(b)) < c + h
                         /\ StartOf(FromWall(b), h) = FromWall(c)
    BY <1>2, <2>2, StartsAreAligned
  <2>4. h \in Granularities \ {1} /\ h \in Nat /\ h > 1
    BY <1>2 DEF Ordinary, Granularities
  <2>5. b = c
    <3>1. b <= b /\ b < b + h
      BY <2>1, <2>4
    <3> QED
      BY <2>1, <2>3, <2>4, <3>1, OneBucket
  <2> QED
    BY <2>1, <2>2, <2>3, <2>5
<1> QED
  BY <1>1, <1>2

\* A candle ends, within an hour of its nominal length, where the next starts,
\* and what lies before its end belongs to it.
LEMMA EveryCandleEnds ==
  ASSUME shift \in {-1, 0, 1}, NEW h, Ordinary(h), NEW s \in Int, StartOf(s, h) = s
  PROVE  /\ EndOf(s, h) \in s + 1 .. s + h + 1
         /\ StartOf(EndOf(s, h), h) = EndOf(s, h)
         /\ \A u \in s .. EndOf(s, h) - 1 : StartOf(u, h) = s
<1>1. CASE h = 1
  BY <1>1 DEF StartOf, EndOf
<1>2. CASE h # 1
  <2>1. PICK b \in Int : /\ Aligned(b, h) /\ b <= ToWall(s) /\ ToWall(s) < b + h
                         /\ StartOf(s, h) = FromWall(b) /\ ToWall(FromWall(b)) = b
    BY <1>2, StartsAreAligned
  <2>2. s = FromWall(b) /\ ToWall(s) = b
    BY <2>1
  <2>3. EndOf(s, h) = FromWall(b + h) /\ h \in Nat /\ h > 1
    BY <1>2, <2>2 DEF EndOf, Ordinary, Granularities
  <2>4. Aligned(b + h, h) /\ b + h \in Int /\ (shift = 1 => b + h # TransitionHour)
    <3>1. Aligned(b + h, h)
      BY <1>2, <2>1, AlignedApart DEF Apart, Ordinary
    <3> QED
      BY <1>2, <2>3, <3>1, AlignedApart DEF Apart, Ordinary, Aligned
  <2>5. ToWall(FromWall(b + h)) = b + h
    BY <2>4 DEF ToWall, FromWall, TransitionHour
  <2>6. EndOf(s, h) \in s + 1 .. s + h + 1
    BY <2>1, <2>2, <2>3, <2>4, <2>5, FromWallOrder
  <2>7. ASSUME NEW u \in Int, s <= u, u < EndOf(s, h) PROVE StartOf(u, h) = s
    <3>1. PICK c \in Int : /\ Aligned(c, h) /\ c <= ToWall(u) /\ ToWall(u) < c + h
                           /\ StartOf(u, h) = FromWall(c)
      BY <1>2, StartsAreAligned
    <3>2. b <= ToWall(u) /\ ToWall(u) < b + h
      BY <2>2, <2>3, <2>4, <2>5, <2>7 DEF ToWall, FromWall, TransitionHour
    <3>3. b = c
      BY <1>2, <2>1, <3>1, <3>2, OneBucket DEF Ordinary, ToWall, TransitionHour
    <3> QED
      BY <2>2, <3>1, <3>3
  <2>8. StartOf(EndOf(s, h), h) = EndOf(s, h)
    <3> DEFINE e == EndOf(s, h)
    <3>1. e \in Int /\ ToWall(e) = b + h /\ e = FromWall(b + h)
      BY <2>3, <2>5, <2>6
    <3>2. PICK c \in Int : /\ Aligned(c, h) /\ c <= ToWall(e) /\ ToWall(e) < c + h
                           /\ StartOf(e, h) = FromWall(c)
      BY <1>2, <3>1, StartsAreAligned
    <3>3. c = b + h
      <4>1. b + h <= b + h /\ b + h < (b + h) + h /\ h \in Granularities \ {1}
        BY <1>2, <2>3, <2>4 DEF Ordinary
      <4> QED
        BY <2>4, <3>1, <3>2, <4>1, OneBucket
    <3> QED
      BY <3>1, <3>2, <3>3
  <2> QED
    BY <2>3, <2>6, <2>7, <2>8
<1> QED
  BY <1>1, <1>2

-----------------------------------------------------------------------------
(* Iteration.                                                              *)

\* Whatever holds of 0, and of n + 1 if of n, holds of every number: the numbers it
\* fails for would have a least one.
LEMMA Upwards ==
  ASSUME NEW T, T \subseteq Nat, 0 \in T, \A n \in T : n + 1 \in T
  PROVE  \A n \in Nat : n \in T
<1> DEFINE U == Nat \ T
<1>1. SUFFICES ASSUME U # {} PROVE FALSE
  OBVIOUS
<1>2. PICK x \in U : \A y \in U : ~(<<y, x>> \in OpToRel(<, Nat))
  BY <1>1, WFMin, NatLessThanWellFounded, Zenon
<1>3. x - 1 \in U
  <2>1. x \in Nat /\ x # 0
    OBVIOUS
  <2>2. x - 1 \in Nat /\ (x - 1 \in T => x \in T)
    BY <2>1
  <2> QED
    BY <2>2
<1>4. <<x - 1, x>> \in OpToRel(<, Nat)
  BY <1>3, SMT DEF OpToRel
<1> QED
  BY <1>2, <1>3, <1>4

\* A recursion of n steps from a.
Iterates(g, V, F, a, n) ==
    g \in [0 .. n -> V] /\ g[0] = a /\ \A k \in 1 .. n : g[k] = F[<<k, g[k - 1]>>]

\* Every recursion within a set has its values.
LEMMA IterationExists ==
  ASSUME NEW n \in Nat, NEW V, NEW F \in [(1 .. n) \X V -> V], NEW a \in V
  PROVE  \E g : Iterates(g, V, F, a, n)
<1> DEFINE T == {k \in Nat : k <= n => \E g : Iterates(g, V, F, a, k)}
<1>1. 0 \in T
  <2> DEFINE g == [k \in 0 .. 0 |-> a]
  <2>1. Iterates(g, V, F, a, 0)
    BY DEF Iterates
  <2> QED
    BY <2>1
<1>2. ASSUME NEW m \in T PROVE m + 1 \in T
  <2>1. SUFFICES ASSUME m + 1 <= n PROVE \E g : Iterates(g, V, F, a, m + 1)
    OBVIOUS
  <2>2. PICK g : Iterates(g, V, F, a, m)
    BY <2>1
  <2> DEFINE f == [k \in 0 .. m + 1 |-> IF k = m + 1 THEN F[<<m + 1, g[m]>>] ELSE g[k]]
  <2>3. m \in Nat /\ g[m] \in V /\ <<m + 1, g[m]>> \in (1 .. n) \X V
    BY <2>1, <2>2 DEF Iterates
  <2>4. F[<<m + 1, g[m]>>] \in V
    BY <2>3
  <2>5. f \in [0 .. m + 1 -> V] /\ f[0] = a
    BY <2>2, <2>3, <2>4 DEF Iterates
  <2>6. ASSUME NEW k \in 1 .. m + 1 PROVE f[k] = F[<<k, f[k - 1]>>]
    <3>1. CASE k = m + 1
      <4>1. f[k] = F[<<m + 1, g[m]>>] /\ f[m] = g[m] /\ k - 1 = m
        BY <2>3, <3>1
      <4> QED
        BY <3>1, <4>1
    <3>2. CASE k # m + 1
      <4>1. k \in 1 .. m /\ f[k] = g[k] /\ f[k - 1] = g[k - 1]
        BY <2>3, <3>2
      <4> QED
        BY <2>2, <4>1 DEF Iterates
    <3> QED
      BY <3>1, <3>2
  <2> HIDE DEF f
  <2>7. Iterates(f, V, F, a, m + 1)
    BY <2>5, <2>6 DEF Iterates
  <2> QED
    BY <2>7
<1> HIDE DEF T
<1>3. \A k \in Nat : k \in T
  <2>1. T \subseteq Nat
    BY DEF T
  <2> QED
    BY <1>1, <1>2, <2>1, Upwards
<1> QED
  BY <1>3 DEF T

\* Two recursions that start alike and step alike are alike.
StepAlike(f, g, n) == f[0] = g[0] /\ \A k \in 1 .. n : f[k - 1] = g[k - 1] => f[k] = g[k]
Alike(f, g, n) == \A k \in 0 .. n : f[k] = g[k]

\* By induction over the steps.
LEMMA SameIteration ==
  ASSUME NEW n \in Nat, NEW f, NEW g, StepAlike(f, g, n)
  PROVE  Alike(f, g, n)
<1> DEFINE T == {k \in Nat : k <= n => f[k] = g[k]}
<1>1. 0 \in T
  BY DEF StepAlike
<1>2. ASSUME NEW k \in T PROVE k + 1 \in T
  <2>1. ASSUME k + 1 <= n PROVE f[k + 1] = g[k + 1]
    <3>1. k + 1 \in 1 .. n /\ (k + 1) - 1 = k /\ f[k] = g[k]
      BY <2>1
    <3> QED
      BY <3>1 DEF StepAlike
  <2> QED
    BY <2>1
<1>3. \A k \in Nat : k \in T
  <2> HIDE DEF T
  <2>1. T \subseteq Nat
    BY DEF T
  <2> QED
    BY <1>1, <1>2, <2>1, Upwards
<1> QED
  BY <1>3 DEF Alike

-----------------------------------------------------------------------------
(* CandleWalk.                                                             *)

\* The end of a candle is a time.
LEMMA EndsAreTimes ==
  ASSUME shift \in {-1, 0, 1}
  PROVE  \A s \in Int, h \in Int : EndOf(s, h) \in Int
BY DEF EndOf, ToWall, FromWall, TransitionHour

\* A function that goes from the start of a candle to its end, n times.
EndByEnd(g, from, h, n) ==
    g = [k \in 0 .. n |-> IF k = 0 THEN from ELSE EndOf(g[k - 1], h)]

\* Such a function exists.
LEMMA WalksExist ==
  ASSUME shift \in {-1, 0, 1}, NEW from \in Int, NEW h \in Int, NEW n \in Nat
  PROVE  \E g : EndByEnd(g, from, h, n)
<1> DEFINE F == [z \in (1 .. n) \X Int |-> EndOf(z[2], h)]
<1>1. F \in [(1 .. n) \X Int -> Int]
  BY EndsAreTimes
<1> HIDE DEF F
<1>2. PICK g : Iterates(g, Int, F, from, n)
  BY <1>1, IterationExists
<1>3. /\ g = [k \in 0 .. n |-> g[k]] /\ g[0] = from
      /\ \A k \in 1 .. n : g[k] = F[<<k, g[k - 1]>>]
      /\ \A k \in 0 .. n : g[k] \in Int
  BY <1>2 DEF Iterates
<1>4. ASSUME NEW k \in 0 .. n
      PROVE  g[k] = IF k = 0 THEN from ELSE EndOf(g[k - 1], h)
  <2>1. CASE k = 0
    BY <1>3, <2>1
  <2>2. CASE k # 0
    <3>1. k \in 1 .. n /\ k - 1 \in 0 .. n
      BY <2>2
    <3>2. g[k] = F[<<k, g[k - 1]>>] /\ g[k - 1] \in Int
      BY <1>3, <3>1
    <3> QED
      BY <2>2, <3>2 DEF F
  <2> QED
    BY <2>1, <2>2
<1> QED
  BY <1>3, <1>4 DEF EndByEnd

\* It starts at the candle, and every value is the end of the candle before.
LEMMA WalksStep ==
  ASSUME NEW from, NEW h, NEW n \in Nat, NEW g, EndByEnd(g, from, h, n)
  PROVE  /\ g[0] = from
         /\ \A k \in 1 .. n : g[k] = EndOf(g[k - 1], h)
BY DEF EndByEnd

\* _advance takes n steps, each to the end of the candle.
LEMMA AdvanceWalks ==
  ASSUME shift \in {-1, 0, 1}, hours \in Nat, NEW from \in Int, NEW n \in Nat
  PROVE  \E f : /\ f[0] = from
                /\ \A k \in 1 .. n : f[k] = EndTime(f[k - 1])
                /\ Advance(from, n) = f[n]
<1> DEFINE after == CHOOSE g : EndByEnd(g, from, hours, n)
<1>1. EndByEnd(after, from, hours, n)
  BY WalksExist
<1>2. Advance(from, n) = after[n]
  BY DEF Advance, EndTime, EndByEnd
<1> HIDE DEF after
<1> QED
  BY <1>1, <1>2, WalksStep DEF EndTime

\* Candles on from the start of a candle, one is at the start of a later one.
LEMMA AdvanceLands ==
  ASSUME shift \in {-1, 0, 1}, Ordinary(hours),
         NEW from \in Int, StartBoundary(from) = from, NEW n \in Nat \ {0}
  PROVE  LET a == Advance(from, n) IN a \in Int /\ from < a /\ StartBoundary(a) = a
<1>1. hours \in Nat /\ hours >= 1
  BY DEF Ordinary, Granularities
<1>2. PICK f : /\ f[0] = from
               /\ \A k \in 1 .. n : f[k] = EndTime(f[k - 1])
               /\ Advance(from, n) = f[n]
  BY <1>1, AdvanceWalks
<1> DEFINE On(k) == f[k] \in Int /\ from + k <= f[k] /\ StartBoundary(f[k]) = f[k]
           T == {k \in Nat : k <= n => On(k)}
<1>3. 0 \in T
  BY <1>2
<1>4. ASSUME NEW k \in T PROVE k + 1 \in T
  <2>1. SUFFICES ASSUME k + 1 <= n PROVE On(k + 1)
    OBVIOUS
  <2>2. On(k) /\ k \in Nat
    BY <2>1
  <2>3. f[k + 1] = EndTime(f[k])
    <3>1. k + 1 \in 1 .. n /\ (k + 1) - 1 = k
      BY <2>1, <2>2
    <3> QED
      BY <1>2, <3>1
  <2>4. /\ EndTime(f[k]) \in f[k] + 1 .. f[k] + hours + 1
        /\ StartBoundary(EndTime(f[k])) = EndTime(f[k])
    BY <2>2, EveryCandleEnds DEF StartBoundary, EndTime
  <2> QED
    BY <1>1, <2>2, <2>3, <2>4
<1> HIDE DEF On
<1>5. n \in T
  BY <1>3, <1>4, Upwards
<1> QED
  BY <1>2, <1>5 DEF On

-----------------------------------------------------------------------------
\* What the ranges, the pages and the sums range over.
WalkTyped ==
    /\ <<hours, shift>> \in Cases
    /\ start \in RangeStarts /\ end \in RangeEnds /\ start < end
    /\ perPage \in 1 .. MaxPage
    /\ pages \in Seq([start : Int, end : Int])
    /\ cursor \in Int /\ expected \subseteq Int /\ next \in Int

\* split_into_pages goes on from the start of a candle, unless it is done.
PagesOnGrid ==
    /\ \A i \in 1 .. Len(pages) : StartBoundary(pages[i].start) = pages[i].start
    /\ cursor < end => StartBoundary(cursor) = cursor

\* find_gaps has expected the starts of the candles up to the one it is at.
ExpectedSoFar ==
    /\ StartBoundary(next) = next /\ StartBoundary(start) <= next
    /\ expected = {t \in StartBoundary(start) .. next - 1 : StartBoundary(t) = t}
    /\ \A t \in expected : t < end

WalkIInv == WalkTyped /\ PagesOnGrid /\ ExpectedSoFar

\* Without H3 over a spring transition, every granularity met is ordinary.
LEMMA OrdinaryCases ==
  ASSUME <<3, 1>> \notin Cases, WalkTyped
  PROVE  Ordinary(hours) /\ shift \in {-1, 0, 1} /\ hours \in Nat /\ hours >= 1
<1>1. hours \in Granularities /\ shift \in {-1, 0, 1}
  BY WalkAssumption DEF WalkTyped
<1>2. ~(hours = 3 /\ shift = 1)
  BY DEF WalkTyped
<1> QED
  BY <1>1, <1>2 DEF Ordinary, Granularities

\* The walk is on the grid at first,
LEMMA WalkStarts ==
  ASSUME <<3, 1>> \notin Cases, WalkInit
  PROVE  WalkIInv
<1>1. <<hours, shift>> \in Cases
  <2>1. PICK c \in Cases : hours = c[1] /\ shift = c[2]
    BY DEF WalkInit
  <2>2. c = <<c[1], c[2]>>
    BY WalkAssumption
  <2> QED
    BY <2>1, <2>2
<1>2. Ordinary(hours) /\ shift \in {-1, 0, 1}
  <2>1. hours \in Granularities /\ shift \in {-1, 0, 1}
    BY <1>1, WalkAssumption
  <2> QED
    BY <1>1, <2>1 DEF Ordinary
<1>3. start \in Int /\ end \in Int
  BY WalkAssumption DEF WalkInit
<1>4. /\ StartBoundary(start) \in Int
      /\ StartBoundary(StartBoundary(start)) = StartBoundary(start)
  BY <1>2, <1>3, EverythingFloored DEF StartBoundary
<1>5. WalkTyped
  BY <1>1, <1>4 DEF WalkInit, WalkTyped
<1>6. PagesOnGrid /\ ExpectedSoFar
  BY <1>4 DEF WalkInit, PagesOnGrid, ExpectedSoFar
<1> QED
  BY <1>5, <1>6 DEF WalkIInv

\* and after every page and every expected start.
LEMMA WalkKeeps ==
  ASSUME <<3, 1>> \notin Cases, WalkIInv, WalkNext
  PROVE  WalkIInv'
<1>1. Ordinary(hours) /\ shift \in {-1, 0, 1} /\ hours \in Nat /\ hours >= 1
  BY OrdinaryCases DEF WalkIInv
<1>2. start \in Int /\ end \in Int /\ perPage \in Nat \ {0} /\ cursor \in Int /\ next \in Int
  BY WalkAssumption DEF WalkIInv, WalkTyped
<1>3. CASE NextPage
  <2> DEFINE full == Advance(cursor, perPage)
             until == IF full > end THEN end ELSE full
             asked == [start |-> cursor, end |-> until]
  <2>1. cursor < end /\ StartBoundary(cursor) = cursor
    BY <1>3 DEF NextPage, WalkIInv, PagesOnGrid
  <2>2. full \in Int /\ cursor < full /\ StartBoundary(full) = full
    BY <1>1, <1>2, <2>1, AdvanceLands
  <2>3. /\ pages' = Append(pages, asked) /\ cursor' = until
        /\ UNCHANGED <<hours, shift, start, end, perPage, expected, next>>
    BY <1>3 DEF NextPage
  <2> HIDE DEF full
  <2>4. until \in Int /\ asked \in [start : Int, end : Int]
    BY <1>2, <2>2
  <2>5. WalkTyped'
    BY <2>3, <2>4 DEF WalkIInv, WalkTyped
  <2>6. \A t : StartBoundary(t)' = StartBoundary(t)
    BY <2>3 DEF StartBoundary, StartOf, ToWall, FromWall, DayStart
  <2>7. PagesOnGrid'
    <3>1. cursor' < end' => StartBoundary(cursor)' = cursor'
      BY <1>2, <2>2, <2>3, <2>6
    <3>2. ASSUME NEW i \in 1 .. Len(pages')
          PROVE  StartBoundary(pages[i].start)' = pages'[i].start
      <4>1. CASE i \in 1 .. Len(pages)
        <5>1. pages'[i] = pages[i]
          BY <2>3, <4>1 DEF WalkIInv, WalkTyped
        <5>2. StartBoundary(pages[i].start) = pages[i].start
          BY <4>1 DEF WalkIInv, PagesOnGrid
        <5> QED
          BY <2>6, <5>1, <5>2
      <4>2. CASE i = Len(pages) + 1
        <5>1. pages'[i] = asked
          BY <2>3, <4>2 DEF WalkIInv, WalkTyped
        <5> QED
          BY <2>1, <2>6, <5>1
      <4> QED
        BY <2>3, <4>1, <4>2 DEF WalkIInv, WalkTyped
    <3> QED
      BY <3>1, <3>2 DEF PagesOnGrid
  <2>8. ExpectedSoFar'
    BY <2>3, <2>6 DEF WalkIInv, ExpectedSoFar
  <2> QED
    BY <2>5, <2>7, <2>8 DEF WalkIInv
<1>4. CASE NextExpected
  <2>1. /\ cursor >= end /\ next < end
        /\ expected' = expected \cup {next} /\ next' = EndTime(next)
        /\ UNCHANGED <<hours, shift, start, end, perPage, pages, cursor>>
    BY <1>4 DEF NextExpected
  <2>2. StartBoundary(next) = next
    BY DEF WalkIInv, ExpectedSoFar
  <2>3. /\ EndTime(next) \in next + 1 .. next + hours + 1
        /\ StartBoundary(EndTime(next)) = EndTime(next)
        /\ \A u \in next .. EndTime(next) - 1 : StartBoundary(u) = next
    BY <1>1, <1>2, <2>2, EveryCandleEnds DEF StartBoundary, EndTime
  <2>4. \A t : StartBoundary(t)' = StartBoundary(t)
    BY <2>1 DEF StartBoundary, StartOf, ToWall, FromWall, DayStart
  <2>5. WalkTyped'
    BY <1>1, <1>2, <2>1, <2>3 DEF WalkIInv, WalkTyped
  <2>6. PagesOnGrid'
    BY <2>1, <2>4 DEF WalkIInv, PagesOnGrid
  <2>7. ExpectedSoFar'
    <3> DEFINE first == StartBoundary(start)
               e == EndTime(next)
    <3>1. first \in Int /\ first <= next
      BY <1>1, <1>2, EverythingFloored DEF WalkIInv, ExpectedSoFar, StartBoundary
    <3>2. e \in Int /\ next < e
      BY <1>1, <1>2, <2>3
    <3>3. expected = {t \in first .. next - 1 : StartBoundary(t) = t} /\ \A t \in expected : t < end
      BY DEF WalkIInv, ExpectedSoFar
    <3>4. \A u \in next .. e - 1 : StartBoundary(u) = u <=> u = next
      BY <1>2, <2>2, <2>3
    <3> HIDE DEF first, e
    <3>5. expected \cup {next} = {t \in first .. e - 1 : StartBoundary(t) = t}
      BY <1>2, <3>1, <3>2, <3>3, <3>4
    <3>6. first' = first /\ next' = e
      BY <2>1, <2>4 DEF first, e
    <3>7. expected' = {t \in first .. next' - 1 : StartBoundary(t) = t}
      BY <2>1, <3>5, <3>6
    <3>8. /\ StartBoundary(next)' = next' /\ first <= next'
          /\ \A t \in expected' : t < end'
      BY <1>2, <2>1, <2>3, <2>4, <3>1, <3>2, <3>3, <3>6 DEF e
    <3> QED
      BY <2>4, <3>6, <3>7, <3>8 DEF ExpectedSoFar, first
  <2> QED
    BY <2>5, <2>6, <2>7 DEF WalkIInv
<1> QED
  BY <1>3, <1>4 DEF WalkNext

\* Nothing in the invariant looks at more than the walk.
LEMMA WalkStutters ==
  ASSUME WalkIInv, UNCHANGED walkVars
  PROVE  WalkIInv'
<1>1. UNCHANGED <<hours, shift, start, end, perPage, pages, cursor, expected, next>>
  BY DEF walkVars
<1>2. \A t : StartBoundary(t)' = StartBoundary(t)
  BY <1>1 DEF StartBoundary, StartOf, ToWall, FromWall, DayStart
<1>3. WalkTyped'
  BY <1>1 DEF WalkIInv, WalkTyped
<1>4. PagesOnGrid' /\ ExpectedSoFar'
  BY <1>1, <1>2 DEF WalkIInv, PagesOnGrid, ExpectedSoFar
<1> QED
  BY <1>3, <1>4 DEF WalkIInv

\* A step of the replay is one of the walk, or leaves the walk as it is.
LEMMA ReplayWalks ==
  ASSUME [BacktestNext]_backtestVars
  PROVE  WalkNext \/ UNCHANGED walkVars
BY DEF BacktestNext, Aggregate, Load, OnBar, backtestVars

\* The walk, of any granularity but H3 in spring, over any range and in pages of
\* any length, has the state its two loops keep: it stays on the grid.
THEOREM TheWalkIsTyped ==
  ASSUME <<3, 1>> \notin Cases
  PROVE  BacktestSpec => []WalkIInv
<1>1. BacktestInit => WalkIInv
  BY WalkStarts DEF BacktestInit
<1>2. WalkIInv /\ [BacktestNext]_backtestVars => WalkIInv'
  BY ReplayWalks, WalkKeeps, WalkStutters
<1> QED
  BY <1>1, <1>2, PTL DEF BacktestSpec

\* At the end of the walk, what it expects is the grid.
LEMMA TheWalkExpectsTheGrid ==
  ASSUME <<3, 1>> \notin Cases, WalkIInv
  PROVE  ExpectsTheGrid
<1>1. Ordinary(hours) /\ shift \in {-1, 0, 1} /\ hours \in Nat /\ hours >= 1
  BY OrdinaryCases DEF WalkIInv
<1>2. start \in Int /\ end \in Int /\ next \in Int /\ StartBoundary(start) \in Int
  BY <1>1, WalkAssumption, EverythingFloored DEF WalkIInv, WalkTyped, StartBoundary
<1>3. ASSUME NEW t \in Int PROVE StartBoundary(StartBoundary(t)) = StartBoundary(t)
  BY <1>1, EverythingFloored DEF StartBoundary
<1>4. BoundsAreBoundaries
  <2>1. ASSUME NEW i \in 1 .. Len(pages) PROVE pages[i].end \in Int
    <3> DEFINE Pair == [start : Int, end : Int]
    <3>1. pages \in Seq(Pair)
      BY DEF WalkIInv, WalkTyped
    <3>2. \A p \in Pair : p.end \in Int
      OBVIOUS
    <3> HIDE DEF Pair
    <3>3. pages[i] \in Pair
      BY <3>1
    <3> QED
      BY <3>2, <3>3
  <2>2. \A i \in 1 .. Len(pages) : StartBoundary(pages[i].start) = pages[i].start
    BY DEF WalkIInv, PagesOnGrid
  <2> QED
    BY <1>3, <2>1, <2>2 DEF BoundsAreBoundaries, RecordedBounds
<1>5. ASSUME Walked PROVE expected = Grid
  <2>1. next >= end
    BY <1>5 DEF Walked
  <2>2. expected = {t \in StartBoundary(start) .. next - 1 : StartBoundary(t) = t}
        /\ \A t \in expected : t < end
    BY DEF WalkIInv, ExpectedSoFar
  <2> HIDE DEF StartBoundary
  <2> QED
    BY <1>2, <2>1, <2>2 DEF Grid
<1> QED
  BY <1>4, <1>5 DEF ExpectsTheGrid

\* A gap check over any range expects exactly the candles that exist, and every
\* bound that a watermark can record is the start of one: for every granularity
\* and kind of day, but H3 in spring, where this is false.
THEOREM TheGridIsExpected ==
  ASSUME <<3, 1>> \notin Cases
  PROVE  BacktestSpec => []ExpectsTheGrid
<1>1. WalkIInv => ExpectsTheGrid
  BY TheWalkExpectsTheGrid
<1> QED
  BY <1>1, TheWalkIsTyped, PTL

-----------------------------------------------------------------------------
(* CandleAggregation.                                                      *)

\* A candle takes time, of any granularity and over any transition.
LEMMA CandlesTakeTime ==
  ASSUME shift \in {-1, 0, 1}, NEW s \in Int, NEW h \in Nat \ {0}
  PROVE  EndOf(s, h) \in Int /\ s < EndOf(s, h)
BY DEF EndOf, ToWall, FromWall, TransitionHour

\* What goes up step by step is in order.
LEMMA Climbing ==
  ASSUME NEW n \in Nat, NEW f, \A k \in 0 .. n : f[k] \in Int,
         \A k \in 1 .. n : f[k - 1] < f[k]
  PROVE  \A i \in 0 .. n, j \in 0 .. n : i <= j => f[i] <= f[j]
<1> DEFINE T == {d \in Nat : \A i \in 0 .. n : i + d <= n => f[i] <= f[i + d]}
<1>1. 0 \in T
  OBVIOUS
<1>2. ASSUME NEW d \in T PROVE d + 1 \in T
  <2>1. ASSUME NEW i \in 0 .. n, i + (d + 1) <= n PROVE f[i] <= f[i + (d + 1)]
    <3>1. i + d \in 0 .. n /\ (i + d) + 1 \in 1 .. n /\ i + (d + 1) = (i + d) + 1
      BY <2>1
    <3>2. f[i] <= f[i + d]
      BY <3>1
    <3>3. f[i + d] < f[(i + d) + 1]
      <4>1. ((i + d) + 1) - 1 = i + d
        BY <3>1
      <4> QED
        BY <3>1, <4>1
    <3>4. f[i] \in Int /\ f[i + d] \in Int /\ f[(i + d) + 1] \in Int
      BY <3>1
    <3> QED
      BY <3>1, <3>2, <3>3, <3>4
  <2> QED
    BY <2>1
<1>3. \A d \in Nat : d \in T
  <2> HIDE DEF T
  <2>1. T \subseteq Nat
    BY DEF T
  <2> QED
    BY <1>1, <1>2, <2>1, Upwards
<1>4. ASSUME NEW i \in 0 .. n, NEW j \in 0 .. n, i <= j PROVE f[i] <= f[j]
  <2>1. j - i \in Nat /\ i + (j - i) = j
    BY <1>4
  <2> QED
    <3>1. j - i \in T
      BY <1>3, <2>1
    <3>2. i + (j - i) <= n
      BY <2>1
    <3>3. f[i] <= f[i + (j - i)]
      BY <3>1, <3>2
    <3> QED
      BY <2>1, <3>3
<1> QED
  BY <1>4

\* A walk over source candles, and what it says is expected.
SourceWalk(f, b, h) ==
    /\ EndByEnd(f, b, h, hours + 1)
    /\ ExpectedSources(b, h).starts
          = {t \in {f[n] : n \in 0 .. hours + 1} : t < EndTime(b)}
    /\ ExpectedSources(b, h).tiles => \E n \in 0 .. hours + 1 : f[n] = EndTime(b)

\* Every walk over source candles is one.
LEMMA SourcesWalk ==
  ASSUME shift \in {-1, 0, 1}, hours \in Nat, NEW b \in Int, NEW h \in Nat \ {0}
  PROVE  \E f : SourceWalk(f, b, h)
<1> DEFINE walk == CHOOSE g : EndByEnd(g, b, h, hours + 1)
           reached == {walk[n] : n \in 0 .. hours + 1}
<1>1. EndByEnd(walk, b, h, hours + 1)
  BY WalksExist
<1>2. ExpectedSources(b, h) = [starts |-> {t \in reached : t < EndTime(b)},
                               tiles |-> EndTime(b) \in reached]
  BY DEF ExpectedSources, EndByEnd
<1> HIDE DEF walk
<1>3. ExpectedSources(b, h).starts = {t \in reached : t < EndTime(b)}
  BY <1>2
<1>4. ExpectedSources(b, h).tiles => \E n \in 0 .. hours + 1 : walk[n] = EndTime(b)
  <2> DEFINE whole == EndTime(b) \in reached
             below == {t \in reached : t < EndTime(b)}
  <2>1. ExpectedSources(b, h) = [starts |-> below, tiles |-> whole]
    BY <1>2
  <2> HIDE DEF whole, below
  <2>2. ExpectedSources(b, h).tiles = whole
    BY <2>1
  <2> QED
    BY <2>2 DEF whole
<1> QED
  BY <1>1, <1>3, <1>4 DEF SourceWalk

\* Between the start and the end of a bucket that source candles tile, every time
\* is in one of them.
LEMMA TilesCover ==
  ASSUME shift \in {-1, 0, 1}, hours \in Nat, NEW b \in Int, NEW h \in Nat \ {0},
         ExpectedSources(b, h).tiles,
         NEW t \in Int, b <= t, t < EndTime(b)
  PROVE  \E s \in ExpectedSources(b, h).starts :
            s \in Int /\ b <= s /\ s <= t /\ t < EndOf(s, h) /\ EndOf(s, h) <= EndTime(b)
<1>1. PICK f : SourceWalk(f, b, h)
  BY SourcesWalk
<1>2. f[0] = b /\ \A k \in 1 .. hours + 1 : f[k] = EndOf(f[k - 1], h)
  <2>1. hours + 1 \in Nat
    OBVIOUS
  <2> QED
    BY <1>1, <2>1, WalksStep DEF SourceWalk
<1>3. PICK N \in 0 .. hours + 1 : f[N] = EndTime(b)
  BY <1>1 DEF SourceWalk
<1>4. \A k \in 0 .. hours + 1 : f[k] \in Int
  <2> DEFINE T == {k \in Nat : k <= hours + 1 => f[k] \in Int}
  <2>1. 0 \in T
    BY <1>2
  <2>2. ASSUME NEW k \in T PROVE k + 1 \in T
    <3>1. ASSUME k + 1 <= hours + 1 PROVE f[k + 1] \in Int
      <4>1. k + 1 \in 1 .. hours + 1 /\ (k + 1) - 1 = k /\ f[k] \in Int
        BY <3>1
      <4> QED
        BY <1>2, <4>1, CandlesTakeTime
    <3> QED
      BY <3>1
  <2>3. \A k \in Nat : k \in T
    <3> HIDE DEF T
    <3>1. T \subseteq Nat
      BY DEF T
    <3> QED
      BY <2>1, <2>2, <3>1, Upwards
  <2> QED
    BY <2>3
<1>5. \A k \in 1 .. hours + 1 : f[k - 1] < f[k]
  BY <1>2, <1>4, CandlesTakeTime
<1>6. \A i \in 0 .. hours + 1, j \in 0 .. hours + 1 : i <= j => f[i] <= f[j]
  BY <1>4, <1>5, Climbing
<1> DEFINE U == {k \in Nat : k <= N => f[k] <= t}
<1>7. \E k \in U : k + 1 \notin U
  <2>1. 0 \in U
    BY <1>2
  <2>2. N \in Nat /\ N \notin U
    BY <1>3, <1>4
  <2>3. U \subseteq Nat
    OBVIOUS
  <2> HIDE DEF U
  <2> QED
    BY <2>1, <2>2, <2>3, Upwards
<1>8. PICK k \in U : k + 1 \notin U
  BY <1>7
<1>9. k \in 0 .. hours + 1 /\ k + 1 \in 1 .. hours + 1 /\ k + 1 <= N
  BY <1>3, <1>8
<1>10. f[k] <= t /\ t < f[k + 1]
  BY <1>4, <1>8, <1>9
<1>11. f[k + 1] = EndOf(f[k], h)
  <2>1. (k + 1) - 1 = k
    BY <1>9
  <2> QED
    BY <1>2, <1>9, <2>1
<1>12. b <= f[k] /\ f[k + 1] <= EndTime(b)
  BY <1>2, <1>3, <1>6, <1>9
<1>13. f[k] \in ExpectedSources(b, h).starts
  <2>1. f[k] < EndTime(b)
    BY <1>3, <1>4, <1>9, <1>10
  <2> QED
    BY <1>1, <1>9, <2>1 DEF SourceWalk
<1> QED
  BY <1>4, <1>9, <1>10, <1>11, <1>12, <1>13

\* The buckets built are boundaries, and stored candles cover them.
WholeBucket(b, sources, h) ==
    /\ b \in Int /\ StartBoundary(b) = b
    /\ \A t \in b .. EndTime(b) - 1 :
          \E s \in sources : /\ b <= s /\ s <= t /\ t < EndOf(s, h)
                             /\ EndOf(s, h) <= EndTime(b)

\* Every bucket that aggregation builds is whole in that sense.
LEMMA BucketsAreWhole ==
  ASSUME Ordinary(hours), shift \in {-1, 0, 1},
         NEW sources, sources \subseteq Int, NEW h \in Nat \ {0}
  PROVE  \A b \in Aggregated(sources, h) : WholeBucket(b, sources, h)
<1> SUFFICES ASSUME NEW b \in Aggregated(sources, h) PROVE WholeBucket(b, sources, h)
  OBVIOUS
<1>1. hours \in Nat /\ hours >= 1
  BY DEF Ordinary, Granularities
<1>2. b \in Int /\ StartBoundary(b) = b
  BY EverythingFloored DEF Aggregated, StartBoundary
<1>3. /\ ExpectedSources(b, h).tiles
      /\ Members(sources, b) = ExpectedSources(b, h).starts
  BY DEF Aggregated, Complete
<1>4. ASSUME NEW t \in b .. EndTime(b) - 1
      PROVE  \E s \in sources : /\ b <= s /\ s <= t /\ t < EndOf(s, h)
                                /\ EndOf(s, h) <= EndTime(b)
  <2>1. t \in Int /\ b <= t /\ t < EndTime(b)
    BY <1>1, <1>2, EndsAreTimes DEF EndTime
  <2>2. PICK s \in ExpectedSources(b, h).starts :
           b <= s /\ s <= t /\ t < EndOf(s, h) /\ EndOf(s, h) <= EndTime(b)
    BY <1>1, <1>2, <1>3, <2>1, TilesCover
  <2>3. s \in sources
    BY <1>3, <2>2 DEF Members
  <2> QED
    BY <2>2, <2>3
<1> QED
  BY <1>2, <1>4 DEF WholeBucket

\* The boundary after a boundary is the end of its candle.
LEMMA FollowingIsTheEnd ==
  ASSUME Ordinary(hours), shift \in {-1, 0, 1}, NEW b \in Int, StartBoundary(b) = b
  PROVE  Following(b) = EndTime(b)
<1> DEFINE e == EndTime(b)
           After(t) == StartBoundary(t) = t /\ \A u \in b + 1 .. t - 1 : StartBoundary(u) # u
<1>1. hours \in Nat
  BY DEF Ordinary, Granularities
<1>2. /\ e \in b + 1 .. b + hours + 1 /\ StartBoundary(e) = e
      /\ \A u \in b .. e - 1 : StartBoundary(u) = b
  BY EveryCandleEnds DEF StartBoundary, EndTime
<1> HIDE DEF e
<1>3. After(e)
  BY <1>1, <1>2
<1>4. ASSUME NEW t \in b + 1 .. b + hours + 1, After(t) PROVE t = e
  <2>1. ~(t < e)
    BY <1>1, <1>2, <1>4
  <2>2. ~(e < t)
    BY <1>1, <1>2, <1>4
  <2> QED
    BY <1>1, <1>2, <2>1, <2>2
<1>5. Following(b) = CHOOSE t \in b + 1 .. b + hours + 1 : After(t)
  BY DEF Following
<1> HIDE DEF After
<1>6. Following(b) = e
  BY <1>2, <1>3, <1>4, <1>5
<1> QED
  BY <1>6 DEF e

\* What has been aggregated, of candles of a granularity that divides the other.
AggregatesCovered ==
    /\ source = 0 => aggregated = {}
    /\ \A b \in aggregated : WholeBucket(b, stored, source)

\* So every aggregation run leaves them, whatever else steps.
LEMMA AggregationKeeps ==
  ASSUME <<3, 1>> \notin Cases, WalkIInv, AggregatesCovered, [BacktestNext]_backtestVars
  PROVE  AggregatesCovered'
<1>1. Ordinary(hours) /\ shift \in {-1, 0, 1} /\ hours \in Nat /\ hours >= 1
  BY OrdinaryCases DEF WalkIInv
<1>2. UNCHANGED <<hours, shift>>
  BY DEF BacktestNext, WalkNext, NextPage, NextExpected, Aggregate, Load, OnBar,
         backtestVars, walkVars
<1>3. \A b, c, h : WholeBucket(b, c, h)' <=> WholeBucket(b, c, h)
  BY <1>2 DEF WholeBucket, StartBoundary, StartOf, DayStart, EndTime, EndOf, ToWall, FromWall
<1>4. CASE \E h \in Sources : Aggregate(h)
  <2>1. PICK h \in Sources : Aggregate(h)
    BY <1>4
  <2>2. h \in Nat \ {0}
    BY AggregationAssumption
  <2>3. stored' \subseteq Int
    BY <2>1, WalkAssumption DEF Aggregate, SourceGrid, WalkIInv, WalkTyped
  <2>4. source' = h /\ aggregated' = Aggregated(stored', h)
    BY <2>1 DEF Aggregate
  <2>5. \A b \in aggregated' : WholeBucket(b, stored', h)
    BY <1>1, <2>2, <2>3, <2>4, BucketsAreWhole
  <2>6. \A b \in aggregated' : WholeBucket(b, stored, source)'
    BY <1>2, <2>4, <2>5
       DEF WholeBucket, StartBoundary, StartOf, DayStart, EndTime, EndOf, ToWall, FromWall
  <2> QED
    BY <2>2, <2>4, <2>6 DEF AggregatesCovered
<1>5. CASE UNCHANGED aggregationVars
  <2>1. UNCHANGED <<source, stored, aggregated>>
    BY <1>5 DEF aggregationVars
  <2>2. \A b \in aggregated' : WholeBucket(b, stored, source)'
    BY <1>2, <2>1
       DEF AggregatesCovered, WholeBucket, StartBoundary, StartOf, DayStart, EndTime, EndOf,
           ToWall, FromWall
  <2> QED
    BY <2>1, <2>2 DEF AggregatesCovered
<1>6. (\E h \in Sources : Aggregate(h)) \/ UNCHANGED aggregationVars
  BY DEF BacktestNext, Load, OnBar, backtestVars
<1> QED
  BY <1>4, <1>5, <1>6

\* Every candle built by aggregation speaks of all of its time and of no other, of
\* any granularities and over any transition but H3 in spring.
THEOREM TheAggregatesAreWhole ==
  ASSUME <<3, 1>> \notin Cases
  PROVE  BacktestSpec => []AggregatesAreWhole
<1>1. BacktestInit => AggregatesCovered
  BY DEF BacktestInit, AggregationInit, AggregatesCovered
<1>2. WalkIInv /\ AggregatesCovered /\ [BacktestNext]_backtestVars => AggregatesCovered'
  BY AggregationKeeps
<1>3. WalkIInv /\ AggregatesCovered => AggregatesAreWhole
  <2> SUFFICES ASSUME WalkIInv, AggregatesCovered, NEW b \in aggregated
               PROVE  \A t \in b .. Following(b) - 1 :
                         \E s \in stored : /\ b <= s /\ s <= t /\ t < EndOf(s, source)
                                           /\ EndOf(s, source) <= Following(b)
    BY DEF AggregatesAreWhole
  <2>1. WholeBucket(b, stored, source)
    BY DEF AggregatesCovered
  <2>2. Following(b) = EndTime(b)
    BY <2>1, OrdinaryCases, FollowingIsTheEnd DEF WholeBucket, WalkIInv
  <2> QED
    BY <2>1, <2>2 DEF WholeBucket
<1> QED
  BY <1>1, <1>2, <1>3, TheWalkIsTyped, PTL DEF BacktestSpec

-----------------------------------------------------------------------------
(* Folds and filters of sequences (Indicators).                            *)

\* What can be folded: within V, by elements of X.
Foldable(F, V, X) == F \in [V \X X -> V]

\* The values of a fold on its way.
FoldSteps(f, V, F, base, s) ==
    /\ f \in [0 .. Len(s) -> V] /\ f[0] = base
    /\ \A n \in 1 .. Len(s) : f[n] = F[<<f[n - 1], s[n]>>]

\* Folded takes the last of these values.
LEMMA FoldRuns ==
  ASSUME NEW V, NEW X, NEW F, Foldable(F, V, X), NEW base \in V,
         NEW s \in Seq(X)
  PROVE  \E f : FoldSteps(f, V, F, base, s) /\ Folded(F, base, s) = f[Len(s)]
<1> DEFINE L == Len(s)
           G == [z \in (1 .. L) \X V |-> F[<<z[2], s[z[1]]>>]]
           Runs(f) == f = [n \in 0 .. L |-> IF n = 0 THEN base ELSE F[<<f[n - 1], s[n]>>]]
           h == CHOOSE f : Runs(f)
<1>1. L \in Nat /\ \A n \in 1 .. L : s[n] \in X
  OBVIOUS
<1>2. G \in [(1 .. L) \X V -> V]
  BY <1>1 DEF Foldable
<1> HIDE DEF L
<1>3. \A n \in 1 .. L, v \in V : G[<<n, v>>] = F[<<v, s[n]>>]
  OBVIOUS
<1> HIDE DEF G
<1>4. PICK g : Iterates(g, V, G, base, L)
  BY <1>1, <1>2, IterationExists
<1>5. /\ g \in [0 .. L -> V] /\ g[0] = base
      /\ \A n \in 1 .. L : g[n] = G[<<n, g[n - 1]>>]
  BY <1>4 DEF Iterates
<1>6. ASSUME NEW n \in 1 .. L PROVE n - 1 \in 0 .. L /\ g[n] = F[<<g[n - 1], s[n]>>]
  <2>1. n - 1 \in 0 .. L
    BY <1>1
  <2>2. g[n - 1] \in V
    BY <1>5, <2>1
  <2>3. G[<<n, g[n - 1]>>] = F[<<g[n - 1], s[n]>>]
    BY <1>3, <2>2
  <2> QED
    BY <1>5, <2>1, <2>3
<1>7. FoldSteps(g, V, F, base, s)
  BY <1>5, <1>6 DEF FoldSteps, L
<1>8. Runs(g)
  <2>1. ASSUME NEW n \in 0 .. L PROVE g[n] = IF n = 0 THEN base ELSE F[<<g[n - 1], s[n]>>]
    <3>1. CASE n = 0
      BY <1>5, <3>1
    <3>2. CASE n # 0
      <4>1. n \in 1 .. L
        BY <1>1, <3>2
      <4> QED
        BY <1>6, <3>2, <4>1
    <3> QED
      BY <3>1, <3>2
  <2>2. g = [n \in 0 .. L |-> g[n]]
    BY <1>5
  <2> QED
    BY <2>1, <2>2
<1>9. Runs(h)
  <2> HIDE DEF Runs
  <2> QED
    BY <1>8
<1>10. Folded(F, base, s) = h[L]
  BY DEF Folded, L
<1> HIDE DEF h
<1>11. h[L] = g[L]
  <2>1. h[0] = g[0]
    <3>1. 0 \in 0 .. L
      BY <1>1
    <3> QED
      BY <1>5, <1>9, <3>1
  <2>2. ASSUME NEW n \in 1 .. L, h[n - 1] = g[n - 1] PROVE h[n] = g[n]
    <3>1. n \in 0 .. L /\ n # 0
      BY <1>1
    <3>2. h[n] = F[<<h[n - 1], s[n]>>]
      BY <1>9, <3>1
    <3> QED
      BY <1>6, <2>2, <3>2
  <2>3. StepAlike(h, g, L)
    BY <2>1, <2>2 DEF StepAlike
  <2> QED
    BY <1>1, <2>3, SameIteration DEF Alike
<1> QED
  BY <1>7, <1>10, <1>11 DEF L

\* A fold stays within a set that its steps stay within, and goes on where it was.
LEMMA FoldsOn ==
  ASSUME NEW V, NEW X, NEW F, Foldable(F, V, X), NEW base \in V,
         NEW s \in Seq(X)
  PROVE  /\ Folded(F, base, s) \in V
         /\ \A x \in X : Folded(F, base, Append(s, x)) = F[<<Folded(F, base, s), x>>]
<1>1. PICK f : FoldSteps(f, V, F, base, s) /\ Folded(F, base, s) = f[Len(s)]
  BY FoldRuns
<1>2. Folded(F, base, s) \in V
  BY <1>1 DEF FoldSteps
<1>3. ASSUME NEW x \in X
      PROVE  Folded(F, base, Append(s, x)) = F[<<Folded(F, base, s), x>>]
  <2> DEFINE t == Append(s, x)
  <2>1. t \in Seq(X) /\ Len(t) = Len(s) + 1 /\ t[Len(s) + 1] = x
        /\ \A n \in 1 .. Len(s) : t[n] = s[n]
    OBVIOUS
  <2> HIDE DEF t
  <2>2. PICK g : FoldSteps(g, V, F, base, t) /\ Folded(F, base, t) = g[Len(t)]
    BY <2>1, FoldRuns
  <2>3. Len(s) \in Nat
    OBVIOUS
  <2>4. ASSUME NEW n \in 1 .. Len(s), f[n - 1] = g[n - 1] PROVE f[n] = g[n]
    <3>1. n \in 1 .. Len(t) /\ t[n] = s[n]
      BY <2>1, <2>3
    <3>2. f[n] = F[<<f[n - 1], s[n]>>] /\ g[n] = F[<<g[n - 1], t[n]>>]
      BY <1>1, <2>2, <3>1 DEF FoldSteps
    <3> QED
      BY <2>4, <3>1, <3>2
  <2>5. \A n \in 0 .. Len(s) : f[n] = g[n]
    <3>1. f[0] = g[0]
      BY <1>1, <2>2 DEF FoldSteps
    <3>2. StepAlike(f, g, Len(s))
      BY <2>4, <3>1 DEF StepAlike
    <3> QED
      BY <2>3, <3>2, SameIteration DEF Alike
  <2>6. g[Len(t)] = F[<<g[Len(s)], x>>]
    <3>1. Len(t) \in 1 .. Len(t) /\ Len(t) - 1 = Len(s)
      BY <2>1, <2>3
    <3>2. g[Len(t)] = F[<<g[Len(t) - 1], t[Len(t)]>>]
      BY <2>2, <3>1 DEF FoldSteps
    <3> QED
      BY <2>1, <3>1, <3>2
  <2> QED
    BY <1>1, <2>2, <2>3, <2>5, <2>6 DEF t
<1> QED
  BY <1>2, <1>3

\* A fold of nothing is its base.
LEMMA FoldsNothing ==
  ASSUME NEW V, NEW X, NEW F, Foldable(F, V, X), NEW base \in V
  PROVE  Folded(F, base, <<>>) = base
<1> DEFINE e == <<>>
<1>1. e \in Seq(X) /\ Len(e) = 0
  OBVIOUS
<1> HIDE DEF e
<1>2. PICK f : FoldSteps(f, V, F, base, e) /\ Folded(F, base, e) = f[Len(e)]
  BY <1>1, FoldRuns
<1>3. Folded(F, base, e) = base
  BY <1>1, <1>2 DEF FoldSteps
<1> QED
  BY <1>3 DEF e

\* A sequence is built up from its prefixes.
LEMMA PrefixesGrow ==
  ASSUME NEW X, NEW s \in Seq(X)
  PROVE  /\ SubSeq(s, 1, 0) = <<>> /\ SubSeq(s, 1, Len(s)) = s
         /\ \A k \in 0 .. Len(s) : SubSeq(s, 1, k) \in Seq(X)
         /\ \A k \in Nat : k < Len(s) =>
               /\ s[k + 1] \in X
               /\ SubSeq(s, 1, k + 1) = Append(SubSeq(s, 1, k), s[k + 1])
OBVIOUS

\* To show a property of a sequence, show it of the empty one, and of one more
\* element: T is the prefixes that have it.
LEMMA EveryPrefix ==
  ASSUME NEW X, NEW s \in Seq(X), NEW T, <<>> \in T,
         \A k \in Nat : k < Len(s) /\ SubSeq(s, 1, k) \in T => SubSeq(s, 1, k + 1) \in T
  PROVE  \A k \in 0 .. Len(s) : SubSeq(s, 1, k) \in T
<1> DEFINE U == {k \in Nat : k <= Len(s) => SubSeq(s, 1, k) \in T}
<1>1. Len(s) \in Nat
  OBVIOUS
<1>2. 0 \in U
  BY PrefixesGrow
<1>3. ASSUME NEW k \in U PROVE k + 1 \in U
  <2>1. k \in Nat /\ k + 1 \in Nat
    OBVIOUS
  <2>2. ASSUME k + 1 <= Len(s) PROVE SubSeq(s, 1, k + 1) \in T
    <3>1. k < Len(s) /\ SubSeq(s, 1, k) \in T
      BY <1>1, <2>1, <2>2
    <3> QED
      BY <2>1, <3>1
  <2> QED
    BY <2>1, <2>2
<1>4. \A k \in Nat : k \in U
  <2> HIDE DEF U
  <2>1. U \subseteq Nat
    BY DEF U
  <2> QED
    BY <1>2, <1>3, <2>1, Upwards
<1> QED
  BY <1>4

\* Keeping is a fold.
Keep(X, S) == [z \in Seq(X) \X X |-> IF z[2] \in S THEN Append(z[1], z[2]) ELSE z[1]]

Keeps(K, X, S) ==
    /\ Foldable(K, Seq(X), X)
    /\ \A q \in Seq(X), x \in X : K[<<q, x>>] = IF x \in S THEN Append(q, x) ELSE q

\* Keeping an element, or not, can be folded.
LEMMA KeepSteps ==
  ASSUME NEW X, NEW S
  PROVE  Keeps(Keep(X, S), X, S)
BY DEF Keeps, Keep, Foldable

\* Kept is that fold.
LEMMA KeptIsAFold ==
  ASSUME NEW X, NEW S, NEW s \in Seq(X)
  PROVE  Kept(s, S) = Folded(Keep(X, S), <<>>, s)
<1> DEFINE L == Len(s)
           Runs(f) == f = [n \in 0 .. L |-> IF n = 0 THEN <<>>
                                            ELSE IF s[n] \in S THEN Append(f[n - 1], s[n])
                                                 ELSE f[n - 1]]
           h == CHOOSE f : Runs(f)
<1> DEFINE K == Keep(X, S)
           e == <<>>
<1>0. Keeps(K, X, S) /\ e \in Seq(X)
  BY KeepSteps
<1> HIDE DEF K, e
<1>1. PICK f : FoldSteps(f, Seq(X), K, e, s) /\ Folded(K, e, s) = f[L]
  BY <1>0, FoldRuns DEF Keeps
<1>2. L \in Nat /\ \A n \in 1 .. L : s[n] \in X /\ n - 1 \in 0 .. L
  OBVIOUS
<1>3. /\ f \in [0 .. L -> Seq(X)] /\ f[0] = <<>>
      /\ \A n \in 1 .. L : f[n] = K[<<f[n - 1], s[n]>>]
  BY <1>1 DEF FoldSteps, e
<1> HIDE DEF L
<1>4. ASSUME NEW n \in 1 .. L
      PROVE  f[n] = IF s[n] \in S THEN Append(f[n - 1], s[n]) ELSE f[n - 1]
  <2>1. s[n] \in X /\ f[n - 1] \in Seq(X)
    BY <1>2, <1>3
  <2> QED
    BY <1>0, <1>3, <2>1 DEF Keeps
<1>5. Runs(f)
  <2>1. ASSUME NEW n \in 0 .. L
        PROVE  f[n] = IF n = 0 THEN <<>>
                      ELSE IF s[n] \in S THEN Append(f[n - 1], s[n]) ELSE f[n - 1]
    <3>1. n = 0 \/ n \in 1 .. L
      BY <1>2
    <3> QED
      BY <1>3, <1>4, <3>1
  <2>2. f = [n \in 0 .. L |-> f[n]]
    BY <1>3
  <2> QED
    BY <2>1, <2>2
<1>6. Runs(h)
  <2> HIDE DEF Runs
  <2> QED
    BY <1>5
<1>7. Kept(s, S) = h[L]
  BY DEF Kept, L
<1> HIDE DEF h
<1>8. h[0] = f[0]
  <2>1. 0 \in 0 .. L
    BY <1>2
  <2> QED
    BY <1>3, <1>6, <2>1
<1>9. ASSUME NEW n \in 1 .. L, h[n - 1] = f[n - 1] PROVE h[n] = f[n]
  <2>1. n \in 0 .. L /\ n # 0
    BY <1>2
  <2>2. h[n] = IF s[n] \in S THEN Append(h[n - 1], s[n]) ELSE h[n - 1]
    BY <1>6, <2>1
  <2> QED
    BY <1>4, <1>9, <2>2
<1>10. StepAlike(h, f, L)
  BY <1>8, <1>9 DEF StepAlike
<1> QED
  BY <1>1, <1>2, <1>7, <1>10, SameIteration DEF Alike, K, e

\* What is kept of a sequence and one more element.
LEMMA KeptOn ==
  ASSUME NEW X, NEW S, NEW s \in Seq(X)
  PROVE  /\ Kept(s, S) \in Seq(X) /\ Kept(<<>>, S) = <<>>
         /\ \A x \in X : Kept(Append(s, x), S)
                            = IF x \in S THEN Append(Kept(s, S), x) ELSE Kept(s, S)
<1> DEFINE K == Keep(X, S)
           e == <<>>
<1>1. Keeps(K, X, S) /\ e \in Seq(X)
  BY KeepSteps
<1>2. \A q \in Seq(X) : Kept(q, S) = Folded(K, e, q)
  BY KeptIsAFold
<1> HIDE DEF K, e
<1>3. /\ Folded(K, e, s) \in Seq(X)
      /\ \A x \in X : Folded(K, e, Append(s, x)) = K[<<Folded(K, e, s), x>>]
  BY <1>1, FoldsOn DEF Keeps
<1>4. Folded(K, e, <<>>) = e
  BY <1>1, FoldsNothing DEF Keeps
<1>5. ASSUME NEW x \in X
      PROVE  Kept(Append(s, x), S) = IF x \in S THEN Append(Kept(s, S), x) ELSE Kept(s, S)
  <2>1. Append(s, x) \in Seq(X)
    OBVIOUS
  <2> QED
    BY <1>1, <1>2, <1>3, <2>1 DEF Keeps
<1> QED
  <2>1. <<>> \in Seq(X)
    OBVIOUS
  <2> QED
    BY <1>2, <1>3, <1>4, <1>5, <2>1 DEF e

\* The ends of a sequence that grows.
LEMMA GrowingEnds ==
  ASSUME NEW X, NEW s \in Seq(X), NEW x \in X, NEW p \in Nat, p <= Len(s)
  PROVE  /\ Append(s, x) \in Seq(X) /\ Len(Append(s, x)) = Len(s) + 1
         /\ SubSeq(Append(s, x), 1, p) = SubSeq(s, 1, p)
         /\ SubSeq(s, p + 1, Len(s)) \in Seq(X)
         /\ SubSeq(Append(s, x), p + 1, Len(s) + 1) = Append(SubSeq(s, p + 1, Len(s)), x)
         /\ SubSeq(s, Len(s) + 1, Len(s)) = <<>>
<1>1. Append(s, x) \in Seq(X) /\ Len(Append(s, x)) = Len(s) + 1 /\ Len(s) \in Nat
  OBVIOUS
<1>2. SubSeq(Append(s, x), 1, p) = SubSeq(s, 1, p)
  OBVIOUS
<1>3. SubSeq(s, p + 1, Len(s)) \in Seq(X)
  OBVIOUS
<1>4. SubSeq(Append(s, x), p + 1, Len(s) + 1) = Append(SubSeq(s, p + 1, Len(s)), x)
  <2> DEFINE L == Len(s)
             a == SubSeq(Append(s, x), p + 1, L + 1)
             b == SubSeq(s, p + 1, L)
  <2>1. /\ a \in Seq(X) /\ Len(a) = L + 1 - p
        /\ \A i \in 1 .. L + 1 - p : a[i] = Append(s, x)[p + i]
    OBVIOUS
  <2>2. b \in Seq(X) /\ Len(b) = L - p /\ \A i \in 1 .. L - p : b[i] = s[p + i]
    OBVIOUS
  <2>3. /\ L \in Nat /\ Append(s, x)[L + 1] = x
        /\ \A i \in 1 .. L : Append(s, x)[i] = s[i]
    OBVIOUS
  <2> HIDE DEF L, a, b
  <2>4. Append(b, x) \in Seq(X) /\ Len(Append(b, x)) = L + 1 - p
    <3>1. Append(b, x) \in Seq(X) /\ Len(Append(b, x)) = Len(b) + 1
      BY <2>2
    <3> QED
      BY <2>2, <2>3, <3>1
  <2>5. ASSUME NEW i \in 1 .. L + 1 - p PROVE a[i] = Append(b, x)[i]
    <3>1. CASE i = L + 1 - p
      <4>1. p + i = L + 1
        BY <2>3, <3>1
      <4>2. Append(b, x)[i] = x
        BY <2>2, <2>3, <3>1
      <4> QED
        BY <2>1, <2>3, <4>1, <4>2
    <3>2. CASE i # L + 1 - p
      <4>1. i \in 1 .. L - p /\ p + i \in 1 .. L
        BY <2>3, <3>2
      <4>2. Append(b, x)[i] = b[i]
        BY <2>2, <4>1
      <4> QED
        BY <2>1, <2>2, <2>3, <4>1, <4>2
    <3> QED
      BY <3>1, <3>2
  <2>6. a = Append(b, x)
    BY <2>1, <2>4, <2>5
  <2> QED
    BY <2>6 DEF a, b, L
<1>5. SubSeq(s, Len(s) + 1, Len(s)) = <<>>
  OBVIOUS
<1> QED
  BY <1>1, <1>2, <1>3, <1>4, <1>5

\* Where two sets agree on the elements, the same is kept.
LEMMA KeptAlike ==
  ASSUME NEW X, NEW S, NEW U, NEW s \in Seq(X),
         \A n \in 1 .. Len(s) : s[n] \in S <=> s[n] \in U
  PROVE  Kept(s, S) = Kept(s, U)
<1> DEFINE T == {q \in Seq(X) : Kept(q, S) = Kept(q, U)}
<1>1. <<>> \in T
  <2>1. <<>> \in Seq(X)
    OBVIOUS
  <2> QED
    BY <2>1, KeptOn
<1>2. ASSUME NEW k \in Nat, k < Len(s), SubSeq(s, 1, k) \in T PROVE SubSeq(s, 1, k + 1) \in T
  <2> DEFINE q == SubSeq(s, 1, k)
             x == s[k + 1]
  <2>1. SubSeq(s, 1, k + 1) = Append(q, x) /\ q \in Seq(X) /\ x \in X
    BY <1>2, PrefixesGrow
  <2>2. x \in S <=> x \in U
    BY <1>2
  <2>3. Append(q, x) \in Seq(X)
    BY <2>1
  <2> HIDE DEF q, x
  <2>4. Kept(q, S) = Kept(q, U)
    BY <1>2 DEF q
  <2>5. Kept(Append(q, x), S) = Kept(Append(q, x), U)
    <3>1. /\ Kept(Append(q, x), S) = IF x \in S THEN Append(Kept(q, S), x) ELSE Kept(q, S)
          /\ Kept(Append(q, x), U) = IF x \in U THEN Append(Kept(q, U), x) ELSE Kept(q, U)
      BY <2>1, KeptOn
    <3> QED
      BY <2>2, <2>4, <3>1
  <2> QED
    BY <2>1, <2>3, <2>5
<1> HIDE DEF T
<1>3. SubSeq(s, 1, Len(s)) \in T
  BY <1>1, <1>2, EveryPrefix
<1> QED
  BY <1>3, PrefixesGrow DEF T

\* Nothing is kept of an end without elements in the set.
LEMMA KeptOfPrefix ==
  ASSUME NEW X, NEW S, NEW s \in Seq(X), NEW m \in 0 .. Len(s),
         \A n \in m + 1 .. Len(s) : s[n] \notin S
  PROVE  Kept(s, S) = Kept(SubSeq(s, 1, m), S)
<1> DEFINE L == Len(s)
           Same(k) == Kept(SubSeq(s, 1, k), S) = Kept(SubSeq(s, 1, m), S)
           T == {d \in Nat : m + d <= L => Same(m + d)}
<1>1. L \in Nat /\ m \in Nat
  OBVIOUS
<1>2. 0 \in T
  BY <1>1
<1>3. ASSUME NEW d \in T PROVE d + 1 \in T
  <2>1. d \in Nat /\ m + (d + 1) = (m + d) + 1
    BY <1>1
  <2>2. ASSUME m + (d + 1) <= L PROVE Same(m + (d + 1))
    <3> DEFINE k == m + d
               q == SubSeq(s, 1, k)
               x == s[k + 1]
    <3>1. k \in Nat /\ k < L /\ k + 1 \in m + 1 .. L
      BY <1>1, <2>1, <2>2
    <3>2. SubSeq(s, 1, k + 1) = Append(q, x) /\ q \in Seq(X) /\ x \in X /\ x \notin S
      BY <3>1, PrefixesGrow
    <3>3. Same(k)
      BY <2>1, <3>1
    <3> HIDE DEF q, x
    <3>4. Kept(Append(q, x), S) = Kept(q, S)
      BY <3>2, KeptOn
    <3> QED
      BY <2>1, <3>2, <3>3, <3>4 DEF q
  <2> QED
    BY <2>1, <2>2
<1> HIDE DEF T
<1>4. \A d \in Nat : d \in T
  <2>1. T \subseteq Nat
    BY DEF T
  <2> QED
    BY <1>2, <1>3, <2>1, Upwards
<1>5. Same(L)
  <2>1. L - m \in Nat /\ m + (L - m) = L
    BY <1>1
  <2>2. L - m \in T
    BY <1>4, <2>1
  <2> QED
    BY <1>1, <2>1, <2>2 DEF T
<1> QED
  BY <1>5, PrefixesGrow

\* Kept twice is kept once, of what both sets hold.
LEMMA KeptTwice ==
  ASSUME NEW X, NEW S, NEW U, NEW s \in Seq(X)
  PROVE  Kept(Kept(s, S), U) = Kept(s, S \cap U)
<1> DEFINE T == {q \in Seq(X) : Kept(Kept(q, S), U) = Kept(q, S \cap U)}
<1>1. <<>> \in T
  <2>1. <<>> \in Seq(X)
    OBVIOUS
  <2> QED
    BY <2>1, KeptOn
<1>2. ASSUME NEW k \in Nat, k < Len(s), SubSeq(s, 1, k) \in T PROVE SubSeq(s, 1, k + 1) \in T
  <2> DEFINE q == SubSeq(s, 1, k)
             x == s[k + 1]
  <2>1. SubSeq(s, 1, k + 1) = Append(q, x) /\ q \in Seq(X) /\ x \in X
    BY <1>2, PrefixesGrow
  <2>2. Append(q, x) \in Seq(X)
    BY <2>1
  <2> HIDE DEF q, x
  <2>3. Kept(Kept(q, S), U) = Kept(q, S \cap U)
    BY <1>2 DEF q
  <2>4. Kept(q, S) \in Seq(X)
    BY <2>1, KeptOn
  <2>5. Kept(Append(q, x), S) = IF x \in S THEN Append(Kept(q, S), x) ELSE Kept(q, S)
    BY <2>1, KeptOn
  <2>6. Kept(Append(Kept(q, S), x), U)
           = IF x \in U THEN Append(Kept(Kept(q, S), U), x) ELSE Kept(Kept(q, S), U)
    BY <2>1, <2>4, KeptOn
  <2>7. Kept(Append(q, x), S \cap U)
           = IF x \in S \cap U THEN Append(Kept(q, S \cap U), x) ELSE Kept(q, S \cap U)
    BY <2>1, KeptOn
  <2>8. Kept(Kept(Append(q, x), S), U) = Kept(Append(q, x), S \cap U)
    <3>1. CASE x \in S
      <4>1. Kept(Append(q, x), S) = Append(Kept(q, S), x)
        BY <2>5, <3>1
      <4>2. x \in U <=> x \in S \cap U
        BY <3>1
      <4> QED
        BY <2>3, <2>6, <2>7, <4>1, <4>2
    <3>2. CASE x \notin S
      BY <2>3, <2>5, <2>7, <3>2
    <3> QED
      BY <3>1, <3>2
  <2> QED
    BY <2>1, <2>2, <2>8
<1> HIDE DEF T
<1>3. SubSeq(s, 1, Len(s)) \in T
  BY <1>1, <1>2, EveryPrefix
<1> QED
  BY <1>3, PrefixesGrow DEF T

-----------------------------------------------------------------------------
(* Averages: what is remembered is the average of all that was said.       *)

\* Integers can be summed.
LEMMA TotalStep == Foldable([z \in Int \X Int |-> z[1] + z[2]], Int, Int)
BY DEF Foldable

\* A sum goes on.
LEMMA TotalOn ==
  ASSUME NEW s \in Seq(Int)
  PROVE  /\ Total(s) \in Int /\ Total(<<>>) = 0
         /\ \A x \in Int : Total(Append(s, x)) = Total(s) + x
<1> DEFINE F == [z \in Int \X Int |-> z[1] + z[2]]
<1>1. \A v \in Int, x \in Int : F[<<v, x>>] = v + x
  OBVIOUS
<1>2. Foldable(F, Int, Int)
  BY TotalStep
<1>3. \A q : Total(q) = Folded(F, 0, q)
  BY DEF Total
<1> DEFINE Z == Int
           o == 0
<1>4. Foldable(F, Z, Z) /\ o \in Z /\ s \in Seq(Z)
  BY <1>2
<1> HIDE DEF F, Z, o
<1>5. /\ Folded(F, o, s) \in Z /\ Folded(F, o, <<>>) = o
      /\ \A x \in Z : Folded(F, o, Append(s, x)) = F[<<Folded(F, o, s), x>>]
  BY <1>4, FoldsOn, FoldsNothing
<1> QED
  BY <1>1, <1>3, <1>5 DEF Z, o

\* An average seeded by the mean of its first p values.
Seeded(F, s, p) == Folded(F, Mean(SubSeq(s, 1, p)), SubSeq(s, p + 1, Len(s)))

\* A mean is an integer.
LEMMA MeanIsAnInteger ==
  ASSUME NEW s \in Seq(Int), Len(s) # 0
  PROVE  Mean(s) \in Int
<1>1. Len(s) \in Nat /\ Len(s) > 0 /\ Total(s) \in Int
  BY TotalOn
<1> QED
  BY <1>1 DEF Mean

\* It starts as the mean, and goes on value by value.
LEMMA SeededOn ==
  ASSUME NEW F, Foldable(F, Int, Int), NEW p \in Nat, p > 0, NEW s \in Seq(Int), p <= Len(s)
  PROVE  /\ Seeded(F, s, p) \in Int
         /\ Len(s) = p => Seeded(F, s, p) = Mean(s)
         /\ \A x \in Int : Seeded(F, Append(s, x), p) = F[<<Seeded(F, s, p), x>>]
<1> DEFINE first == SubSeq(s, 1, p)
           rest == SubSeq(s, p + 1, Len(s))
<1>1. first \in Seq(Int) /\ Len(first) = p /\ rest \in Seq(Int)
  OBVIOUS
<1>2. Mean(first) \in Int
  <2> HIDE DEF first
  <2>1. Len(first) # 0
    BY <1>1
  <2> QED
    BY <1>1, <2>1, MeanIsAnInteger
<1>3. ASSUME Len(s) = p PROVE first = s /\ rest = <<>>
  BY <1>3, PrefixesGrow, GrowingEnds
<1>4. ASSUME NEW x \in Int
      PROVE  /\ SubSeq(Append(s, x), 1, p) = first
             /\ SubSeq(Append(s, x), p + 1, Len(Append(s, x))) = Append(rest, x)
  <2>1. Len(Append(s, x)) = Len(s) + 1
    OBVIOUS
  <2>2. SubSeq(Append(s, x), 1, p) = first
    BY GrowingEnds
  <2>3. SubSeq(Append(s, x), p + 1, Len(s) + 1) = Append(rest, x)
    BY GrowingEnds
  <2> QED
    BY <2>1, <2>2, <2>3
<1> HIDE DEF first, rest
<1>5. \A x \in Int : Seeded(F, Append(s, x), p) = Folded(F, Mean(first), Append(rest, x))
  BY <1>4 DEF Seeded
<1>6. Seeded(F, s, p) = Folded(F, Mean(first), rest)
  BY DEF Seeded, first, rest
<1> DEFINE Z == Int
           m == Mean(first)
<1>7. Foldable(F, Z, Z) /\ m \in Z /\ rest \in Seq(Z)
  BY <1>1, <1>2
<1> HIDE DEF Z, m
<1>8. /\ Folded(F, m, rest) \in Z /\ Folded(F, m, <<>>) = m
      /\ \A x \in Z : Folded(F, m, Append(rest, x)) = F[<<Folded(F, m, rest), x>>]
  BY <1>7, FoldsOn, FoldsNothing
<1> QED
  BY <1>3, <1>5, <1>6, <1>8 DEF Z, m

\* A smoothed value is one.
SmoothStep(p) == [z \in Int \X Int |-> Smoothed(z[1], z[2], p)]

\* Smoothing can be folded.
LEMMA SmoothSteps ==
  ASSUME NEW p \in Nat, p > 0
  PROVE  /\ Foldable(SmoothStep(p), Int, Int)
         /\ \A v \in Int, c \in Int : SmoothStep(p)[<<v, c>>] = Smoothed(v, c, p)
<1>1. (2 * Scale) \div (p + 1) \in Int
  BY DEF Scale
<1>2. \A a \in Int, b \in Int : Times(a, b) \in Int
  BY DEF Times, Scale
<1>3. \A v \in Int, c \in Int : Smoothed(v, c, p) \in Int
  BY <1>1, <1>2 DEF Smoothed, Scale
<1> QED
  BY <1>3 DEF SmoothStep, Foldable

\* The exponential average goes on from its last value, and begins with a mean.
LEMMA EmaGoesOn ==
  ASSUME NEW p \in Nat, p > 0, NEW s \in Seq(Int), p <= Len(s)
  PROVE  /\ Ema(s, p) \in Int
         /\ Len(s) = p => Ema(s, p) = Mean(s)
         /\ \A c \in Int : Ema(Append(s, c), p) = Smoothed(Ema(s, p), c, p)
<1> DEFINE F == SmoothStep(p)
<1>1. Foldable(F, Int, Int) /\ \A v \in Int, c \in Int : F[<<v, c>>] = Smoothed(v, c, p)
  BY SmoothSteps
<1>2. \A q : Ema(q, p) = Seeded(F, q, p)
  BY DEF Ema, Seeded, SmoothStep
<1> HIDE DEF F
<1>3. /\ Seeded(F, s, p) \in Int
      /\ Len(s) = p => Seeded(F, s, p) = Mean(s)
      /\ \A c \in Int : Seeded(F, Append(s, c), p) = F[<<Seeded(F, s, p), c>>]
  BY <1>1, SeededOn
<1> QED
  BY <1>1, <1>2, <1>3

\* What IncrementalSmaSeededEma keeps of the closes s.
EmaMemory(p, s) ==
    IF Len(s) < p THEN [buffer |-> s, value |-> {}] ELSE [buffer |-> <<>>, value |-> {Ema(s, p)}]

\* Its update keeps that up: it is Ema of all closes, when there are enough.
LEMMA EmaRemembers ==
  ASSUME NEW p \in Nat, p > 0, NEW s \in Seq(Int), NEW c \in Int
  PROVE  EmaOn(EmaMemory(p, s), p, c) = EmaMemory(p, Append(s, c))
<1> DEFINE t == Append(s, c)
<1>1. t \in Seq(Int) /\ Len(t) = Len(s) + 1 /\ Len(s) \in Nat
  OBVIOUS
<1>2. CASE p <= Len(s)
  <2>1. EmaMemory(p, s) = [buffer |-> <<>>, value |-> {Ema(s, p)}]
    BY <1>1, <1>2 DEF EmaMemory
  <2>2. EmaMemory(p, t) = [buffer |-> <<>>, value |-> {Ema(t, p)}]
    BY <1>1, <1>2 DEF EmaMemory
  <2>3. Some({Ema(s, p)}) = Ema(s, p)
    BY DEF Some
  <2>4. Ema(t, p) = Smoothed(Ema(s, p), c, p)
    BY <1>2, EmaGoesOn
  <2> DEFINE m == [buffer |-> <<>>, value |-> {Ema(s, p)}]
  <2>5. EmaOn(m, p, c) = [m EXCEPT !.value = {Smoothed(Some(m.value), c, p)}]
    BY DEF EmaOn
  <2>6. EmaOn(m, p, c) = [buffer |-> <<>>, value |-> {Smoothed(Ema(s, p), c, p)}]
    BY <2>3, <2>5
  <2> QED
    BY <2>1, <2>2, <2>4, <2>6
<1>3. CASE Len(s) < p
  <2>1. EmaMemory(p, s) = [buffer |-> s, value |-> {}]
    BY <1>3 DEF EmaMemory
  <2>2. CASE Len(t) < p
    <3>1. EmaMemory(p, t) = [buffer |-> t, value |-> {}]
      BY <2>2 DEF EmaMemory
    <3>2. EmaOn([buffer |-> s, value |-> {}], p, c) = [buffer |-> t, value |-> {}]
      BY <2>2 DEF EmaOn
    <3> QED
      BY <2>1, <3>1, <3>2
  <2>3. CASE ~(Len(t) < p)
    <3>1. Len(t) = p
      BY <1>1, <1>3, <2>3
    <3> HIDE DEF t
    <3>2. Ema(t, p) = Mean(t)
      BY <1>1, <3>1, EmaGoesOn
    <3>3. EmaMemory(p, t) = [buffer |-> <<>>, value |-> {Mean(t)}]
      BY <2>3, <3>2 DEF EmaMemory
    <3> QED
      BY <2>1, <2>3, <3>3 DEF EmaOn, t
  <2> QED
    BY <2>2, <2>3
<1> QED
  BY <1>1, <1>2, <1>3

\* Before the first close it is the one of a strategy that was reset.
LEMMA EmaMemoryStarts ==
  ASSUME NEW p \in Nat, p > 0
  PROVE  EmaMemory(p, <<>>) = NewEma
BY DEF EmaMemory, NewEma

\* It is a state, of which the value is there from the p-th close on.
LEMMA EmaMemoryIs ==
  ASSUME NEW p \in Nat, p > 0, NEW s \in Seq(Int)
  PROVE  /\ EmaMemory(p, s) \in EmaState
         /\ EmaMemory(p, s).value = IF Len(s) < p THEN {} ELSE {Ema(s, p)}
<1>1. CASE Len(s) < p
  BY <1>1 DEF EmaMemory, EmaState
<1>2. CASE ~(Len(s) < p)
  <2>1. p <= Len(s)
    BY <1>2
  <2>2. Ema(s, p) \in Int
    BY <2>1, EmaGoesOn
  <2> QED
    BY <1>2, <2>2 DEF EmaMemory, EmaState
<1> QED
  BY <1>1, <1>2

-----------------------------------------------------------------------------
(* Bars, and what is said of them one by one.                              *)

\* A sequence given by a function of its indices, taken apart.
LEMMA FunctionIsASequence ==
  ASSUME NEW X, NEW n \in Nat, NEW f \in [1 .. n -> X]
  PROVE  f \in Seq(X) /\ Len(f) = n
OBVIOUS

\* Its last element, taken off.
LEMMA LastOfAFunction ==
  ASSUME NEW X, NEW n \in Nat, NEW f \in [1 .. n + 1 -> X]
  PROVE  f = Append([i \in 1 .. n |-> f[i]], f[n + 1])
<1> DEFINE g == [i \in 1 .. n |-> f[i]]
           h == Append(g, f[n + 1])
<1>1. g \in [1 .. n -> X] /\ f[n + 1] \in X
  OBVIOUS
<1>2. g \in Seq(X) /\ Len(g) = n /\ f \in Seq(X) /\ Len(f) = n + 1
  BY <1>1, FunctionIsASequence
<1>3. h \in Seq(X) /\ Len(h) = n + 1 /\ h[n + 1] = f[n + 1]
  BY <1>1, <1>2
<1>4. ASSUME NEW i \in 1 .. n PROVE h[i] = f[i]
  BY <1>2
<1> HIDE DEF h
<1>5. \A i \in 1 .. n + 1 : h[i] = f[i]
  BY <1>3, <1>4
<1>6. h = f
  BY <1>2, <1>3, <1>5
<1> QED
  BY <1>6 DEF h

\* The greatest of three.
LEMMA MaxOfThree ==
  ASSUME NEW a \in Int, NEW b \in Int, NEW c \in Int
  PROVE  Max({a, b, c}) \in Int
<1>1. \E x \in {a, b, c} : \A y \in {a, b, c} : x >= y
  OBVIOUS
<1>2. Max({a, b, c}) \in {a, b, c}
  BY <1>1 DEF Max
<1> QED
  BY <1>2

\* The prices of a bar are natural numbers, and its ranges are numbers.
LEMMA BarsHavePrices ==
  ASSUME NEW b \in Bar
  PROVE  /\ b.open \in Nat /\ b.high \in Nat /\ b.low \in Nat /\ b.close \in Nat
         /\ \A c \in Int : TrueRange(b, c) \in Int
<1>1. b.open \in Nat /\ b.high \in Nat /\ b.low \in Nat /\ b.close \in Nat
  BY DEF Bar
<1>2. ASSUME NEW c \in Int PROVE TrueRange(b, c) \in Int
  <2>1. \A x \in Int : Abs(x) \in Int
    BY DEF Abs
  <2>2. b.high - b.low \in Int /\ Abs(b.high - c) \in Int /\ Abs(b.low - c) \in Int
    BY <1>1, <2>1
  <2> QED
    BY <2>2, MaxOfThree DEF TrueRange
<1> QED
  BY <1>1, <1>2

\* The closes of a growing series, of candles of any kind.
ClosesIn(X) == \A c \in X : c.close \in Int

\* One close more, for one candle more.
LEMMA AnyClosesGrow ==
  ASSUME NEW X, ClosesIn(X), NEW s \in Seq(X)
  PROVE  /\ Closes(s) \in Seq(Int) /\ Len(Closes(s)) = Len(s) /\ Closes(<<>>) = <<>>
         /\ \A b \in X : Closes(Append(s, b)) = Append(Closes(s), b.close)
<1>1. \A q \in Seq(X) : Closes(q) \in [1 .. Len(q) -> Int] /\ Len(q) \in Nat
  <2> SUFFICES ASSUME NEW q \in Seq(X) PROVE Closes(q) \in [1 .. Len(q) -> Int]
    OBVIOUS
  <2>1. ASSUME NEW i \in 1 .. Len(q) PROVE q[i].close \in Int
    <3>1. q[i] \in X
      OBVIOUS
    <3> QED
      BY <3>1 DEF ClosesIn
  <2> QED
    BY <2>1 DEF Closes
<1>2. Closes(s) \in Seq(Int) /\ Len(Closes(s)) = Len(s)
  BY <1>1, FunctionIsASequence
<1>3. ASSUME NEW b \in X PROVE Closes(Append(s, b)) = Append(Closes(s), b.close)
  <2> DEFINE t == Append(s, b)
             f == Closes(t)
             n == Len(s)
  <2>1. /\ t \in Seq(X) /\ Len(t) = n + 1 /\ n \in Nat /\ t[n + 1] = b
        /\ \A i \in 1 .. n : t[i] = s[i]
    OBVIOUS
  <2>2. f \in [1 .. n + 1 -> Int]
    BY <1>1, <2>1
  <2>3. \A i \in 1 .. n + 1 : f[i] = t[i].close
    BY <2>1 DEF Closes
  <2>4. Closes(s) = [i \in 1 .. n |-> s[i].close]
    BY DEF Closes
  <2> HIDE DEF f, t, n
  <2>5. [i \in 1 .. n |-> f[i]] = [i \in 1 .. n |-> s[i].close]
    BY <2>1, <2>3
  <2>6. f[n + 1] = b.close
    BY <2>1, <2>3
  <2>7. f = Append([i \in 1 .. n |-> f[i]], f[n + 1])
    BY <2>1, <2>2, LastOfAFunction
  <2>8. f = Append(Closes(s), b.close)
    BY <2>4, <2>5, <2>6, <2>7
  <2> QED
    BY <2>8 DEF f, t
<1>4. Closes(<<>>) = <<>>
  BY DEF Closes
<1> QED
  BY <1>2, <1>3, <1>4

\* The closes of a growing series of bars.
LEMMA ClosesGrow ==
  ASSUME NEW s \in Seq(Bar)
  PROVE  /\ Closes(s) \in Seq(Int) /\ Len(Closes(s)) = Len(s) /\ Closes(<<>>) = <<>>
         /\ \A b \in Bar : Closes(Append(s, b)) = Append(Closes(s), b.close)
<1>1. ClosesIn(Bar)
  <2>1. \A c \in Bar : c.close \in Nat
    BY BarsHavePrices
  <2> QED
    BY <2>1 DEF ClosesIn
<1>2. Closes(s) \in Seq(Int) /\ Len(Closes(s)) = Len(s) /\ Closes(<<>>) = <<>>
  BY <1>1, AnyClosesGrow
<1>3. \A b \in Bar : Closes(Append(s, b)) = Append(Closes(s), b.close)
  BY <1>1, AnyClosesGrow
<1> QED
  BY <1>2, <1>3

\* The true ranges of a growing series: a bar and the close before it.
LEMMA RangesGrow ==
  ASSUME NEW s \in Seq(Bar), s # <<>>
  PROVE  /\ Ranges(s) \in Seq(Int) /\ Len(Ranges(s)) = Len(s) - 1
         /\ \A b \in Bar : Ranges(Append(s, b))
                              = Append(Ranges(s), TrueRange(b, s[Len(s)].close))
<1>0. Len(s) \in Nat \ {0}
  OBVIOUS
<1>1. ASSUME NEW q \in Seq(Bar), Len(q) # 0
      PROVE  Ranges(q) \in [1 .. Len(q) - 1 -> Int] /\ Len(q) - 1 \in Nat
  <2>1. ASSUME NEW i \in 1 .. Len(q) - 1 PROVE TrueRange(q[i + 1], q[i].close) \in Int
    <3>1. i + 1 \in 1 .. Len(q) /\ i \in 1 .. Len(q)
      BY <2>1
    <3>2. q[i + 1] \in Bar /\ q[i] \in Bar
      BY <3>1
    <3>3. q[i].close \in Int
      <4>1. \A x \in Bar : x.close \in Nat
        BY BarsHavePrices
      <4> QED
        BY <3>2, <4>1
    <3> QED
      BY <3>2, <3>3, BarsHavePrices
  <2> QED
    BY <1>1, <2>1 DEF Ranges
<1>2. Ranges(s) \in Seq(Int) /\ Len(Ranges(s)) = Len(s) - 1
  <2>1. Ranges(s) \in [1 .. Len(s) - 1 -> Int] /\ Len(s) - 1 \in Nat
    BY <1>0, <1>1
  <2> QED
    BY <2>1, FunctionIsASequence
<1>3. ASSUME NEW b \in Bar
      PROVE  Ranges(Append(s, b)) = Append(Ranges(s), TrueRange(b, s[Len(s)].close))
  <2> DEFINE t == Append(s, b)
             f == Ranges(t)
             n == Len(s) - 1
  <2>1. /\ t \in Seq(Bar) /\ Len(t) = (n + 1) + 1 /\ n \in Nat /\ t[(n + 1) + 1] = b
        /\ \A i \in 1 .. n + 1 : t[i] = s[i]
    BY <1>0
  <2>2. f \in [1 .. n + 1 -> Int]
    <3> HIDE DEF t, n
    <3>1. Len(t) # 0 /\ Len(t) - 1 = n + 1
      BY <2>1
    <3> QED
      BY <1>1, <2>1, <3>1
  <2>3. \A i \in 1 .. n + 1 : f[i] = TrueRange(t[i + 1], t[i].close)
    BY <2>1 DEF Ranges
  <2>4. Ranges(s) = [i \in 1 .. n |-> TrueRange(s[i + 1], s[i].close)]
    BY DEF Ranges
  <2>5. Len(s) = n + 1
    BY <1>0
  <2> HIDE DEF f, t, n
  <2>6. [i \in 1 .. n |-> f[i]] = [i \in 1 .. n |-> TrueRange(s[i + 1], s[i].close)]
    <3>1. ASSUME NEW i \in 1 .. n PROVE f[i] = TrueRange(s[i + 1], s[i].close)
      <4>1. i \in 1 .. n + 1 /\ i + 1 \in 1 .. n + 1
        BY <2>1
      <4> QED
        BY <2>1, <2>3, <4>1
    <3> QED
      BY <3>1
  <2>7. f[n + 1] = TrueRange(b, s[Len(s)].close)
    <3>1. n + 1 \in 1 .. n + 1
      BY <2>1
    <3> QED
      BY <2>1, <2>3, <2>5, <3>1
  <2>8. f = Append([i \in 1 .. n |-> f[i]], f[n + 1])
    BY <2>1, <2>2, LastOfAFunction
  <2>9. f = Append(Ranges(s), TrueRange(b, s[Len(s)].close))
    BY <2>4, <2>6, <2>7, <2>8
  <2> QED
    BY <2>9 DEF f, t
<1> QED
  BY <1>2, <1>3

-----------------------------------------------------------------------------
(* The average true range, remembered.                                     *)

WilderStep(p) == [z \in Int \X Int |-> Wilder(z[1], z[2], p)]

\* Wilder's smoothing can be folded.
LEMMA WilderSteps ==
  ASSUME NEW p \in Nat, p > 0
  PROVE  /\ Foldable(WilderStep(p), Int, Int)
         /\ \A v \in Int, x \in Int : WilderStep(p)[<<v, x>>] = Wilder(v, x, p)
<1>1. \A v \in Int, x \in Int : Wilder(v, x, p) \in Int
  <2> SUFFICES ASSUME NEW v \in Int, NEW x \in Int PROVE Wilder(v, x, p) \in Int
    OBVIOUS
  <2>1. (p - 1) * v + x \in Int
    OBVIOUS
  <2> QED
    BY <2>1 DEF Wilder
<1> QED
  BY <1>1 DEF WilderStep, Foldable

\* Wilder's average goes on from its last value, and begins with a mean.
LEMMA WilderGoesOn ==
  ASSUME NEW p \in Nat, p > 0, NEW s \in Seq(Int), p <= Len(s)
  PROVE  /\ WilderAverage(s, p) \in Int
         /\ Len(s) = p => WilderAverage(s, p) = Mean(s)
         /\ \A x \in Int : WilderAverage(Append(s, x), p) = Wilder(WilderAverage(s, p), x, p)
<1> DEFINE F == WilderStep(p)
<1>1. Foldable(F, Int, Int) /\ \A v \in Int, x \in Int : F[<<v, x>>] = Wilder(v, x, p)
  BY WilderSteps
<1>2. \A q : WilderAverage(q, p) = Seeded(F, q, p)
  BY DEF WilderAverage, Seeded, WilderStep
<1> HIDE DEF F
<1>3. /\ Seeded(F, s, p) \in Int
      /\ Len(s) = p => Seeded(F, s, p) = Mean(s)
      /\ \A x \in Int : Seeded(F, Append(s, x), p) = F[<<Seeded(F, s, p), x>>]
  BY <1>1, SeededOn
<1> QED
  BY <1>1, <1>2, <1>3

\* What IncrementalWilderAtr keeps of the bars s; the sum matters until it is the mean.
AtrMemory(m, p, s) ==
    /\ m = [last |-> m.last, count |-> m.count, sum |-> m.sum, atr |-> m.atr]
    /\ m.atr = Atr(s, p)
    /\ IF s = <<>> THEN m.last = {} /\ m.count = 0 /\ m.sum = 0
       ELSE /\ m.last = {s[Len(s)].close} /\ m.count = Len(s) - 1
            /\ Len(s) <= p => m.sum = Total(Ranges(s))

\* Before the first bar it is the one of a strategy that was reset.
LEMMA AtrMemoryStarts ==
  ASSUME NEW p \in Nat
  PROVE  AtrMemory(NewAtr, p, <<>>)
BY DEF AtrMemory, NewAtr, Atr

\* Its update keeps that up: it is _atr of all bars.
LEMMA AtrRemembers ==
  ASSUME NEW p \in Nat, p > 0, NEW s \in Seq(Bar), NEW b \in Bar, NEW m, AtrMemory(m, p, s)
  PROVE  AtrMemory(AtrOn(m, p, b), p, Append(s, b))
<1> DEFINE t == Append(s, b)
           n == AtrOn(m, p, b)
<1>1. /\ t \in Seq(Bar) /\ Len(t) = Len(s) + 1 /\ Len(s) \in Nat /\ t[Len(t)] = b /\ t # <<>>
      /\ (s = <<>> <=> Len(s) = 0)
  OBVIOUS
<1>2. m = [last |-> m.last, count |-> m.count, sum |-> m.sum, atr |-> m.atr]
  BY DEF AtrMemory
<1>3. CASE s = <<>>
  <2>1. m.last = {} /\ m.count = 0 /\ m.sum = 0 /\ m.atr = {}
    BY <1>3 DEF AtrMemory, Atr
  <2>2. n = [last |-> {b.close}, count |-> 0, sum |-> 0, atr |-> {}]
    BY <1>2, <2>1 DEF AtrOn
  <2>3. Len(t) = 1 /\ Atr(t, p) = {}
    BY <1>1, <1>3 DEF Atr
  <2>4. Total(Ranges(t)) = 0
    <3>1. Ranges(t) = <<>>
      BY <2>3 DEF Ranges
    <3>2. <<>> \in Seq(Int)
      OBVIOUS
    <3> QED
      BY <3>1, <3>2, TotalOn
  <2> HIDE DEF t, n
  <2> QED
    BY <1>1, <2>2, <2>3, <2>4 DEF AtrMemory, t, n
<1>4. CASE s # <<>>
  <2> DEFINE xs == Ranges(s)
             x == TrueRange(b, s[Len(s)].close)
  <2>1. m.last = {s[Len(s)].close} /\ m.count = Len(s) - 1
        /\ (Len(s) <= p => m.sum = Total(xs)) /\ m.atr = Atr(s, p)
    BY <1>4 DEF AtrMemory
  <2>2. xs \in Seq(Int) /\ Len(xs) = Len(s) - 1 /\ Ranges(t) = Append(xs, x)
    BY <1>4, RangesGrow
  <2>3. x \in Int
    <3>1. s[Len(s)] \in Bar
      BY <1>1, <1>4
    <3>2. \A c \in Bar : c.close \in Nat
      BY BarsHavePrices
    <3>3. s[Len(s)].close \in Int
      BY <3>1, <3>2
    <3> QED
      BY <3>3, BarsHavePrices
  <2>4. TrueRange(b, Some(m.last)) = x
    BY <2>1 DEF Some
  <2>5. Total(xs) \in Int /\ Total(Append(xs, x)) = Total(xs) + x
    BY <2>2, <2>3, TotalOn
  <2>6. Len(t) = Len(s) + 1 /\ Len(s) \in Nat /\ Len(s) > 0
    BY <1>1, <1>4
  <2>7. Append(xs, x) \in Seq(Int) /\ Len(Append(xs, x)) = Len(s)
    BY <2>2, <2>3, <2>6
  <2> DEFINE m1 == [last |-> {b.close}, count |-> Len(s), sum |-> m.sum, atr |-> m.atr]
  <2>10. [m EXCEPT !.last = {b.close}, !.count = @ + 1] = m1
    <3>1. m.count + 1 = Len(s)
      BY <2>1, <2>6
    <3>2. PICK r : r = [m EXCEPT !.last = {b.close}, !.count = @ + 1]
      OBVIOUS
    <3>3. r = [last |-> {b.close}, count |-> m.count + 1, sum |-> m.sum, atr |-> m.atr]
      BY <1>2, <3>2
    <3> QED
      BY <3>1, <3>2, <3>3
  <2> HIDE DEF xs, x, m1
  <2>11. n = IF m1.atr # {} THEN [m1 EXCEPT !.atr = {Wilder(Some(m1.atr), x, p)}]
             ELSE [m1 EXCEPT !.sum = @ + x,
                             !.atr = IF m1.count < p THEN {} ELSE {(m1.sum + x) \div p}]
    <3>1. m.last # {} /\ m.atr = m1.atr
      BY <2>1 DEF m1
    <3> QED
      BY <2>4, <2>10, <3>1 DEF AtrOn
  <2>8. CASE Len(s) < p + 1
    <3>1. m.atr = {} /\ m.sum = Total(xs)
      BY <2>1, <2>6, <2>8 DEF Atr
    <3>2. n = [last |-> {b.close}, count |-> Len(s), sum |-> Total(xs) + x,
               atr |-> IF Len(s) < p THEN {} ELSE {(Total(xs) + x) \div p}]
      BY <2>11, <3>1 DEF m1
    <3>3. Atr(t, p) = IF Len(s) < p THEN {} ELSE {(Total(xs) + x) \div p}
      <4>1. CASE Len(s) < p
        BY <2>6, <4>1 DEF Atr
      <4>2. CASE ~(Len(s) < p)
        <5>1. Len(s) = p
          BY <2>6, <2>8, <4>2
        <5>2. WilderAverage(Append(xs, x), p) = Mean(Append(xs, x))
          <6> DEFINE ys == Append(xs, x)
          <6>1. ys \in Seq(Int) /\ Len(ys) = p /\ p <= Len(ys)
            BY <2>7, <5>1
          <6> HIDE DEF ys
          <6>2. WilderAverage(ys, p) = Mean(ys)
            BY <6>1, WilderGoesOn
          <6> QED
            BY <6>2 DEF ys
        <5>3. Mean(Append(xs, x)) = (Total(xs) + x) \div p
          BY <2>5, <2>7, <5>1 DEF Mean
        <5>4. Atr(t, p) = {WilderAverage(Append(xs, x), p)}
          BY <2>2, <2>6, <5>1 DEF Atr
        <5> QED
          BY <4>2, <5>2, <5>3, <5>4
      <4> QED
        BY <4>1, <4>2
    <3> HIDE DEF t, n
    <3> QED
      BY <1>1, <2>2, <2>5, <2>6, <3>2, <3>3 DEF AtrMemory, t, n
  <2>9. CASE ~(Len(s) < p + 1)
    <3> DEFINE w == WilderAverage(xs, p)
    <3>1. m.atr = {w}
      BY <2>1, <2>9 DEF Atr, xs
    <3>2. Some(m.atr) = w
      BY <3>1 DEF Some
    <3>3. Atr(t, p) = {Wilder(w, x, p)}
      <4>1. p <= Len(xs)
        BY <2>2, <2>6, <2>9
      <4>2. WilderAverage(Append(xs, x), p) = Wilder(w, x, p)
        BY <2>2, <2>3, <4>1, WilderGoesOn
      <4> QED
        BY <2>2, <2>6, <2>9, <4>2 DEF Atr
    <3> HIDE DEF w
    <3>4. n = [last |-> {b.close}, count |-> Len(s), sum |-> m.sum, atr |-> {Wilder(w, x, p)}]
      BY <2>11, <3>1, <3>2 DEF m1
    <3> HIDE DEF t, n
    <3> QED
      BY <1>1, <2>6, <2>9, <3>3, <3>4 DEF AtrMemory, t, n
  <2> QED
    BY <2>8, <2>9
<1> QED
  BY <1>3, <1>4

-----------------------------------------------------------------------------
(* The average directional index, remembered.                              *)

\* Division by a positive number stays within the natural numbers.
LEMMA DivisionIsNatural ==
  ASSUME NEW a \in Nat, NEW p \in Nat, p > 0
  PROVE  a \div p \in Nat /\ a \div p <= a
OBVIOUS

\* Added, decayed or compared, movements stay movements.
LEMMA MovementsStay ==
  ASSUME NEW s \in Movement
  PROVE  /\ NoMove \in Movement
         /\ \A m \in Movement : Added(s, m) \in Movement
         /\ \A m \in Movement, p \in Nat : p > 0 => Decayed(s, m, p) \in Movement
         /\ Directional(s) \in Nat
<1>1. NoMove \in Movement
  BY DEF NoMove, Movement
<1>2. \A m \in Movement : Added(s, m) \in Movement
  BY DEF Added, Movement
<1>3. ASSUME NEW m \in Movement, NEW p \in Nat, p > 0 PROVE Decayed(s, m, p) \in Movement
  <2>1. \A a \in Nat, b \in Nat : a - a \div p + b \in Nat
    <3> SUFFICES ASSUME NEW a \in Nat, NEW b \in Nat PROVE a - a \div p + b \in Nat
      OBVIOUS
    <3>1. a \div p \in Nat /\ a \div p <= a
      BY <1>3, DivisionIsNatural
    <3> QED
      BY <3>1
  <2> QED
    BY <2>1 DEF Decayed, Movement
<1>4. Directional(s) \in Nat
  <2>1. s.range \in Nat /\ s.plus \in Nat /\ s.minus \in Nat
    BY DEF Movement
  <2>2. \A a \in Nat, b \in Nat : b # 0 => Divided(100 * a, b) \in Nat
    <3> SUFFICES ASSUME NEW a \in Nat, NEW b \in Nat, b # 0 PROVE Divided(100 * a, b) \in Nat
      OBVIOUS
    <3>1. (100 * a) * 100 \in Nat /\ b > 0
      OBVIOUS
    <3> QED
      BY <3>1, DivisionIsNatural DEF Divided, Scale
  <2> DEFINE plus == Divided(100 * s.plus, s.range)
             minus == Divided(100 * s.minus, s.range)
  <2>3. CASE s.range = 0
    BY <2>3 DEF Directional
  <2>4. CASE s.range # 0
    <3>1. plus \in Nat /\ minus \in Nat
      BY <2>1, <2>2, <2>4
    <3> HIDE DEF plus, minus
    <3>2. Abs(plus - minus) \in Nat
      BY <3>1 DEF Abs
    <3>3. Directional(s) = IF plus + minus = 0 THEN 0
                           ELSE Divided(100 * Abs(plus - minus), plus + minus)
      BY <2>4 DEF Directional, plus, minus
    <3> QED
      BY <2>2, <3>1, <3>2, <3>3
  <2> QED
    BY <2>3, <2>4
<1> QED
  BY <1>1, <1>2, <1>3, <1>4

\* What two bars make is a movement.
LEMMA MoveIsAMovement ==
  ASSUME NEW b \in Bar, NEW c \in Bar
  PROVE  Move(b, c) \in Movement
<1>1. /\ b.high \in Nat /\ b.low \in Nat /\ c.high \in Nat /\ c.low \in Nat /\ c.close \in Nat
  BY BarsHavePrices
<1>2. TrueRange(b, c.close) \in Nat
  <2> DEFINE x == b.high - b.low
             y == Abs(b.high - c.close)
             z == Abs(b.low - c.close)
             S == {x, y, z}
  <2>1. x \in Int /\ y \in Int /\ z \in Int /\ y >= 0
    BY <1>1 DEF Abs
  <2> HIDE DEF x, y, z
  <2>2. \E v \in S : \A w \in S : v >= w
    BY <2>1
  <2>3. Max(S) \in S /\ \A w \in S : Max(S) >= w
    BY <2>2 DEF Max
  <2>4. Max(S) \in Int /\ Max(S) >= y
    BY <2>1, <2>3
  <2>5. TrueRange(b, c.close) = Max(S)
    BY DEF TrueRange, x, y, z
  <2> QED
    BY <2>1, <2>4, <2>5
<1> QED
  BY <1>1, <1>2 DEF Move, Movement

\* The movements of a growing series: a bar and the one before it.
LEMMA MovesGrow ==
  ASSUME NEW s \in Seq(Bar), s # <<>>
  PROVE  /\ Moves(s) \in Seq(Movement) /\ Len(Moves(s)) = Len(s) - 1
         /\ \A b \in Bar : Moves(Append(s, b)) = Append(Moves(s), Move(b, s[Len(s)]))
<1>0. Len(s) \in Nat \ {0}
  OBVIOUS
<1>1. ASSUME NEW q \in Seq(Bar), Len(q) # 0
      PROVE  Moves(q) \in [1 .. Len(q) - 1 -> Movement] /\ Len(q) - 1 \in Nat
  <2>1. ASSUME NEW i \in 1 .. Len(q) - 1 PROVE Move(q[i + 1], q[i]) \in Movement
    <3>1. i + 1 \in 1 .. Len(q) /\ i \in 1 .. Len(q)
      BY <2>1
    <3>2. q[i + 1] \in Bar /\ q[i] \in Bar
      BY <3>1
    <3> QED
      BY <3>2, MoveIsAMovement
  <2> QED
    BY <1>1, <2>1 DEF Moves
<1>2. Moves(s) \in Seq(Movement) /\ Len(Moves(s)) = Len(s) - 1
  <2>1. Moves(s) \in [1 .. Len(s) - 1 -> Movement] /\ Len(s) - 1 \in Nat
    BY <1>0, <1>1
  <2> QED
    BY <2>1, FunctionIsASequence
<1>3. ASSUME NEW b \in Bar PROVE Moves(Append(s, b)) = Append(Moves(s), Move(b, s[Len(s)]))
  <2> DEFINE t == Append(s, b)
             f == Moves(t)
             n == Len(s) - 1
  <2>1. /\ t \in Seq(Bar) /\ Len(t) = (n + 1) + 1 /\ n \in Nat /\ t[(n + 1) + 1] = b
        /\ \A i \in 1 .. n + 1 : t[i] = s[i]
    BY <1>0
  <2>2. f \in [1 .. n + 1 -> Movement]
    <3> HIDE DEF t, n
    <3>1. Len(t) # 0 /\ Len(t) - 1 = n + 1
      BY <2>1
    <3> QED
      BY <1>1, <2>1, <3>1
  <2>3. \A i \in 1 .. n + 1 : f[i] = Move(t[i + 1], t[i])
    BY <2>1 DEF Moves
  <2>4. Moves(s) = [i \in 1 .. n |-> Move(s[i + 1], s[i])]
    BY DEF Moves
  <2>5. Len(s) = n + 1
    BY <1>0
  <2> HIDE DEF f, t, n
  <2>6. [i \in 1 .. n |-> f[i]] = [i \in 1 .. n |-> Move(s[i + 1], s[i])]
    <3>1. ASSUME NEW i \in 1 .. n PROVE f[i] = Move(s[i + 1], s[i])
      <4>1. i \in 1 .. n + 1 /\ i + 1 \in 1 .. n + 1
        BY <2>1
      <4> QED
        BY <2>1, <2>3, <4>1
    <3> QED
      BY <3>1
  <2>7. f[n + 1] = Move(b, s[Len(s)])
    <3>1. n + 1 \in 1 .. n + 1
      BY <2>1
    <3> QED
      BY <2>1, <2>3, <2>5, <3>1
  <2>8. f = Append([i \in 1 .. n |-> f[i]], f[n + 1])
    BY <2>1, <2>2, LastOfAFunction
  <2>9. f = Append(Moves(s), Move(b, s[Len(s)]))
    BY <2>4, <2>6, <2>7, <2>8
  <2> QED
    BY <2>9 DEF f, t
<1> QED
  BY <1>2, <1>3

\* The sums of the first movements.
AddStep == [z \in Movement \X Movement |-> Added(z[1], z[2])]
Summed(moves) == Folded(AddStep, NoMove, moves)

\* They go on movement by movement, and the seed is the sum of the first p.
LEMMA SeedGoesOn ==
  ASSUME NEW xs \in Seq(Movement)
  PROVE  /\ Summed(xs) \in Movement /\ Summed(<<>>) = NoMove
         /\ \A x \in Movement : Summed(Append(xs, x)) = Added(Summed(xs), x)
         /\ \A p \in Nat : Seed(xs, p) = Summed(SubSeq(xs, 1, p))
<1>1. /\ Foldable(AddStep, Movement, Movement) /\ NoMove \in Movement
      /\ \A v \in Movement, x \in Movement : AddStep[<<v, x>>] = Added(v, x)
  <2>1. \A v \in Movement, x \in Movement : Added(v, x) \in Movement
    BY MovementsStay
  <2>2. NoMove \in Movement
    BY DEF NoMove, Movement
  <2> QED
    BY <2>1, <2>2 DEF AddStep, Foldable
<1>2. \A p \in Nat : Seed(xs, p) = Summed(SubSeq(xs, 1, p))
  BY DEF Seed, Summed, AddStep
<1>3. /\ Folded(AddStep, NoMove, xs) \in Movement /\ Folded(AddStep, NoMove, <<>>) = NoMove
      /\ \A x \in Movement : Folded(AddStep, NoMove, Append(xs, x))
                                = AddStep[<<Folded(AddStep, NoMove, xs), x>>]
  BY <1>1, FoldsOn, FoldsNothing
<1> QED
  BY <1>1, <1>2, <1>3 DEF Summed

\* The smoothed sums and the indices: a movement on.
SmoothedSums == [s : Movement, dx : Seq(Nat)]
IndexedOn(a, x, p) ==
    LET s == Decayed(a.s, x, p) IN [s |-> s, dx |-> Append(a.dx, Directional(s))]
IndexStep(p) == [z \in SmoothedSums \X Movement |-> IndexedOn(z[1], z[2], p)]

\* The index of one movement more.
LEMMA IndexGoesOn ==
  ASSUME NEW p \in Nat, p > 0, NEW xs \in Seq(Movement), p <= Len(xs)
  PROVE  /\ Indexed(xs, p) \in SmoothedSums
         /\ \A x \in Movement : Indexed(Append(xs, x), p) = IndexedOn(Indexed(xs, p), x, p)
         /\ Len(xs) = p => Indexed(xs, p) = [s |-> Summed(xs), dx |-> <<Directional(Summed(xs))>>]
<1> DEFINE F == IndexStep(p)
           seed(q) == Summed(SubSeq(q, 1, p))
           base(q) == [s |-> seed(q), dx |-> <<Directional(seed(q))>>]
           rest == SubSeq(xs, p + 1, Len(xs))
<1>1. Foldable(F, SmoothedSums, Movement)
  <2>1. ASSUME NEW a \in SmoothedSums, NEW x \in Movement PROVE IndexedOn(a, x, p) \in SmoothedSums
    <3>1. a.s \in Movement /\ a.dx \in Seq(Nat)
      BY DEF SmoothedSums
    <3>2. Decayed(a.s, x, p) \in Movement
      BY <3>1, MovementsStay
    <3>3. Directional(Decayed(a.s, x, p)) \in Nat
      BY <3>2, MovementsStay
    <3> QED
      BY <3>1, <3>2, <3>3 DEF IndexedOn, SmoothedSums
  <2> QED
    BY <2>1 DEF IndexStep, Foldable
<1>2. \A a \in SmoothedSums, x \in Movement : F[<<a, x>>] = IndexedOn(a, x, p)
  BY DEF IndexStep
<1>3. ASSUME NEW q \in Seq(Movement)
      PROVE  Indexed(q, p) = Folded(F, base(q), SubSeq(q, p + 1, Len(q)))
  <2>1. Seed(q, p) = seed(q)
    BY SeedGoesOn
  <2> QED
    BY <2>1 DEF Indexed, IndexStep, IndexedOn, SmoothedSums
<1>4. base(xs) \in SmoothedSums
  <2>1. SubSeq(xs, 1, p) \in Seq(Movement)
    OBVIOUS
  <2>2. seed(xs) \in Movement
    BY <2>1, SeedGoesOn
  <2>3. Directional(seed(xs)) \in Nat
    BY <2>2, MovementsStay
  <2> QED
    BY <2>2, <2>3 DEF SmoothedSums
<1>5. rest \in Seq(Movement) /\ Indexed(xs, p) = Folded(F, base(xs), rest)
  BY <1>3
<1>6. ASSUME NEW x \in Movement
      PROVE  /\ Append(xs, x) \in Seq(Movement)
             /\ Indexed(Append(xs, x), p) = Folded(F, base(xs), Append(rest, x))
  <2>1. SubSeq(Append(xs, x), 1, p) = SubSeq(xs, 1, p)
    BY GrowingEnds
  <2>3. SubSeq(Append(xs, x), p + 1, Len(xs) + 1) = Append(rest, x)
    BY GrowingEnds
  <2>4. Append(xs, x) \in Seq(Movement) /\ Len(Append(xs, x)) = Len(xs) + 1
    OBVIOUS
  <2>2. base(Append(xs, x)) = base(xs)
    BY <2>1
  <2> HIDE DEF base, rest, F
  <2> QED
    BY <1>3, <2>2, <2>3, <2>4
<1> DEFINE c == base(xs)
<1>7. c \in SmoothedSums /\ Indexed(xs, p) = Folded(F, c, rest)
      /\ \A x \in Movement : Indexed(Append(xs, x), p) = Folded(F, c, Append(rest, x))
  BY <1>4, <1>5, <1>6
<1>8. ASSUME Len(xs) = p
      PROVE  rest = <<>> /\ c = [s |-> Summed(xs), dx |-> <<Directional(Summed(xs))>>]
  <2>1. SubSeq(xs, 1, p) = xs
    BY <1>8, PrefixesGrow
  <2>2. rest = <<>>
    BY <1>8
  <2> QED
    BY <2>1, <2>2
<1> HIDE DEF c, rest, F
<1>9. /\ Folded(F, c, rest) \in SmoothedSums /\ Folded(F, c, <<>>) = c
      /\ \A x \in Movement : Folded(F, c, Append(rest, x)) = F[<<Folded(F, c, rest), x>>]
  BY <1>1, <1>5, <1>7, FoldsOn, FoldsNothing
<1>10. Indexed(xs, p) \in SmoothedSums
  BY <1>7, <1>9
<1>11. \A x \in Movement : Indexed(Append(xs, x), p) = IndexedOn(Indexed(xs, p), x, p)
  BY <1>2, <1>7, <1>9
<1>12. Len(xs) = p => Indexed(xs, p) = [s |-> Summed(xs), dx |-> <<Directional(Summed(xs))>>]
  BY <1>7, <1>8, <1>9
<1> QED
  BY <1>10, <1>11, <1>12

\* What IncrementalAdx keeps, apart from the movements: the average of the
\* indices dx, or the sum and the number of them until there are enough.
AdxShape(m) ==
    m = [last |-> m.last, count |-> m.count, seed |-> m.seed, smoothed |-> m.smoothed,
         dxSum |-> m.dxSum, dxCount |-> m.dxCount, adx |-> m.adx]
Averages(m, p, dx) ==
    IF Len(dx) < p THEN m.adx = {} /\ m.dxSum = Total(dx) /\ m.dxCount = Len(dx)
    ELSE m.adx = {WilderAverage(dx, p)}

\* The end of its update keeps that up.
LEMMA IndexRemembers ==
  ASSUME NEW p \in Nat, p > 0, NEW m, AdxShape(m), NEW dx \in Seq(Int), Averages(m, p, dx),
         NEW s, Directional(s) \in Int
  PROVE  LET n == IndexOn(m, p, s)
         IN /\ AdxShape(n) /\ Averages(n, p, Append(dx, Directional(s)))
            /\ n.last = m.last /\ n.count = m.count /\ n.seed = m.seed /\ n.smoothed = {s}
<1> DEFINE x == Directional(s)
           dy == Append(dx, x)
           n == IndexOn(m, p, s)
           m1 == [last |-> m.last, count |-> m.count, seed |-> m.seed, smoothed |-> {s},
                  dxSum |-> m.dxSum, dxCount |-> m.dxCount, adx |-> m.adx]
<1>1. dy \in Seq(Int) /\ Len(dy) = Len(dx) + 1 /\ Len(dx) \in Nat
  OBVIOUS
<1>2. Total(dx) \in Int /\ Total(dy) = Total(dx) + x
  BY TotalOn
<1>3. [m EXCEPT !.smoothed = {s}] = m1
  <2>1. PICK r : r = [m EXCEPT !.smoothed = {s}]
    OBVIOUS
  <2>2. r = m1
    BY <2>1 DEF AdxShape
  <2> QED
    BY <2>1, <2>2
<1> HIDE DEF m1
<1>4. n = IF m.adx # {} THEN [m1 EXCEPT !.adx = {Wilder(Some(m1.adx), x, p)}]
          ELSE [m1 EXCEPT !.dxSum = @ + x, !.dxCount = @ + 1,
                          !.adx = IF m.dxCount + 1 = p THEN {(m.dxSum + x) \div p} ELSE {}]
  BY <1>3 DEF IndexOn
<1>5. m1 = [last |-> m.last, count |-> m.count, seed |-> m.seed, smoothed |-> {s},
            dxSum |-> m.dxSum, dxCount |-> m.dxCount, adx |-> m.adx]
  BY DEF m1
<1> HIDE DEF x, dy, n
<1>6. CASE Len(dx) < p
  <2>1. m.adx = {} /\ m.dxSum = Total(dx) /\ m.dxCount = Len(dx)
    BY <1>6 DEF Averages
  <2>2. n = [m1 EXCEPT !.dxSum = @ + x, !.dxCount = @ + 1,
                       !.adx = IF m.dxCount + 1 = p THEN {(m.dxSum + x) \div p} ELSE {}]
    BY <1>4, <2>1
  <2>3. n = [last |-> m.last, count |-> m.count, seed |-> m.seed, smoothed |-> {s},
             dxSum |-> Total(dy), dxCount |-> Len(dy),
             adx |-> IF Len(dy) = p THEN {Total(dy) \div p} ELSE {}]
    BY <1>1, <1>2, <1>5, <2>1, <2>2
  <2>4. Len(dy) = p => WilderAverage(dy, p) = Total(dy) \div p
    BY <1>1, WilderGoesOn DEF Mean
  <2>5. Averages(n, p, dy)
    BY <1>1, <1>6, <2>3, <2>4 DEF Averages
  <2> QED
    BY <2>3, <2>5 DEF AdxShape, n, dy, x
<1>7. CASE ~(Len(dx) < p)
  <2> DEFINE w == WilderAverage(dx, p)
  <2>1. m.adx = {w} /\ p <= Len(dx)
    BY <1>1, <1>7 DEF Averages
  <2>2. WilderAverage(dy, p) = Wilder(w, x, p)
    <3>1. x \in Int
      BY DEF x
    <3> QED
      BY <2>1, <3>1, WilderGoesOn DEF dy
  <2> HIDE DEF w
  <2>3. Some(m1.adx) = w
    BY <1>5, <2>1 DEF Some
  <2>4. n = [last |-> m.last, count |-> m.count, seed |-> m.seed, smoothed |-> {s},
             dxSum |-> m.dxSum, dxCount |-> m.dxCount, adx |-> {Wilder(w, x, p)}]
    BY <1>4, <1>5, <2>1, <2>3
  <2>5. Averages(n, p, dy)
    BY <1>1, <1>7, <2>2, <2>4 DEF Averages
  <2> QED
    BY <2>4, <2>5 DEF AdxShape, n, dy, x
<1> QED
  BY <1>6, <1>7

\* What it keeps of the movements xs.
AdxSums(m, p, xs) ==
    /\ m.count = Len(xs)
    /\ Len(xs) < p => m.seed = Summed(xs) /\ m.smoothed = {} /\ Averages(m, p, <<>>)
    /\ p <= Len(xs) => /\ m.smoothed = {Indexed(xs, p).s}
                       /\ Len(Indexed(xs, p).dx) = Len(xs) - p + 1
                       /\ Averages(m, p, Indexed(xs, p).dx)

AdxMemory(m, p, s) ==
    /\ AdxShape(m)
    /\ IF s = <<>> THEN m = NewAdx ELSE m.last = {s[Len(s)]} /\ AdxSums(m, p, Moves(s))

\* Before the first bar it is the one of a strategy that was reset.
LEMMA AdxMemoryStarts ==
  ASSUME NEW p \in Nat, p > 0
  PROVE  AdxMemory(NewAdx, p, <<>>)
BY DEF AdxMemory, NewAdx, AdxShape

\* Its update keeps that up: it is _compute_adx of all bars.
LEMMA AdxRemembers ==
  ASSUME NEW p \in Nat, p > 0, NEW s \in Seq(Bar), NEW b \in Bar, NEW m, AdxMemory(m, p, s)
  PROVE  AdxMemory(AdxOn(m, p, b), p, Append(s, b))
<1> DEFINE t == Append(s, b)
           n == AdxOn(m, p, b)
<1>1. /\ t \in Seq(Bar) /\ Len(t) = Len(s) + 1 /\ Len(s) \in Nat /\ t[Len(t)] = b /\ t # <<>>
      /\ (s = <<>> <=> Len(s) = 0)
  OBVIOUS
<1>2. m = [last |-> m.last, count |-> m.count, seed |-> m.seed, smoothed |-> m.smoothed,
           dxSum |-> m.dxSum, dxCount |-> m.dxCount, adx |-> m.adx]
  BY DEF AdxMemory, AdxShape
<1>3. Total(<<>>) = 0 /\ Len(<<>>) = 0
  <2>1. <<>> \in Seq(Int)
    OBVIOUS
  <2> QED
    BY <2>1, TotalOn
<1>4. CASE s = <<>>
  <2>1. m = NewAdx
    BY <1>4 DEF AdxMemory
  <2>2. n = [last |-> {b}, count |-> 0, seed |-> NoMove, smoothed |-> {},
             dxSum |-> 0, dxCount |-> 0, adx |-> {}]
    BY <2>1 DEF AdxOn, NewAdx
  <2>3. Moves(t) = <<>>
    BY <1>1, <1>4 DEF Moves
  <2>4. Summed(<<>>) = NoMove
    <3>1. <<>> \in Seq(Movement)
      OBVIOUS
    <3> QED
      BY <3>1, SeedGoesOn
  <2> HIDE DEF t, n
  <2>5. AdxSums(n, p, <<>>)
    BY <1>3, <2>2, <2>4 DEF AdxSums, Averages
  <2> QED
    BY <1>1, <2>2, <2>3, <2>5 DEF AdxMemory, AdxShape, t, n
<1>5. CASE s # <<>>
  <2> DEFINE xs == Moves(s)
             x == Move(b, s[Len(s)])
             ys == Append(xs, x)
             m1 == [last |-> {b}, count |-> Len(xs) + 1, seed |-> m.seed, smoothed |-> m.smoothed,
                    dxSum |-> m.dxSum, dxCount |-> m.dxCount, adx |-> m.adx]
             m2 == [last |-> {b}, count |-> Len(xs) + 1, seed |-> Added(m.seed, x),
                    smoothed |-> m.smoothed,
                    dxSum |-> m.dxSum, dxCount |-> m.dxCount, adx |-> m.adx]
  <2>1. m.last = {s[Len(s)]} /\ AdxSums(m, p, xs)
    BY <1>5 DEF AdxMemory
  <2>2. xs \in Seq(Movement) /\ Moves(t) = ys
    BY <1>5, MovesGrow
  <2>3. x \in Movement
    <3>1. s[Len(s)] \in Bar
      BY <1>1, <1>5
    <3> QED
      BY <3>1, MoveIsAMovement
  <2>4. ys \in Seq(Movement) /\ Len(ys) = Len(xs) + 1 /\ Len(xs) \in Nat
    BY <2>2, <2>3
  <2>5. Move(b, Some(m.last)) = x
    BY <2>1 DEF Some
  <2>6. m.last # {} /\ m.count = Len(xs)
    BY <2>1 DEF AdxSums
  <2> HIDE DEF xs, x
  <2>7. [m EXCEPT !.last = {b}, !.count = @ + 1] = m1
    <3>1. PICK r : r = [m EXCEPT !.last = {b}, !.count = @ + 1]
      OBVIOUS
    <3>2. r = m1
      BY <1>2, <2>6, <3>1
    <3> QED
      BY <3>1, <3>2
  <2>8. [m1 EXCEPT !.seed = Added(@, x)] = m2
    <3>1. m1 = [last |-> m1.last, count |-> m1.count, seed |-> m1.seed, smoothed |-> m1.smoothed,
                dxSum |-> m1.dxSum, dxCount |-> m1.dxCount, adx |-> m1.adx]
      OBVIOUS
    <3>2. PICK r : r = [m1 EXCEPT !.seed = Added(@, x)]
      OBVIOUS
    <3>3. r = [last |-> m1.last, count |-> m1.count, seed |-> Added(m1.seed, x),
               smoothed |-> m1.smoothed, dxSum |-> m1.dxSum, dxCount |-> m1.dxCount,
               adx |-> m1.adx]
      <4> HIDE DEF m1
      <4> QED
        BY <3>1, <3>2
    <3>4. r = m2
      BY <3>3
    <3> QED
      BY <3>2, <3>4
  <2>9. n = IF m1.smoothed # {} THEN IndexOn(m1, p, Decayed(Some(m.smoothed), x, p))
            ELSE IF m2.count < p THEN m2 ELSE IndexOn(m2, p, m2.seed)
    <3>1. m.smoothed = m1.smoothed
      OBVIOUS
    <3> HIDE DEF m1, m2
    <3>2. n = LET move == Move(b, Some(m.last))
                  k == [m EXCEPT !.last = {b}, !.count = @ + 1]
                  seeded == [k EXCEPT !.seed = Added(@, move)]
              IN IF m.smoothed # {} THEN IndexOn(k, p, Decayed(Some(m.smoothed), move, p))
                 ELSE IF seeded.count < p THEN seeded
                 ELSE IndexOn(seeded, p, seeded.seed)
      BY <2>6 DEF AdxOn
    <3> QED
      BY <2>5, <2>7, <2>8, <3>1, <3>2
  <2>10. AdxShape(m1) /\ AdxShape(m2)
    BY DEF AdxShape
  <2>11. /\ m1.last = {b} /\ m1.count = Len(xs) + 1 /\ m1.smoothed = m.smoothed
         /\ m2.last = {b} /\ m2.count = Len(xs) + 1 /\ m2.seed = Added(m.seed, x)
         /\ \A dx : Averages(m, p, dx) => Averages(m1, p, dx) /\ Averages(m2, p, dx)
         /\ m2.smoothed = m.smoothed
    BY DEF Averages
  <2> HIDE DEF m1, m2
  <2> SUFFICES AdxShape(n) /\ n.last = {b} /\ AdxSums(n, p, ys)
    <3> HIDE DEF n, t, ys
    <3> QED
      BY <1>1, <2>2 DEF AdxMemory, n, t
  <2> HIDE DEF n, t
  <2>12. CASE p <= Len(xs)
    <3> DEFINE i == Indexed(xs, p)
               s1 == Decayed(i.s, x, p)
               dy == Append(i.dx, Directional(s1))
    <3>1. m.smoothed = {i.s} /\ Len(i.dx) = Len(xs) - p + 1 /\ Averages(m, p, i.dx)
      BY <2>1, <2>12 DEF AdxSums
    <3>2. i \in SmoothedSums /\ Indexed(ys, p) = IndexedOn(i, x, p)
      BY <2>2, <2>3, <2>12, IndexGoesOn
    <3> HIDE DEF i
    <3>3. i.s \in Movement /\ i.dx \in Seq(Nat) /\ i.dx \in Seq(Int)
      BY <3>2 DEF SmoothedSums
    <3>4. s1 \in Movement
      BY <2>3, <3>3, MovementsStay
    <3> HIDE DEF s1
    <3>5. Directional(s1) \in Nat /\ Directional(s1) \in Int
      BY <3>4, MovementsStay
    <3>6. Some(m.smoothed) = i.s /\ m1.smoothed # {}
      BY <2>11, <3>1 DEF Some
    <3>7. n = IndexOn(m1, p, s1)
      BY <2>9, <3>6 DEF s1
    <3>8. /\ AdxShape(n) /\ Averages(n, p, dy)
          /\ n.last = {b} /\ n.count = Len(xs) + 1 /\ n.smoothed = {s1}
      BY <2>10, <2>11, <3>1, <3>3, <3>5, <3>7, IndexRemembers
    <3>9. Indexed(ys, p) = [s |-> s1, dx |-> dy]
      BY <3>2 DEF IndexedOn, s1
    <3>10. Len(dy) = Len(ys) - p + 1
      <4>1. Len(dy) = Len(i.dx) + 1
        BY <3>3, <3>5
      <4> HIDE DEF dy, ys
      <4> QED
        BY <2>4, <2>12, <3>1, <4>1
    <3> HIDE DEF dy, ys
    <3>11. AdxSums(n, p, ys)
      BY <2>4, <2>12, <3>8, <3>9, <3>10 DEF AdxSums
    <3> QED
      BY <3>8, <3>11
  <2>13. CASE ~(p <= Len(xs))
    <3>1. m.seed = Summed(xs) /\ m.smoothed = {} /\ Averages(m, p, <<>>)
      BY <2>1, <2>4, <2>13 DEF AdxSums
    <3>2. m2.seed = Summed(ys) /\ Summed(ys) \in Movement
      <4>1. Summed(ys) = Added(Summed(xs), x)
        BY <2>2, <2>3, SeedGoesOn
      <4>2. Summed(ys) \in Movement
        BY <2>4, SeedGoesOn
      <4> QED
        BY <2>11, <3>1, <4>1, <4>2
    <3>3. m1.smoothed = {} /\ m2.smoothed = {} /\ Averages(m2, p, <<>>) /\ m2.count = Len(ys)
      BY <2>4, <2>11, <3>1
    <3>4. n = IF Len(ys) < p THEN m2 ELSE IndexOn(m2, p, Summed(ys))
      BY <2>9, <3>2, <3>3
    <3> HIDE DEF ys
    <3>5. CASE Len(ys) < p
      BY <2>4, <2>10, <2>11, <3>2, <3>3, <3>4, <3>5 DEF AdxSums
    <3>6. CASE ~(Len(ys) < p)
      <4> DEFINE d == Directional(Summed(ys))
      <4>1. Len(ys) = p
        BY <2>4, <2>13, <3>6
      <4>2. d \in Nat /\ d \in Int
        BY <3>2, MovementsStay
      <4>3. Indexed(ys, p) = [s |-> Summed(ys), dx |-> <<d>>]
        BY <2>4, <4>1, IndexGoesOn
      <4> DEFINE e == <<>>
      <4> HIDE DEF d
      <4>4. Append(<<>>, d) = <<d>> /\ Len(<<d>>) = 1 /\ <<>> \in Seq(Int)
        BY <4>2
      <4>5. n = IndexOn(m2, p, Summed(ys))
        BY <3>4, <3>6
      <4>8. Averages(m2, p, e) /\ e \in Seq(Int) /\ Append(e, d) = <<d>>
        BY <3>3, <4>4
      <4> HIDE DEF e
      <4>9. Directional(Summed(ys)) = d
        BY DEF d
      <4>10. /\ AdxShape(n) /\ Averages(n, p, Append(e, Directional(Summed(ys))))
             /\ n.last = m2.last /\ n.count = m2.count /\ n.smoothed = {Summed(ys)}
        BY <2>10, <4>2, <4>5, <4>8, <4>9, IndexRemembers
      <4>6. /\ AdxShape(n) /\ Averages(n, p, <<d>>)
            /\ n.last = {b} /\ n.count = Len(ys) /\ n.smoothed = {Summed(ys)}
        BY <2>11, <3>3, <4>8, <4>9, <4>10
      <4>7. AdxSums(n, p, ys)
        BY <2>4, <4>1, <4>3, <4>4, <4>6 DEF AdxSums
      <4> QED
        BY <4>6, <4>7
    <3> QED
      BY <3>5, <3>6
  <2> QED
    BY <2>12, <2>13
<1> QED
  BY <1>4, <1>5

\* So a strategy sees a trend in it exactly if the reference one does.
LEMMA TrendsAlike ==
  ASSUME P.regime \in Nat \ {0}, NEW s \in Seq(Bar), NEW m, AdxMemory(m, P.regime, s)
  PROVE  (\E x \in m.adx : x >= P.trending) <=> Trending(s)
<1> DEFINE p == P.regime
           xs == Moves(s)
<1>0. p \in Nat /\ p > 0
  OBVIOUS
<1>1. CASE s = <<>>
  <2>1. m.adx = {}
    BY <1>1 DEF AdxMemory, NewAdx
  <2>2. Len(s) = 0
    BY <1>1
  <2> HIDE DEF p
  <2>3. ~Trending(s)
    <3>1. ~(Len(s) >= 2 * p)
      BY <1>0, <2>2
    <3> QED
      BY <3>1 DEF Trending, p
  <2> QED
    BY <2>1, <2>3
<1>2. CASE s # <<>>
  <2>1. AdxSums(m, p, xs)
    BY <1>2 DEF AdxMemory
  <2>2. Len(xs) = Len(s) - 1 /\ Len(s) \in Nat \ {0}
    BY <1>2, MovesGrow
  <2> DEFINE i == Indexed(xs, p)
  <2>3. Trending(s) <=> Len(s) >= 2 * p /\ WilderAverage(i.dx, p) >= P.trending
    BY DEF Trending, Adx
  <2> HIDE DEF p, xs, i
  <2>4. CASE Len(s) >= 2 * p
    <3>1. p <= Len(xs) /\ ~(Len(xs) - p + 1 < p)
      BY <1>0, <2>2, <2>4
    <3>2. m.adx = {WilderAverage(i.dx, p)}
      BY <2>1, <3>1 DEF AdxSums, Averages, i
    <3> QED
      BY <2>3, <2>4, <3>2
  <2>5. CASE ~(Len(s) >= 2 * p)
    <3>1. m.adx = {}
      <4>1. CASE Len(xs) < p
        <5>1. Len(<<>>) < p
          BY <1>0
        <5> QED
          BY <2>1, <4>1, <5>1 DEF AdxSums, Averages
      <4>2. CASE ~(Len(xs) < p)
        <5>1. p <= Len(xs) /\ Len(xs) - p + 1 < p
          BY <1>0, <2>2, <2>5, <4>2
        <5> QED
          BY <2>1, <5>1 DEF AdxSums, Averages, i
      <4> QED
        BY <4>1, <4>2
    <3> QED
      BY <2>3, <2>5, <3>1
  <2> QED
    BY <2>4, <2>5
<1> QED
  BY <1>1, <1>2

-----------------------------------------------------------------------------
(* The strategies, remembered: what each keeps of the candles s, and that   *)
(* what it says of the next candle is what the reference says of them all.  *)

\* The lesser of two.
LEMMA MinOfTwo ==
  ASSUME NEW a \in Int, NEW b \in Int
  PROVE  Min({a, b}) = IF a <= b THEN a ELSE b
<1>1. \E v \in {a, b} : \A w \in {a, b} : v <= w
  OBVIOUS
<1>2. Min({a, b}) \in {a, b} /\ \A w \in {a, b} : Min({a, b}) <= w
  BY <1>1 DEF Min
<1> QED
  BY <1>2

\* The greater of two.
LEMMA MaxOfTwo ==
  ASSUME NEW a \in Int, NEW b \in Int
  PROVE  Max({a, b}) = IF a >= b THEN a ELSE b
<1>1. \E v \in {a, b} : \A w \in {a, b} : v >= w
  OBVIOUS
<1>2. Max({a, b}) \in {a, b} /\ \A w \in {a, b} : Max({a, b}) >= w
  BY <1>1 DEF Max
<1> QED
  BY <1>2

\* The last values of a series, as many as the lookback or as there are.
WindowOf(s) == Recent(s, Min({P.lookback, Len(s)}))

\* An end of a sequence, and an end of it.
LEMMA EndOfAnEnd ==
  ASSUME NEW X, NEW t \in Seq(X), NEW n \in Nat, Len(t) = n + 1, NEW k \in 0 .. n,
         NEW j \in 0 .. k + 1
  PROVE  SubSeq(SubSeq(t, n - k + 1, n + 1), k + 1 - j + 1, k + 1) = SubSeq(t, n + 1 - j + 1, n + 1)
<1> DEFINE w == SubSeq(t, n - k + 1, n + 1)
           u == SubSeq(w, k + 1 - j + 1, k + 1)
           v == SubSeq(t, n + 1 - j + 1, n + 1)
<1>1. w \in Seq(X) /\ Len(w) = k + 1 /\ \A i \in 1 .. k + 1 : w[i] = t[n - k + i]
  OBVIOUS
<1>2. v \in Seq(X) /\ Len(v) = j /\ \A i \in 1 .. j : v[i] = t[n + 1 - j + i]
  OBVIOUS
<1> HIDE DEF w, v
<1>3. u \in Seq(X) /\ Len(u) = j /\ \A i \in 1 .. j : u[i] = w[k + 1 - j + i]
  BY <1>1
<1> HIDE DEF u
<1>4. \A i \in 1 .. j : u[i] = v[i]
  <2> SUFFICES ASSUME NEW i \in 1 .. j PROVE u[i] = v[i]
    OBVIOUS
  <2>1. k + 1 - j + i \in 1 .. k + 1 /\ n - k + (k + 1 - j + i) = n + 1 - j + i
    OBVIOUS
  <2>2. w[k + 1 - j + i] = t[n - k + (k + 1 - j + i)]
    BY <1>1, <2>1
  <2> QED
    BY <1>2, <1>3, <2>1, <2>2
<1>5. u = v
  <2>1. j \in Nat
    OBVIOUS
  <2>2. u = [i \in 1 .. j |-> u[i]] /\ v = [i \in 1 .. j |-> v[i]]
    BY <1>2, <1>3, <2>1
  <2>3. [i \in 1 .. j |-> u[i]] = [i \in 1 .. j |-> v[i]]
    BY <1>4
  <2> QED
    BY <2>2, <2>3
<1> QED
  BY <1>5 DEF u, v, w

\* A deque of bounded length holds them.
LEMMA WindowSlides ==
  ASSUME P.lookback \in Nat, P.lookback > 0, NEW X, NEW s \in Seq(X), NEW x \in X
  PROVE  /\ WindowOf(<<>>) = <<>>
         /\ Slide(WindowOf(s), x) = WindowOf(Append(s, x))
         /\ P.lookback <= Len(s) => WindowOf(s) = Recent(s, P.lookback)
<1> DEFINE L == P.lookback
           n == Len(s)
           t == Append(s, x)
           k == Min({L, n})
           w == WindowOf(s)
           j == Min({L, k + 1})
<1>1. n \in Nat /\ L \in Nat /\ L > 0
  OBVIOUS
<1>2. t \in Seq(X) /\ Len(t) = n + 1
  OBVIOUS
<1>3. k = (IF L <= n THEN L ELSE n) /\ k \in 0 .. n
  <2> HIDE DEF L, n
  <2> QED
    BY <1>1, MinOfTwo
<1>4. j = (IF L <= n + 1 THEN L ELSE n + 1) /\ j \in 0 .. k + 1 /\ Min({L, n + 1}) = j
  <2> HIDE DEF L, n, k
  <2> QED
    BY <1>1, <1>3, MinOfTwo
<1>5. w = SubSeq(s, n - k + 1, n)
  BY DEF WindowOf, Recent
<1>6. Append(w, x) = SubSeq(t, n - k + 1, n + 1) /\ Len(w) = k
  <2> DEFINE a == n - k
  <2>1. a \in Nat /\ a <= Len(s) /\ n = Len(s) /\ k = n - a
    BY <1>1, <1>3
  <2> HIDE DEF k, a, w, t
  <2>4. a \in Nat /\ a <= Len(s)
    BY <2>1
  <2> HIDE DEF n
  <2>2. SubSeq(Append(s, x), a + 1, Len(s) + 1) = Append(SubSeq(s, a + 1, Len(s)), x)
    BY <2>4, GrowingEnds
  <2>3. Len(SubSeq(s, a + 1, Len(s))) = k
    BY <2>1
  <2> QED
    BY <1>5, <2>1, <2>2, <2>3 DEF t, a, n
<1>7. Slide(w, x) = SubSeq(SubSeq(t, n - k + 1, n + 1), k + 1 - j + 1, k + 1)
  <2>1. Slide(w, x) = Recent(Append(w, x), j)
    BY <1>6 DEF Slide
  <2>2. Len(SubSeq(t, n - k + 1, n + 1)) = k + 1
    <3> HIDE DEF k, w
    <3> QED
      BY <1>1, <1>2, <1>3
  <2> DEFINE y == Append(w, x)
  <2> HIDE DEF k, w, t, j, n
  <2>3. y = SubSeq(t, n - k + 1, n + 1) /\ Slide(w, x) = Recent(y, j)
    BY <1>6, <2>1
  <2> HIDE DEF y
  <2>4. Recent(y, j) = SubSeq(y, Len(y) - j + 1, Len(y))
    BY DEF Recent
  <2>5. Len(y) = k + 1
    BY <2>2, <2>3
  <2>6. Slide(w, x) = SubSeq(y, k + 1 - j + 1, k + 1)
    <3>0. k \in Int /\ j \in Int
      BY <1>1, <1>3, <1>4
    <3>1. Len(y) - j + 1 = k + 1 - j + 1
      BY <2>5, <3>0
    <3>2. Slide(w, x) = SubSeq(y, Len(y) - j + 1, Len(y))
      BY <2>3, <2>4
    <3> QED
      BY <2>5, <3>1, <3>2, Zenon
  <2> QED
    BY <2>3, <2>6
<1>8. WindowOf(t) = SubSeq(t, n + 1 - j + 1, n + 1)
  <2> HIDE DEF j, t, k, n
  <2>1. WindowOf(t) = Recent(t, j)
    BY <1>2, <1>4 DEF WindowOf
  <2>2. Recent(t, j) = SubSeq(t, Len(t) - j + 1, Len(t))
    BY DEF Recent
  <2>3. Len(t) = n + 1
    BY <1>2
  <2> QED
    BY <1>1, <1>4, <2>1, <2>2, <2>3
<1>9. Slide(w, x) = WindowOf(t)
  <2> HIDE DEF j, t, k, w
  <2>1. SubSeq(SubSeq(t, n - k + 1, n + 1), k + 1 - j + 1, k + 1) = SubSeq(t, n + 1 - j + 1, n + 1)
    BY <1>1, <1>2, <1>3, <1>4, EndOfAnEnd
  <2> QED
    BY <1>7, <1>8, <2>1
<1>10. WindowOf(<<>>) = <<>>
  <2>1. Min({L, 0}) = 0
    BY <1>1, MinOfTwo
  <2> QED
    BY <2>1 DEF WindowOf, Recent
<1>11. L <= n => w = Recent(s, L)
  BY <1>3 DEF WindowOf
<1> QED
  BY <1>9, <1>10, <1>11

\* The last candle, and those before it.
LEMMA BeforeTheLast ==
  ASSUME NEW X, NEW s \in Seq(X), NEW x \in X
  PROVE  Front(Append(s, x)) = s /\ Last(Append(s, x)) = x /\ Len(Append(s, x)) = Len(s) + 1
BY DEF Front, Last

\* The periods are positive, and the slow ones longer.
LEMMA Periods ==
  /\ P.fast \in Nat /\ P.fast > 0 /\ P.slow \in Nat /\ P.slow > 0
  /\ P.coarseFast \in Nat /\ P.coarseFast > 0 /\ P.coarseSlow \in Nat /\ P.coarseSlow > 0
  /\ P.regime \in Nat /\ P.regime > 0 /\ P.short \in Nat /\ P.short > 0
  /\ P.long \in Nat /\ P.long > 0 /\ P.lookback \in Nat /\ P.lookback > 0
  /\ P.fast < P.slow /\ P.coarseFast < P.coarseSlow
BY StrategyAssumption

\* The fields of what a strategy keeps.
MemoryShape(m) ==
    m = [fast |-> m.fast, slow |-> m.slow, gap |-> m.gap, adx |-> m.adx,
         coarseFast |-> m.coarseFast, coarseSlow |-> m.coarseSlow, cursor |-> m.cursor,
         consumed |-> m.consumed, short |-> m.short, long |-> m.long, ratio |-> m.ratio,
         window |-> m.window, seen |-> m.seen]

\* The crossover keeps the two averages, and how far they were apart.
CrossoverMemory(m, s) ==
    /\ m.fast = EmaMemory(P.fast, Closes(s)) /\ m.slow = EmaMemory(P.slow, Closes(s))
    /\ m.gap = IF Len(s) < P.slow THEN {} ELSE {Spread(Closes(s), P.fast, P.slow)}

\* What it leaves to the strategies that build on it.
SameBesides(n, m) ==
    /\ n.adx = m.adx /\ n.coarseFast = m.coarseFast /\ n.coarseSlow = m.coarseSlow
    /\ n.cursor = m.cursor /\ n.consumed = m.consumed

Crosses(r, m, t) ==
    /\ MemoryShape(r.memory) /\ CrossoverMemory(r.memory, t) /\ SameBesides(r.memory, m)
    /\ r.signal = EmaCrossover(t)

\* Its update keeps that up, and says what the reference says of the candle.
LEMMA CrossoverRemembers ==
  ASSUME NEW s \in Seq(Bar), NEW b \in Bar, NEW m, MemoryShape(m), CrossoverMemory(m, s)
  PROVE  Crosses(EmaCrossoverOn(m, b), m, Append(s, b))
<1> DEFINE t == Append(s, b)
           cs == Closes(s)
           ct == Closes(t)
           fast == EmaMemory(P.fast, ct)
           slow == EmaMemory(P.slow, ct)
           n == [fast |-> fast, slow |-> slow, gap |-> m.gap, adx |-> m.adx,
                 coarseFast |-> m.coarseFast, coarseSlow |-> m.coarseSlow, cursor |-> m.cursor,
                 consumed |-> m.consumed, short |-> m.short, long |-> m.long, ratio |-> m.ratio,
                 window |-> m.window, seen |-> m.seen]
           r == EmaCrossoverOn(m, b)
<1>1. t \in Seq(Bar) /\ Len(t) = Len(s) + 1 /\ Len(s) \in Nat /\ Front(t) = s
  BY BeforeTheLast
<1>2. cs \in Seq(Int) /\ Len(cs) = Len(s) /\ ct = Append(cs, b.close) /\ b.close \in Int
  <2>1. \A x \in Bar : x.close \in Nat
    BY BarsHavePrices
  <2> QED
    BY <2>1, ClosesGrow
<1>3. ct \in Seq(Int) /\ Len(ct) = Len(t)
  BY <1>1, <1>2
<1> HIDE DEF cs, ct
<1>4. EmaOn(m.fast, P.fast, b.close) = fast
  <2>1. m.fast = EmaMemory(P.fast, cs)
    BY DEF CrossoverMemory, cs
  <2> QED
    BY <1>2, <2>1, EmaRemembers, Periods
<1>5. EmaOn(m.slow, P.slow, b.close) = slow
  <2>1. m.slow = EmaMemory(P.slow, cs)
    BY DEF CrossoverMemory, cs
  <2> QED
    BY <1>2, <2>1, EmaRemembers, Periods
<1>6. /\ fast.value = IF Len(t) < P.fast THEN {} ELSE {Ema(ct, P.fast)}
      /\ slow.value = IF Len(t) < P.slow THEN {} ELSE {Ema(ct, P.slow)}
  BY <1>3, EmaMemoryIs, Periods
<1> HIDE DEF fast, slow
<1>7. [m EXCEPT !.fast = fast, !.slow = slow] = n
  <2>1. PICK k : k = [m EXCEPT !.fast = fast, !.slow = slow]
    OBVIOUS
  <2>2. k = n
    BY <2>1 DEF MemoryShape
  <2> QED
    BY <2>1, <2>2
<1>8. r = LET gap == Some(fast.value) - Some(slow.value)
          IN IF fast.value = {} \/ slow.value = {} THEN Says(n, {})
             ELSE Says([n EXCEPT !.gap = {gap}], UNION {Crossing(g, gap) : g \in m.gap})
  <2> HIDE DEF n
  <2> QED
    BY <1>4, <1>5, <1>7 DEF EmaCrossoverOn
<1>9. /\ m.gap = IF Len(s) < P.slow THEN {} ELSE {Spread(cs, P.fast, P.slow)}
      /\ EmaCrossover(t) = IF Len(t) < P.slow + 1 THEN {}
                           ELSE Crossing(Spread(cs, P.fast, P.slow), Spread(ct, P.fast, P.slow))
  BY <1>1 DEF CrossoverMemory, EmaCrossover, cs, ct
<1> HIDE DEF t, r
<1>10. CASE Len(t) < P.slow
  <2>1. slow.value = {} /\ m.gap = {} /\ EmaCrossover(t) = {}
    BY <1>1, <1>6, <1>9, <1>10, Periods
  <2>2. r.memory = n /\ r.signal = {}
    <3> HIDE DEF n
    <3> QED
      BY <1>8, <2>1 DEF Says
  <2>3. MemoryShape(n) /\ SameBesides(n, m)
    BY DEF MemoryShape, SameBesides
  <2>4. CrossoverMemory(n, t)
    BY <1>10, <2>1 DEF CrossoverMemory, fast, slow, ct
  <2> HIDE DEF n
  <2> QED
    BY <2>1, <2>2, <2>3, <2>4 DEF Crosses, r, t
<1>11. CASE ~(Len(t) < P.slow)
  <2> DEFINE gap == Spread(ct, P.fast, P.slow)
             k == [fast |-> fast, slow |-> slow, gap |-> {gap}, adx |-> m.adx,
                   coarseFast |-> m.coarseFast, coarseSlow |-> m.coarseSlow, cursor |-> m.cursor,
                   consumed |-> m.consumed, short |-> m.short, long |-> m.long, ratio |-> m.ratio,
                   window |-> m.window, seen |-> m.seen]
  <2>1. fast.value = {Ema(ct, P.fast)} /\ slow.value = {Ema(ct, P.slow)}
    BY <1>1, <1>6, <1>11, Periods
  <2>2. Some(fast.value) - Some(slow.value) = gap
    BY <2>1 DEF Some, Spread
  <2> HIDE DEF gap
  <2>3. [n EXCEPT !.gap = {gap}] = k
    <3>1. PICK q : q = [n EXCEPT !.gap = {gap}]
      OBVIOUS
    <3>2. q = k
      BY <3>1
    <3> QED
      BY <3>1, <3>2
  <2> HIDE DEF n, k
  <2>4. r = Says(k, UNION {Crossing(g, gap) : g \in m.gap})
    BY <1>8, <2>1, <2>2, <2>3
  <2>5. r.memory = k /\ r.signal = UNION {Crossing(g, gap) : g \in m.gap}
    BY <2>4 DEF Says
  <2>6. r.signal = EmaCrossover(t)
    <3>1. CASE Len(s) < P.slow
      <4>1. m.gap = {} /\ EmaCrossover(t) = {}
        BY <1>1, <1>9, <1>11, <3>1, Periods
      <4> QED
        BY <2>5, <4>1
    <3>2. CASE ~(Len(s) < P.slow)
      <4> DEFINE before == Spread(cs, P.fast, P.slow)
      <4>1. m.gap = {before} /\ EmaCrossover(t) = Crossing(before, gap)
        BY <1>1, <1>9, <1>11, <3>2, Periods DEF gap
      <4> HIDE DEF before
      <4>2. UNION {Crossing(g, gap) : g \in {before}} = Crossing(before, gap)
        OBVIOUS
      <4> QED
        BY <2>5, <4>1, <4>2
    <3> QED
      BY <3>1, <3>2
  <2>7. MemoryShape(k) /\ SameBesides(k, m) /\ CrossoverMemory(k, t)
    BY <1>11 DEF MemoryShape, SameBesides, CrossoverMemory, k, fast, slow, gap, ct
  <2> QED
    BY <2>5, <2>6, <2>7 DEF Crosses, r, t
<1> QED
  BY <1>10, <1>11

\* The gated crossover keeps the directional index as well, up to date also when
\* there is nothing to gate.
GatedMemory(m, s) == CrossoverMemory(m, s) /\ AdxMemory(m.adx, P.regime, s)

\* Its update keeps that up, and says what the reference says of the candle.
LEMMA GatedRemembers ==
  ASSUME NEW s \in Seq(Bar), NEW b \in Bar, NEW m, MemoryShape(m), GatedMemory(m, s)
  PROVE  LET r == GatedCrossoverOn(m, b)
         IN /\ MemoryShape(r.memory) /\ GatedMemory(r.memory, Append(s, b))
            /\ r.signal = GatedCrossover(Append(s, b))
<1> DEFINE t == Append(s, b)
           q == EmaCrossoverOn(m, b)
           k == q.memory
           adx == AdxOn(m.adx, P.regime, b)
           n == [fast |-> k.fast, slow |-> k.slow, gap |-> k.gap, adx |-> adx,
                 coarseFast |-> k.coarseFast, coarseSlow |-> k.coarseSlow, cursor |-> k.cursor,
                 consumed |-> k.consumed, short |-> k.short, long |-> k.long, ratio |-> k.ratio,
                 window |-> k.window, seen |-> k.seen]
           trends == \E x \in adx.adx : x >= P.trending
           r == GatedCrossoverOn(m, b)
<1>1. t \in Seq(Bar)
  OBVIOUS
<1>2. MemoryShape(k) /\ CrossoverMemory(k, t) /\ q.signal = EmaCrossover(t)
  BY CrossoverRemembers DEF GatedMemory, Crosses
<1>3. AdxMemory(adx, P.regime, t)
  BY AdxRemembers, Periods DEF GatedMemory
<1>4. trends <=> Trending(t)
  <2> HIDE DEF t, adx
  <2>1. P.regime \in Nat \ {0}
    BY Periods
  <2> QED
    BY <1>1, <1>3, <2>1, TrendsAlike
<1> HIDE DEF t, q, k, adx
<1>5. [k EXCEPT !.adx = adx] = n
  <2>1. PICK j : j = [k EXCEPT !.adx = adx]
    OBVIOUS
  <2>2. j = n
    BY <1>2, <2>1 DEF MemoryShape
  <2> QED
    BY <2>1, <2>2
<1>6. r = Says(n, {IF trends THEN v ELSE "FLAT" : v \in q.signal})
  <2> HIDE DEF n
  <2> QED
    BY <1>5 DEF GatedCrossoverOn, q, k, adx
<1>7. MemoryShape(n) /\ GatedMemory(n, t)
  <2>1. n.fast = k.fast /\ n.slow = k.slow /\ n.gap = k.gap /\ n.adx = adx
    OBVIOUS
  <2>2. MemoryShape(n)
    BY DEF MemoryShape
  <2> HIDE DEF n
  <2> QED
    BY <1>2, <1>3, <2>1, <2>2 DEF GatedMemory, CrossoverMemory
<1> HIDE DEF n, trends
<1>8. r.memory = n /\ r.signal = {IF trends THEN v ELSE "FLAT" : v \in q.signal}
  BY <1>6 DEF Says
<1>9. GatedCrossover(t) = {IF trends THEN v ELSE "FLAT" : v \in q.signal}
  BY <1>2, <1>4 DEF GatedCrossover
<1> QED
  BY <1>7, <1>8, <1>9 DEF t

\* The channel breakout keeps the last closes.
ChannelMemory(m, s) == m.window = WindowOf(Closes(s)) /\ m.seen = Len(s)

\* Its update keeps that up, and says what the reference says of the candle.
LEMMA ChannelRemembers ==
  ASSUME NEW s \in Seq(Bar), NEW b \in Bar, NEW m, MemoryShape(m), ChannelMemory(m, s)
  PROVE  LET r == CloseChannelOn(m, b)
         IN /\ MemoryShape(r.memory) /\ ChannelMemory(r.memory, Append(s, b))
            /\ r.signal = CloseChannel(Append(s, b))
<1> DEFINE t == Append(s, b)
           cs == Closes(s)
           w == WindowOf(cs)
           v == Slide(w, b.close)
           n == [fast |-> m.fast, slow |-> m.slow, gap |-> m.gap, adx |-> m.adx,
                 coarseFast |-> m.coarseFast, coarseSlow |-> m.coarseSlow, cursor |-> m.cursor,
                 consumed |-> m.consumed, short |-> m.short, long |-> m.long, ratio |-> m.ratio,
                 window |-> v, seen |-> Len(s) + 1]
           r == CloseChannelOn(m, b)
<1>1. t \in Seq(Bar) /\ Len(t) = Len(s) + 1 /\ Len(s) \in Nat /\ Front(t) = s /\ Last(t) = b
  BY BeforeTheLast
<1>2. cs \in Seq(Int) /\ Len(cs) = Len(s) /\ Closes(t) = Append(cs, b.close) /\ b.close \in Int
  <2>1. \A x \in Bar : x.close \in Nat
    BY BarsHavePrices
  <2> QED
    BY <2>1, ClosesGrow
<1> HIDE DEF cs
<1>3. /\ v = WindowOf(Closes(t))
      /\ P.lookback <= Len(cs) => w = Recent(cs, P.lookback)
  BY <1>2, WindowSlides, Periods
<1>4. m.window = w /\ m.seen = Len(s)
  BY DEF ChannelMemory, cs
<1> HIDE DEF t, w, v
<1>5. [m EXCEPT !.window = Slide(@, b.close), !.seen = @ + 1] = n
  <2>1. PICK j : j = [m EXCEPT !.window = Slide(@, b.close), !.seen = @ + 1]
    OBVIOUS
  <2>2. j = [fast |-> m.fast, slow |-> m.slow, gap |-> m.gap, adx |-> m.adx,
             coarseFast |-> m.coarseFast, coarseSlow |-> m.coarseSlow, cursor |-> m.cursor,
             consumed |-> m.consumed, short |-> m.short, long |-> m.long, ratio |-> m.ratio,
             window |-> Slide(m.window, b.close), seen |-> m.seen + 1]
    BY <2>1 DEF MemoryShape
  <2> QED
    BY <1>4, <2>1, <2>2 DEF v
<1>6. r = Says(n, IF Len(s) + 1 < P.lookback + 1 THEN {} ELSE Beyond(b.close, Range(w), Range(w)))
  <2> HIDE DEF n
  <2> QED
    BY <1>4, <1>5 DEF CloseChannelOn
<1>7. MemoryShape(n) /\ ChannelMemory(n, t)
  <2>1. n.window = v /\ n.seen = Len(t)
    BY <1>1
  <2>2. MemoryShape(n)
    BY DEF MemoryShape
  <2> QED
    BY <1>3, <2>1, <2>2 DEF ChannelMemory
<1> HIDE DEF n
<1>8. /\ r.memory = n
      /\ r.signal = IF Len(s) + 1 < P.lookback + 1 THEN {} ELSE Beyond(b.close, Range(w), Range(w))
  BY <1>6 DEF Says
<1>9. CloseChannel(t) = IF Len(s) + 1 < P.lookback + 1 THEN {}
                        ELSE Beyond(b.close, Range(w), Range(w))
  <2>1. CASE Len(s) + 1 < P.lookback + 1
    BY <1>1, <2>1 DEF CloseChannel
  <2>2. CASE ~(Len(s) + 1 < P.lookback + 1)
    <3>1. w = Recent(cs, P.lookback)
      BY <1>1, <1>2, <1>3, <2>2, Periods
    <3>2. CloseChannel(t) = LET window == Range(Recent(cs, P.lookback)) IN Beyond(b.close, window, window)
      BY <1>1, <2>2 DEF CloseChannel, cs
    <3> QED
      BY <2>2, <3>1, <3>2
  <2> QED
    BY <2>1, <2>2
<1> QED
  BY <1>7, <1>8, <1>9 DEF t

\* The volatility expansion keeps two average ranges, their ratio, and the last candles.
RatioOver(s) == Ratio(Atr(s, P.short), Atr(s, P.long))
ExpansionMemory(m, s) ==
    /\ AtrMemory(m.short, P.short, s) /\ AtrMemory(m.long, P.long, s)
    /\ m.ratio = RatioOver(s) /\ m.window = WindowOf(s) /\ m.seen = Len(s)

\* Its update keeps that up, and says what the reference says of the candle.
LEMMA ExpansionRemembers ==
  ASSUME NEW s \in Seq(Bar), NEW b \in Bar, NEW m, MemoryShape(m), ExpansionMemory(m, s)
  PROVE  LET r == VolatilityExpansionOn(m, b)
         IN /\ MemoryShape(r.memory) /\ ExpansionMemory(r.memory, Append(s, b))
            /\ r.signal = VolatilityExpansion(Append(s, b))
<1> DEFINE t == Append(s, b)
           w == WindowOf(s)
           v == Slide(w, b)
           short == AtrOn(m.short, P.short, b)
           long == AtrOn(m.long, P.long, b)
           ratio == Ratio(short.atr, long.atr)
           n == [fast |-> m.fast, slow |-> m.slow, gap |-> m.gap, adx |-> m.adx,
                 coarseFast |-> m.coarseFast, coarseSlow |-> m.coarseSlow, cursor |-> m.cursor,
                 consumed |-> m.consumed, short |-> short, long |-> long, ratio |-> ratio,
                 window |-> v, seen |-> Len(s) + 1]
           said == IF Len(s) + 1 < Warm THEN {}
                   ELSE IF Expanding(RatioOver(t)) THEN Beyond(b.close, Highs(w), Lows(w))
                   ELSE IF Expanding(RatioOver(s)) THEN {"FLAT"} ELSE {}
           r == VolatilityExpansionOn(m, b)
<1>1. t \in Seq(Bar) /\ Len(t) = Len(s) + 1 /\ Len(s) \in Nat /\ Front(t) = s /\ Last(t) = b
  BY BeforeTheLast
<1>2. /\ v = WindowOf(t)
      /\ P.lookback <= Len(s) => w = Recent(s, P.lookback)
  BY WindowSlides, Periods
<1>3. m.window = w /\ m.seen = Len(s) /\ m.ratio = RatioOver(s)
  BY DEF ExpansionMemory
<1>4. AtrMemory(short, P.short, t) /\ AtrMemory(long, P.long, t)
  BY AtrRemembers, Periods DEF ExpansionMemory
<1> HIDE DEF t, w, v, short, long
<1>5. ratio = RatioOver(t)
  BY <1>4 DEF AtrMemory, RatioOver
<1> HIDE DEF ratio
<1>6. [m EXCEPT !.short = short, !.long = long, !.ratio = ratio, !.window = Slide(@, b),
                !.seen = @ + 1] = n
  <2>1. PICK j : j = [m EXCEPT !.short = short, !.long = long, !.ratio = ratio,
                               !.window = Slide(@, b), !.seen = @ + 1]
    OBVIOUS
  <2>2. j = [fast |-> m.fast, slow |-> m.slow, gap |-> m.gap, adx |-> m.adx,
             coarseFast |-> m.coarseFast, coarseSlow |-> m.coarseSlow, cursor |-> m.cursor,
             consumed |-> m.consumed, short |-> short, long |-> long, ratio |-> ratio,
             window |-> Slide(m.window, b), seen |-> m.seen + 1]
    BY <2>1 DEF MemoryShape
  <2> QED
    BY <1>3, <2>1, <2>2 DEF v
<1>7. r = Says(n, said)
  <2> HIDE DEF n
  <2> QED
    BY <1>3, <1>5, <1>6 DEF VolatilityExpansionOn, short, long, ratio
<1>8. MemoryShape(n) /\ ExpansionMemory(n, t)
  <2>1. n.window = v /\ n.seen = Len(t) /\ n.short = short /\ n.long = long /\ n.ratio = ratio
    BY <1>1
  <2>2. MemoryShape(n)
    BY DEF MemoryShape
  <2> HIDE DEF n
  <2> QED
    BY <1>2, <1>4, <1>5, <2>1, <2>2 DEF ExpansionMemory
<1> HIDE DEF n, said
<1>9. r.memory = n /\ r.signal = said
  BY <1>7 DEF Says
<1>10. VolatilityExpansion(t) = said
  <2>1. Warm = (IF P.long >= P.lookback THEN P.long ELSE P.lookback) + 1
    BY Periods, MaxOfTwo DEF Warm
  <2>2. CASE Len(s) + 1 < Warm
    BY <1>1, <2>2 DEF VolatilityExpansion, said
  <2>3. CASE ~(Len(s) + 1 < Warm)
    <3>1. w = Recent(s, P.lookback)
      BY <1>1, <1>2, <2>1, <2>3, Periods
    <3>2. VolatilityExpansion(t)
             = IF Expanding(RatioOver(t))
               THEN Beyond(b.close, Highs(Recent(s, P.lookback)), Lows(Recent(s, P.lookback)))
               ELSE IF Expanding(RatioOver(s)) THEN {"FLAT"} ELSE {}
      BY <1>1, <2>3 DEF VolatilityExpansion, RatioOver
    <3> QED
      BY <2>3, <3>1, <3>2 DEF said
  <2> QED
    BY <2>2, <2>3
<1> QED
  BY <1>8, <1>9, <1>10 DEF t

-----------------------------------------------------------------------------
(* The coarse candles, remembered: a cursor, and the averages of the closes  *)
(* of the finished candles before it.                                       *)

CoarseCandle == [start : Int, close : Nat, final : BOOLEAN]

\* Candles that end in the order in which they are given.
InOrder(q) ==
    /\ q \in Seq(CoarseCandle)
    /\ \A i \in 1 .. Len(q) : EndTime(q[i].start) \in Int
    /\ \A i \in 1 .. Len(q), j \in 1 .. Len(q) :
          i < j => EndTime(q[i].start) <= EndTime(q[j].start)

FinalsOf(q) == {c \in Range(q) : c.final}
FinalCloses(q, k) == Closes(Kept(SubSeq(q, 1, k), FinalsOf(q)))

\* The update of an exponential average, as a step of a fold.
FeedStep(p) == [z \in EmaState \X Int |-> EmaOn(z[1], p, z[2])]

\* It can be folded.
LEMMA FeedSteps ==
  ASSUME NEW p \in Nat, p > 0
  PROVE  /\ Foldable(FeedStep(p), EmaState, Int)
         /\ \A e \in EmaState, c \in Int : FeedStep(p)[<<e, c>>] = EmaOn(e, p, c)
<1>1. ASSUME NEW e \in EmaState, NEW c \in Int PROVE EmaOn(e, p, c) \in EmaState
  <2>1. /\ e = [buffer |-> e.buffer, value |-> e.value]
        /\ e.buffer \in Seq(Int) /\ e.value \in SUBSET Int
    BY DEF EmaState
  <2>2. CASE e.value # {}
    <3>1. Some(e.value) \in Int
      BY <2>1, <2>2 DEF Some
    <3>2. Smoothed(Some(e.value), c, p) \in Int
      <4> DEFINE v == Some(e.value)
      <4>1. v \in Int
        BY <3>1
      <4> HIDE DEF v
      <4>2. SmoothStep(p)[<<v, c>>] = Smoothed(v, c, p) /\ SmoothStep(p)[<<v, c>>] \in Int
        BY <4>1, SmoothSteps DEF Foldable
      <4> QED
        BY <4>2 DEF v
    <3>3. EmaOn(e, p, c) = [e EXCEPT !.value = {Smoothed(Some(@), c, p)}]
      BY <2>2 DEF EmaOn
    <3>4. EmaOn(e, p, c) = [buffer |-> e.buffer, value |-> {Smoothed(Some(e.value), c, p)}]
      BY <2>1, <3>3
    <3> QED
      BY <2>1, <3>2, <3>4 DEF EmaState
  <2>3. CASE e.value = {}
    <3> DEFINE d == Append(e.buffer, c)
    <3>1. d \in Seq(Int) /\ Len(d) # 0
      BY <2>1
    <3>2. Mean(d) \in Int
      BY <3>1, MeanIsAnInteger
    <3>3. EmaOn(e, p, c) = IF Len(d) < p THEN [e EXCEPT !.buffer = d]
                           ELSE [buffer |-> <<>>, value |-> {Mean(d)}]
      BY <2>3 DEF EmaOn
    <3> HIDE DEF d
    <3>4. [e EXCEPT !.buffer = d] \in EmaState
      BY <2>1, <3>1 DEF EmaState
    <3>5. [buffer |-> <<>>, value |-> {Mean(d)}] \in EmaState
      BY <3>2 DEF EmaState
    <3> QED
      BY <3>3, <3>4, <3>5
  <2> QED
    BY <2>2, <2>3
<1> QED
  BY <1>1 DEF FeedStep, Foldable

\* The closes of some candles, after an average of those before: one by one.
\* c is the cursor, k how far it has come.
FedOn(q, c, k) == Closes(Kept(SubSeq(q, c + 1, k), FinalsOf(q)))

Feeds(q, c, p, k) ==
    /\ FinalCloses(q, k) \in Seq(Int) /\ FedOn(q, c, k) \in Seq(Int)
    /\ Len(FinalCloses(q, k)) = Len(FinalCloses(q, c)) + Len(FedOn(q, c, k))
    /\ Folded(FeedStep(p), EmaMemory(p, FinalCloses(q, c)), FedOn(q, c, k))
          = EmaMemory(p, FinalCloses(q, k))

\* The closes of the finished candles, a candle on.
LEMMA FinalClosesAre ==
  ASSUME NEW q \in Seq(CoarseCandle), NEW k \in 0 .. Len(q)
  PROVE  /\ FinalCloses(q, k) \in Seq(Int)
         /\ Len(FinalCloses(q, k)) = Len(Kept(SubSeq(q, 1, k), FinalsOf(q)))
         /\ FinalCloses(q, 0) = <<>>
         /\ k < Len(q) => FinalCloses(q, k + 1) = IF q[k + 1].final
                                                  THEN Append(FinalCloses(q, k), q[k + 1].close)
                                                  ELSE FinalCloses(q, k)
<1> DEFINE S == FinalsOf(q)
           a == SubSeq(q, 1, k)
           A == Kept(a, S)
<1>1. ClosesIn(CoarseCandle)
  BY DEF ClosesIn, CoarseCandle
<1>2. /\ a \in Seq(CoarseCandle) /\ SubSeq(q, 1, 0) = <<>>
      /\ k < Len(q) => /\ q[k + 1] \in CoarseCandle
                       /\ SubSeq(q, 1, k + 1) = Append(a, q[k + 1])
  <2>1. k \in Nat
    OBVIOUS
  <2> QED
    BY <2>1, PrefixesGrow
<1> HIDE DEF S, a
<1>3. A \in Seq(CoarseCandle) /\ Kept(<<>>, S) = <<>>
  BY <1>2, KeptOn
<1>4. \A x \in CoarseCandle : Kept(Append(a, x), S) = IF x \in S THEN Append(A, x) ELSE A
  BY <1>2, KeptOn
<1> HIDE DEF A
<1>5. Closes(A) \in Seq(Int) /\ Len(Closes(A)) = Len(A) /\ Closes(<<>>) = <<>>
  BY <1>1, <1>3, AnyClosesGrow
<1>6. \A x \in CoarseCandle : Closes(Append(A, x)) = Append(Closes(A), x.close)
  BY <1>1, <1>3, AnyClosesGrow
<1>7. FinalCloses(q, k) = Closes(A) /\ FinalCloses(q, 0) = <<>>
  BY <1>2, <1>3, <1>5 DEF FinalCloses, A, a, S
<1>8. ASSUME k < Len(q)
      PROVE  FinalCloses(q, k + 1) = IF q[k + 1].final THEN Append(Closes(A), q[k + 1].close)
                                     ELSE Closes(A)
  <2> DEFINE x == q[k + 1]
  <2>1. x \in CoarseCandle /\ SubSeq(q, 1, k + 1) = Append(a, x)
    BY <1>2, <1>8
  <2>2. x \in S <=> x.final
    <3>1. k + 1 \in DOMAIN q
      BY <1>8
    <3>2. x \in Range(q)
      BY <3>1 DEF Range
    <3> QED
      BY <3>2 DEF S, FinalsOf
  <2> HIDE DEF x
  <2>3. FinalCloses(q, k + 1) = Closes(Kept(Append(a, x), S))
    BY <2>1 DEF FinalCloses, S
  <2>4. Kept(Append(a, x), S) = IF x.final THEN Append(A, x) ELSE A
    BY <1>4, <2>1, <2>2
  <2>5. Closes(Append(A, x)) = Append(Closes(A), x.close)
    BY <1>6, <2>1
  <2>6. FinalCloses(q, k + 1) = IF x.final THEN Append(Closes(A), x.close) ELSE Closes(A)
    BY <2>3, <2>4, <2>5
  <2> QED
    BY <2>6 DEF x
<1> QED
  BY <1>5, <1>7, <1>8 DEF A, a, S

\* The closes after the cursor, a candle on.
LEMMA FedOnIs ==
  ASSUME NEW q \in Seq(CoarseCandle), NEW c \in 0 .. Len(q), NEW k \in c .. Len(q)
  PROVE  /\ FedOn(q, c, k) \in Seq(Int) /\ FedOn(q, c, c) = <<>>
         /\ k < Len(q) => FedOn(q, c, k + 1) = IF q[k + 1].final
                                               THEN Append(FedOn(q, c, k), q[k + 1].close)
                                               ELSE FedOn(q, c, k)
<1> DEFINE S == FinalsOf(q)
           a == SubSeq(q, c + 1, k)
           A == Kept(a, S)
<1>1. ClosesIn(CoarseCandle)
  BY DEF ClosesIn, CoarseCandle
<1>2. a \in Seq(CoarseCandle) /\ SubSeq(q, c + 1, c) = <<>>
  OBVIOUS
<1>9. ASSUME k < Len(q)
      PROVE  q[k + 1] \in CoarseCandle /\ SubSeq(q, c + 1, k + 1) = Append(a, q[k + 1])
  <2> DEFINE e == SubSeq(q, 1, k + 1)
  <2>1. k \in Nat /\ c \in Nat /\ c <= k
    OBVIOUS
  <2>2. q[k + 1] \in CoarseCandle
    BY <1>9
  <2>3. a = [i \in 1 .. k - c |-> q[c + i]]
    OBVIOUS
  <2>4. SubSeq(q, c + 1, k + 1) = [i \in 1 .. k - c + 1 |-> q[c + i]]
    BY <1>9
  <2>5. Append(a, q[k + 1]) = [i \in 1 .. k - c + 1 |-> IF i = k - c + 1 THEN q[k + 1] ELSE a[i]]
    BY <1>2
  <2>6. \A i \in 1 .. k - c + 1 : q[c + i] = IF i = k - c + 1 THEN q[k + 1] ELSE a[i]
    BY <2>1, <2>3
  <2> QED
    BY <2>2, <2>4, <2>5, <2>6
<1> HIDE DEF S, a
<1>3. A \in Seq(CoarseCandle) /\ Kept(<<>>, S) = <<>>
  BY <1>2, KeptOn
<1>4. \A x \in CoarseCandle : Kept(Append(a, x), S) = IF x \in S THEN Append(A, x) ELSE A
  BY <1>2, KeptOn
<1> HIDE DEF A
<1>5. Closes(A) \in Seq(Int) /\ Len(Closes(A)) = Len(A) /\ Closes(<<>>) = <<>>
  BY <1>1, <1>3, AnyClosesGrow
<1>6. \A x \in CoarseCandle : Closes(Append(A, x)) = Append(Closes(A), x.close)
  BY <1>1, <1>3, AnyClosesGrow
<1>7. FedOn(q, c, k) = Closes(A) /\ FedOn(q, c, c) = <<>>
  BY <1>2, <1>3, <1>5 DEF FedOn, A, a, S
<1>8. ASSUME k < Len(q)
      PROVE  FedOn(q, c, k + 1) = IF q[k + 1].final THEN Append(Closes(A), q[k + 1].close)
                                  ELSE Closes(A)
  <2> DEFINE x == q[k + 1]
  <2>1. x \in CoarseCandle /\ SubSeq(q, c + 1, k + 1) = Append(a, x)
    BY <1>9, <1>8
  <2>2. x \in S <=> x.final
    <3>1. k + 1 \in DOMAIN q
      BY <1>8
    <3>2. x \in Range(q)
      BY <3>1 DEF Range
    <3> QED
      BY <3>2 DEF S, FinalsOf
  <2> HIDE DEF x
  <2>3. FedOn(q, c, k + 1) = Closes(Kept(Append(a, x), S))
    BY <2>1 DEF FedOn, S
  <2>4. Kept(Append(a, x), S) = IF x.final THEN Append(A, x) ELSE A
    BY <1>4, <2>1, <2>2
  <2>5. Closes(Append(A, x)) = Append(Closes(A), x.close)
    BY <1>6, <2>1
  <2>6. FedOn(q, c, k + 1) = IF x.final THEN Append(Closes(A), x.close) ELSE Closes(A)
    BY <2>3, <2>4, <2>5
  <2> QED
    BY <2>6 DEF x
<1> QED
  BY <1>5, <1>7, <1>8 DEF A, a, S

\* So for any number of candles after the cursor, by induction.
LEMMA FeedsOn ==
  ASSUME NEW p \in Nat, p > 0, NEW q \in Seq(CoarseCandle), NEW c \in 0 .. Len(q),
         NEW k \in c .. Len(q)
  PROVE  Feeds(q, c, p, k)
<1> DEFINE L == Len(q)
           F == FeedStep(p)
           e == EmaMemory(p, FinalCloses(q, c))
           T == {d \in Nat : c + d <= L => Feeds(q, c, p, c + d)}
<1>1. L \in Nat /\ c \in Nat /\ c <= L
  OBVIOUS
<1>2. FinalCloses(q, c) \in Seq(Int) /\ e \in EmaState
  <2>1. FinalCloses(q, c) \in Seq(Int)
    BY FinalClosesAre
  <2> QED
    BY <2>1, EmaMemoryIs
<1>3. Foldable(F, EmaState, Int) /\ \A v \in EmaState, x \in Int : F[<<v, x>>] = EmaOn(v, p, x)
  BY FeedSteps
<1> HIDE DEF F, e
<1>4. Feeds(q, c, p, c)
  <2>1. c \in c .. Len(q)
    BY <1>1
  <2>2. FedOn(q, c, c) = <<>>
    BY <2>1, FedOnIs
  <2>3. Folded(F, e, <<>>) = e
    BY <1>2, <1>3, FoldsNothing
  <2>4. Len(FinalCloses(q, c)) = Len(FinalCloses(q, c)) + 0 /\ <<>> \in Seq(Int) /\ Len(<<>>) = 0
    BY <1>2
  <2> QED
    BY <1>2, <2>2, <2>3, <2>4 DEF Feeds, F, e
<1>5. ASSUME NEW j \in c .. L, j < L, Feeds(q, c, p, j) PROVE Feeds(q, c, p, j + 1)
  <2> DEFINE x == q[j + 1]
             A == FinalCloses(q, j)
             R == FedOn(q, c, j)
  <2>1. j \in 0 .. Len(q) /\ j \in c .. Len(q) /\ j < Len(q)
    BY <1>1, <1>5
  <2>2. x \in CoarseCandle
    BY <2>1
  <2>3. x.close \in Int /\ x.final \in BOOLEAN
    BY <2>2 DEF CoarseCandle
  <2>4. FinalCloses(q, j + 1) = IF x.final THEN Append(A, x.close) ELSE A
    BY <2>1, FinalClosesAre
  <2>5. FedOn(q, c, j + 1) = IF x.final THEN Append(R, x.close) ELSE R
    BY <2>1, FedOnIs
  <2>6. /\ A \in Seq(Int) /\ R \in Seq(Int) /\ Len(A) = Len(FinalCloses(q, c)) + Len(R)
        /\ Folded(F, e, R) = EmaMemory(p, A)
    BY <1>5 DEF Feeds, F, e
  <2> HIDE DEF x, A, R
  <2>7. CASE ~x.final
    BY <2>4, <2>5, <2>6, <2>7 DEF Feeds, F, e
  <2>8. CASE x.final
    <3> DEFINE y == x.close
    <3>1. y \in Int
      BY <2>3
    <3> HIDE DEF y
    <3>2. Folded(F, e, Append(R, y)) = F[<<Folded(F, e, R), y>>]
      BY <1>2, <1>3, <2>6, <3>1, FoldsOn
    <3>3. EmaMemory(p, A) \in EmaState
      BY <2>6, EmaMemoryIs
    <3>4. F[<<EmaMemory(p, A), y>>] = EmaOn(EmaMemory(p, A), p, y)
      BY <1>3, <3>1, <3>3
    <3>5. EmaOn(EmaMemory(p, A), p, y) = EmaMemory(p, Append(A, y))
      BY <2>6, <3>1, EmaRemembers
    <3>6. FinalCloses(q, j + 1) = Append(A, y) /\ FedOn(q, c, j + 1) = Append(R, y)
      BY <2>4, <2>5, <2>8 DEF y
    <3>7. /\ Append(A, y) \in Seq(Int) /\ Append(R, y) \in Seq(Int)
          /\ Len(Append(A, y)) = Len(A) + 1 /\ Len(Append(R, y)) = Len(R) + 1
          /\ Len(A) \in Nat /\ Len(R) \in Nat /\ Len(FinalCloses(q, c)) \in Nat
      BY <1>2, <2>6, <3>1
    <3>8. Folded(F, e, Append(R, y)) = EmaMemory(p, Append(A, y))
      BY <2>6, <3>2, <3>4, <3>5
    <3>9. Len(Append(A, y)) = Len(FinalCloses(q, c)) + Len(Append(R, y))
      BY <2>6, <3>7
    <3> QED
      BY <3>6, <3>7, <3>8, <3>9 DEF Feeds, F, e
  <2> QED
    BY <2>3, <2>7, <2>8
<1>6. 0 \in T
  BY <1>1, <1>4
<1>7. \A d \in T : d + 1 \in T
  <2> SUFFICES ASSUME NEW d \in T, c + (d + 1) <= L PROVE Feeds(q, c, p, c + (d + 1))
    OBVIOUS
  <2>1. d \in Nat /\ c + d \in c .. L /\ c + d < L /\ c + (d + 1) = (c + d) + 1
    BY <1>1
  <2>2. Feeds(q, c, p, c + d)
    BY <2>1
  <2> QED
    BY <1>5, <2>1, <2>2
<1>8. T \subseteq Nat
  OBVIOUS
<1> HIDE DEF T
<1>9. \A d \in Nat : d \in T
  BY <1>6, <1>7, <1>8, Upwards
<1>10. k - c \in Nat /\ c + (k - c) = k /\ k <= L
  BY <1>1
<1> QED
  BY <1>9, <1>10 DEF T

\* The cursor has passed the candles over by t; the averages are of their closes.
CoarseMemory(m, q, t) ==
    /\ m.cursor \in 0 .. Len(q)
    /\ \A i \in 1 .. m.cursor : q[i].final => OverBy(q[i], t)
    /\ m.coarseFast = EmaMemory(P.coarseFast, FinalCloses(q, m.cursor))
    /\ m.coarseSlow = EmaMemory(P.coarseSlow, FinalCloses(q, m.cursor))
    /\ m.consumed = Len(FinalCloses(q, m.cursor))

\* What was over stays over.
LEMMA CoarseMemoryLasts ==
  ASSUME NEW q, InOrder(q), NEW t \in Int, NEW u \in Int, t <= u, NEW m, CoarseMemory(m, q, t)
  PROVE  CoarseMemory(m, q, u)
<1>1. ASSUME NEW i \in 1 .. m.cursor, q[i].final PROVE OverBy(q[i], u)
  <2>1. i \in 1 .. Len(q)
    BY DEF CoarseMemory, InOrder
  <2>2. EndTime(q[i].start) \in Int /\ OverBy(q[i], t)
    BY <1>1, <2>1 DEF InOrder, CoarseMemory
  <2> DEFINE e == EndTime(q[i].start)
  <2>3. e \in Int /\ e <= t
    BY <2>2 DEF OverBy
  <2> HIDE DEF e
  <2>4. e <= u
    BY <2>3
  <2> QED
    BY <2>4 DEF OverBy, e
<1> QED
  BY <1>1 DEF CoarseMemory

\* How far the cursor goes: before the first finished candle not over.
AheadOf(c, q, t) == {n \in c + 1 .. Len(q) : q[n].final /\ ~OverBy(q[n], t)}
UntilOf(c, q, t) ==
    IF AheadOf(c, q, t) = {} THEN Len(q) ELSE Min(AheadOf(c, q, t)) - 1

\* Every set of naturals has a least.
LEMMA LeastNatural ==
  ASSUME NEW A, A \subseteq Nat, A # {}
  PROVE  \E v \in A : \A w \in A : v <= w
<1> DEFINE T == {n \in Nat : (\E x \in A : x <= n) => \E v \in A : \A w \in A : v <= w}
<1>1. PICK a \in A : TRUE
  OBVIOUS
<1>2. 0 \in T
  <2> SUFFICES ASSUME NEW x \in A, x <= 0 PROVE \E v \in A : \A w \in A : v <= w
    OBVIOUS
  <2>1. \A w \in A : x <= w
    OBVIOUS
  <2> QED
    BY <2>1
<1>3. \A n \in T : n + 1 \in T
  <2> SUFFICES ASSUME NEW n \in T, NEW x \in A, x <= n + 1
               PROVE  \E v \in A : \A w \in A : v <= w
    OBVIOUS
  <2>1. CASE \E y \in A : y <= n
    BY <2>1
  <2>2. CASE ~ \E y \in A : y <= n
    <3>1. \A w \in A : x <= w
      BY <2>2
    <3> QED
      BY <3>1
  <2> QED
    BY <2>1, <2>2
<1>4. T \subseteq Nat
  OBVIOUS
<1>5. a \in Nat /\ a <= a
  OBVIOUS
<1> HIDE DEF T
<1>6. a \in T
  BY <1>2, <1>3, <1>4, <1>5, Upwards
<1> QED
  BY <1>1, <1>5, <1>6 DEF T

\* The candles it has then passed are, of the finished ones, those that are over:
\* a cursor misses none and takes none too early, because they end in order.
LEMMA CursorSeparates ==
  ASSUME NEW q, InOrder(q), NEW t \in Int, NEW c \in 0 .. Len(q),
         \A i \in 1 .. c : q[i].final => OverBy(q[i], t)
  PROVE  LET k == UntilOf(c, q, t)
         IN /\ k \in c .. Len(q)
            /\ \A i \in 1 .. k : q[i].final => OverBy(q[i], t)
            /\ \A i \in k + 1 .. Len(q) : ~(q[i].final /\ OverBy(q[i], t))
<1> DEFINE L == Len(q)
           A == AheadOf(c, q, t)
           k == UntilOf(c, q, t)
           Ended(i) == EndTime(q[i].start) <= t
<1>1. /\ L \in Nat /\ c \in 0 .. L
      /\ \A i \in 1 .. L : EndTime(q[i].start) \in Int
      /\ \A i \in 1 .. L, j \in 1 .. L : i < j => EndTime(q[i].start) <= EndTime(q[j].start)
  BY DEF InOrder
<1>2. \A i \in 1 .. L, j \in 1 .. L : i < j /\ Ended(j) => Ended(i)
  <2> SUFFICES ASSUME NEW i \in 1 .. L, NEW j \in 1 .. L, i < j, Ended(j) PROVE Ended(i)
    OBVIOUS
  <2> DEFINE d == EndTime(q[i].start)
             e == EndTime(q[j].start)
  <2>1. d \in Int /\ e \in Int /\ d <= e /\ e <= t
    BY <1>1
  <2> HIDE DEF d, e
  <2>2. d <= t
    BY <2>1
  <2> QED
    BY <2>2 DEF d
<1>3. \A i \in 1 .. L : OverBy(q[i], t) <=> Ended(i)
  BY DEF OverBy
<1> HIDE DEF Ended
<1>4. A = {n \in c + 1 .. L : q[n].final /\ ~Ended(n)}
  BY <1>1, <1>3 DEF AheadOf
<1>5. \A i \in 1 .. c : q[i].final => Ended(i)
  BY <1>1, <1>3
<1> HIDE DEF L
<1>6. CASE A = {}
  <2>1. k = L
    BY <1>6 DEF UntilOf, L
  <2>2. \A i \in 1 .. k : q[i].final => Ended(i)
    BY <1>1, <1>4, <1>5, <1>6, <2>1
  <2> QED
    BY <1>1, <1>3, <2>1, <2>2 DEF L
<1>7. CASE A # {}
  <2> DEFINE j == Min(A)
  <2>1. A \subseteq Nat
    BY <1>1, <1>4
  <2>2. \E v \in A : \A w \in A : v <= w
    BY <1>7, <2>1, LeastNatural
  <2>3. j \in A /\ \A w \in A : j <= w
    BY <2>2 DEF Min
  <2>4. k = j - 1
    BY <1>7 DEF UntilOf
  <2> HIDE DEF A, j, k
  <2>5. j \in c + 1 .. L /\ q[j].final /\ ~Ended(j)
    BY <1>4, <2>3
  <2>6. k \in c .. L
    BY <1>1, <2>4, <2>5
  <2>7. ASSUME NEW i \in 1 .. k, q[i].final PROVE Ended(i)
    <3>1. i \in Nat /\ i < j /\ i \in 1 .. L
      BY <1>1, <2>4, <2>5, <2>6
    <3>2. CASE i <= c
      BY <1>1, <1>5, <2>7, <3>1, <3>2
    <3>3. CASE ~(i <= c)
      <4>1. i \in c + 1 .. L
        BY <1>1, <3>1, <3>3
      <4>2. i \notin A
        BY <2>1, <2>3, <3>1
      <4> QED
        BY <1>4, <2>7, <4>1, <4>2
    <3> QED
      BY <3>2, <3>3
  <2>8. ASSUME NEW i \in k + 1 .. L PROVE ~Ended(i)
    <3>1. i \in 1 .. L /\ j \in 1 .. L /\ (i = j \/ j < i)
      BY <1>1, <2>4, <2>5, <2>6
    <3> QED
      BY <1>2, <2>5, <3>1
  <2>9. (\A i \in 1 .. k : q[i].final => OverBy(q[i], t))
    <3> SUFFICES ASSUME NEW i \in 1 .. k, q[i].final PROVE OverBy(q[i], t)
      OBVIOUS
    <3>1. i \in 1 .. L
      BY <1>1, <2>6
    <3> QED
      BY <1>3, <2>7, <3>1
  <2>10. \A i \in k + 1 .. L : ~(q[i].final /\ OverBy(q[i], t))
    <3> SUFFICES ASSUME NEW i \in k + 1 .. L PROVE ~OverBy(q[i], t)
      OBVIOUS
    <3>1. i \in 1 .. L
      BY <1>1, <2>6
    <3> QED
      BY <1>3, <2>8, <3>1
  <2> QED
    BY <2>6, <2>9, <2>10 DEF k, L
<1> QED
  BY <1>6, <1>7

\* So the closes remembered are those of the visible candles.
LEMMA VisibleBeforeTheCursor ==
  ASSUME NEW q, InOrder(q), NEW t \in Int, NEW k \in 0 .. Len(q),
         \A i \in 1 .. k : q[i].final => OverBy(q[i], t),
         \A i \in k + 1 .. Len(q) : ~(q[i].final /\ OverBy(q[i], t))
  PROVE  Visible(q, t) = Kept(SubSeq(q, 1, k), FinalsOf(q))
<1> DEFINE V == {c \in Range(q) : c.final /\ OverBy(c, t)}
           U == FinalsOf(q)
           a == SubSeq(q, 1, k)
<1>1. q \in Seq(CoarseCandle)
  BY DEF InOrder
<1>2. \A i \in 1 .. Len(q) : q[i] \in Range(q)
  BY <1>1 DEF Range
<1>3. \A i \in 1 .. Len(q) : (q[i] \in V <=> q[i].final /\ OverBy(q[i], t)) /\ (q[i] \in U <=> q[i].final)
  BY <1>2 DEF FinalsOf
<1> HIDE DEF V, U
<1>4. \A i \in k + 1 .. Len(q) : q[i] \notin V
  BY <1>3
<1>5. Kept(q, V) = Kept(a, V)
  BY <1>1, <1>4, KeptOfPrefix
<1>6. a \in Seq(CoarseCandle) /\ Len(a) = k /\ \A i \in 1 .. k : a[i] = q[i]
  BY <1>1
<1> HIDE DEF a
<1>7. \A i \in 1 .. Len(a) : a[i] \in V <=> a[i] \in U
  <2> SUFFICES ASSUME NEW i \in 1 .. k PROVE q[i] \in V <=> q[i] \in U
    BY <1>6
  <2>1. i \in 1 .. Len(q)
    BY <1>1
  <2> QED
    BY <1>3, <2>1
<1>8. Kept(a, V) = Kept(a, U)
  BY <1>6, <1>7, KeptAlike
<1> QED
  BY <1>5, <1>8 DEF Visible, V, U, a

\* _advance_h4: afterwards the averages are those of the candles visible now.
Advances(n, m, q, t) ==
    /\ MemoryShape(n) /\ CoarseMemory(n, q, t)
    /\ FinalCloses(q, n.cursor) = Closes(Visible(q, t))
    /\ Len(Visible(q, t)) = Len(FinalCloses(q, n.cursor))
    /\ n.fast = m.fast /\ n.slow = m.slow /\ n.gap = m.gap

\* The cursor is advanced that way.
LEMMA AdvanceRemembers ==
  ASSUME NEW q, InOrder(q), NEW t \in Int, NEW m, MemoryShape(m), CoarseMemory(m, q, t)
  PROVE  Advances(AdvanceCoarse(m, q, t), m, q, t)
<1> DEFINE c == m.cursor
           k == UntilOf(c, q, t)
           closes == FedOn(q, c, k)
           Fed(e, p) == Folded(FeedStep(p), e, closes)
           fast == Fed(m.coarseFast, P.coarseFast)
           slow == Fed(m.coarseSlow, P.coarseSlow)
           n == [fast |-> m.fast, slow |-> m.slow, gap |-> m.gap, adx |-> m.adx,
                 coarseFast |-> fast, coarseSlow |-> slow, cursor |-> k,
                 consumed |-> m.consumed + Len(closes), short |-> m.short, long |-> m.long,
                 ratio |-> m.ratio, window |-> m.window, seen |-> m.seen]
<1>1. q \in Seq(CoarseCandle) /\ c \in 0 .. Len(q)
      /\ \A i \in 1 .. c : q[i].final => OverBy(q[i], t)
  BY DEF InOrder, CoarseMemory
<1> HIDE DEF c
<1>2. /\ k \in c .. Len(q)
      /\ \A i \in 1 .. k : q[i].final => OverBy(q[i], t)
      /\ \A i \in k + 1 .. Len(q) : ~(q[i].final /\ OverBy(q[i], t))
  BY <1>1, CursorSeparates
<1> HIDE DEF k
<1>3. k \in 0 .. Len(q)
  BY <1>1, <1>2
<1>4. Visible(q, t) = Kept(SubSeq(q, 1, k), FinalsOf(q))
  BY <1>2, <1>3, VisibleBeforeTheCursor
<1>5. /\ FinalCloses(q, k) = Closes(Visible(q, t)) /\ FinalCloses(q, k) \in Seq(Int)
      /\ Len(FinalCloses(q, k)) = Len(Visible(q, t))
  <2>1. FinalCloses(q, k) \in Seq(Int)
        /\ Len(FinalCloses(q, k)) = Len(Kept(SubSeq(q, 1, k), FinalsOf(q)))
    BY <1>1, <1>3, FinalClosesAre
  <2> QED
    BY <1>4, <2>1 DEF FinalCloses
<1>6. fast = EmaMemory(P.coarseFast, FinalCloses(q, k))
  <2>1. Feeds(q, c, P.coarseFast, k)
    BY <1>1, <1>2, FeedsOn, Periods
  <2>2. m.coarseFast = EmaMemory(P.coarseFast, FinalCloses(q, c))
    BY DEF CoarseMemory, c
  <2> QED
    BY <2>1, <2>2 DEF Feeds
<1>7. /\ slow = EmaMemory(P.coarseSlow, FinalCloses(q, k))
      /\ m.consumed + Len(closes) = Len(FinalCloses(q, k))
  <2>1. Feeds(q, c, P.coarseSlow, k)
    BY <1>1, <1>2, FeedsOn, Periods
  <2>2. m.coarseSlow = EmaMemory(P.coarseSlow, FinalCloses(q, c)) /\ m.consumed = Len(FinalCloses(q, c))
    BY DEF CoarseMemory, c
  <2> QED
    BY <2>1, <2>2 DEF Feeds
<1>8. AdvanceCoarse(m, q, t) = n
  <2>1. AdvanceCoarse(m, q, t)
           = [m EXCEPT !.coarseFast = fast, !.coarseSlow = slow,
                       !.consumed = m.consumed + Len(closes), !.cursor = k]
    BY DEF AdvanceCoarse, AheadOf, UntilOf, FedOn, FinalsOf, FeedStep, c, k
  <2> HIDE DEF fast, slow, closes
  <2>2. PICK j : j = [m EXCEPT !.coarseFast = fast, !.coarseSlow = slow,
                               !.consumed = m.consumed + Len(closes), !.cursor = k]
    OBVIOUS
  <2>3. j = n
    BY <2>2 DEF MemoryShape
  <2> QED
    BY <2>1, <2>2, <2>3
<1> HIDE DEF fast, slow, closes
<1>9. MemoryShape(n)
  BY DEF MemoryShape
<1>10. /\ n.fast = m.fast /\ n.slow = m.slow /\ n.gap = m.gap /\ n.cursor = k
       /\ n.coarseFast = fast /\ n.coarseSlow = slow /\ n.consumed = m.consumed + Len(closes)
  OBVIOUS
<1> HIDE DEF n
<1>11. CoarseMemory(n, q, t)
  BY <1>2, <1>3, <1>6, <1>7, <1>10 DEF CoarseMemory
<1> QED
  BY <1>5, <1>8, <1>9, <1>10, <1>11 DEF Advances

\* The bias, from the averages kept and from all candles visible.
LEMMA BiasesAlike ==
  ASSUME NEW q, InOrder(q), NEW t \in Int, NEW n, NEW m, Advances(n, m, q, t)
  PROVE  BiasOf(n) = Bias(Visible(q, t))
<1> DEFINE v == Visible(q, t)
           cs == Closes(v)
<1>1. /\ cs \in Seq(Int) /\ Len(v) = Len(cs) /\ n.consumed = Len(cs)
      /\ n.coarseFast = EmaMemory(P.coarseFast, cs) /\ n.coarseSlow = EmaMemory(P.coarseSlow, cs)
  <2>1. q \in Seq(CoarseCandle) /\ n.cursor \in 0 .. Len(q)
    BY DEF InOrder, Advances, CoarseMemory
  <2>2. FinalCloses(q, n.cursor) \in Seq(Int)
    BY <2>1, FinalClosesAre
  <2> QED
    BY <2>2 DEF Advances, CoarseMemory
<1> HIDE DEF cs, v
<1>2. CASE n.consumed < P.coarseSlow + 1
  BY <1>1, <1>2 DEF BiasOf, Bias, v, cs
<1>3. CASE ~(n.consumed < P.coarseSlow + 1)
  <2>1. ~(Len(cs) < P.coarseFast) /\ ~(Len(cs) < P.coarseSlow)
    BY <1>1, <1>3, Periods
  <2>2. n.coarseFast.value = {Ema(cs, P.coarseFast)} /\ n.coarseSlow.value = {Ema(cs, P.coarseSlow)}
    BY <1>1, <2>1, EmaMemoryIs, Periods
  <2> DEFINE gap == Some(n.coarseFast.value) - Some(n.coarseSlow.value)
  <2>3. gap = Spread(cs, P.coarseFast, P.coarseSlow)
    BY <2>2 DEF Some, Spread
  <2> HIDE DEF gap
  <2>4. BiasOf(n) = IF gap = 0 THEN "NONE" ELSE IF gap > 0 THEN "LONG" ELSE "SHORT"
    BY <1>3 DEF BiasOf, gap
  <2>5. Bias(v) = IF gap = 0 THEN "NONE" ELSE IF gap > 0 THEN "LONG" ELSE "SHORT"
    BY <1>1, <1>3, <2>3 DEF Bias, cs
  <2> QED
    BY <2>4, <2>5 DEF v
<1> QED
  BY <1>2, <1>3

\* The multi-timeframe strategy keeps the crossover and the cursor.
TimeframesMemory(m, s, q, t) == CrossoverMemory(m, s) /\ CoarseMemory(m, q, t)

\* Its update keeps that up, and says what the reference says of the candle.
LEMMA TimeframesRemember ==
  ASSUME NEW s \in Seq(Bar), NEW b \in Bar, NEW q, InOrder(q), NEW t \in Int, NEW m,
         MemoryShape(m), TimeframesMemory(m, s, q, t)
  PROVE  LET r == MultiTimeframeOn(m, b, q, t)
         IN /\ MemoryShape(r.memory) /\ TimeframesMemory(r.memory, Append(s, b), q, t)
            /\ r.signal = MultiTimeframe(Append(s, b), q, t)
<1> DEFINE u == Append(s, b)
           x == EmaCrossoverOn(m, b)
           k == x.memory
           n == AdvanceCoarse(k, q, t)
           r == MultiTimeframeOn(m, b, q, t)
<1>1. Crosses(x, m, u)
  BY CrossoverRemembers DEF TimeframesMemory
<1> HIDE DEF x, u
<1>2. /\ MemoryShape(k) /\ CrossoverMemory(k, u) /\ SameBesides(k, m)
      /\ x.signal = EmaCrossover(u)
  BY <1>1 DEF Crosses
<1>3. CoarseMemory(k, q, t)
  BY <1>2 DEF TimeframesMemory, CoarseMemory, SameBesides
<1> HIDE DEF k
<1>4. Advances(n, k, q, t)
  BY <1>2, <1>3, AdvanceRemembers
<1> HIDE DEF n
<1>5. BiasOf(n) = Bias(Visible(q, t))
  BY <1>4, BiasesAlike
<1>6. r = Says(n, {IF BiasOf(n) = v THEN v ELSE "FLAT" : v \in x.signal})
  BY DEF MultiTimeframeOn, n, k, x
<1>7. r.memory = n /\ r.signal = {IF BiasOf(n) = v THEN v ELSE "FLAT" : v \in x.signal}
  BY <1>6 DEF Says
<1>8. r.signal = MultiTimeframe(u, q, t)
  BY <1>2, <1>5, <1>7 DEF MultiTimeframe
<1>9. MemoryShape(n) /\ TimeframesMemory(n, u, q, t)
  BY <1>2, <1>4 DEF Advances, TimeframesMemory, CrossoverMemory
<1> QED
  BY <1>7, <1>8, <1>9 DEF u

-----------------------------------------------------------------------------
(* The coarse candles of a dataset, as get_range orders them.               *)

\* A set with an n-th element for every n up to its cardinality.
Ranked(S) ==
    /\ IsFiniteSet(S) /\ Cardinality(S) \in Nat
    /\ \A n \in 1 .. Cardinality(S) : \E b \in S : Cardinality({c \in S : c < b}) = n - 1

\* Every bounded set of integers is one.
LEMMA BoundedSetsAreRanked ==
  ASSUME NEW S, NEW a \in Int, NEW z \in Int, S \subseteq a .. z - 1
  PROVE  Ranked(S)
<1> DEFINE Below(d) == {t \in S : t < a + d}
           T == {d \in Nat : Ranked(Below(d))}
<1>0. \A t \in S : t \in Int /\ a <= t /\ t <= z - 1
  OBVIOUS
<1>1. 0 \in T
  <2>1. Below(0) = {}
    <3>1. \A t \in S : ~(t < a + 0)
      BY <1>0
    <3> QED
      BY <3>1
  <2>2. Ranked({})
    BY FS_EmptySet DEF Ranked
  <2> QED
    BY <2>1, <2>2
<1>2. \A d \in T : d + 1 \in T
  <2> SUFFICES ASSUME NEW d \in T PROVE Ranked(Below(d + 1))
    OBVIOUS
  <2> DEFINE U == Below(d)
             V == Below(d + 1)
             x == a + d
  <2>1. d \in Nat /\ Ranked(U)
    OBVIOUS
  <2>2. CASE x \notin S
    <3>1. \A t \in S : t < a + (d + 1) <=> t < a + d
      BY <1>0, <2>1, <2>2
    <3> QED
      BY <2>1, <3>1
  <2>3. CASE x \in S
    <3>8. \A t \in S : t < a + (d + 1) <=> t < a + d \/ t = a + d
      BY <1>0, <2>1, <2>3
    <3>9. ~(x < x)
      BY <2>1
    <3>1. V = U \cup {x} /\ x \notin U
      BY <2>1, <2>3, <3>8, <3>9
    <3>2. \A b \in U : b < x /\ b \in Int
      BY <1>0, <2>1
    <3>3. x \in Int
      BY <2>1
    <3> HIDE DEF U, V, x
    <3>4. IsFiniteSet(U) /\ Cardinality(U) \in Nat
      BY <2>1 DEF Ranked
    <3>5. IsFiniteSet(V) /\ Cardinality(V) = Cardinality(U) + 1
      BY <3>1, <3>4, FS_AddElement
    <3>6. ASSUME NEW n \in 1 .. Cardinality(V)
          PROVE  \E b \in V : Cardinality({c \in V : c < b}) = n - 1
      <4>1. CASE n = Cardinality(U) + 1
        <5>1. {c \in V : c < x} = U
          BY <3>1, <3>2, <3>3
        <5> QED
          BY <3>1, <3>4, <4>1, <5>1
      <4>2. CASE n # Cardinality(U) + 1
        <5>1. n \in 1 .. Cardinality(U)
          BY <3>4, <3>5, <4>2
        <5>2. PICK b \in U : Cardinality({c \in U : c < b}) = n - 1
          BY <2>1, <5>1 DEF Ranked
        <5>3. {c \in V : c < b} = {c \in U : c < b}
          BY <3>1, <3>2, <3>3
        <5> QED
          BY <3>1, <5>2, <5>3
      <4> QED
        BY <4>1, <4>2
    <3>7. Cardinality(V) \in Nat
      BY <3>4, <3>5
    <3> QED
      BY <3>5, <3>6, <3>7 DEF Ranked, V
  <2> QED
    BY <2>2, <2>3
<1>3. T \subseteq Nat
  OBVIOUS
<1> HIDE DEF T
<1>4. \A d \in Nat : d \in T
  BY <1>1, <1>2, <1>3, Upwards
<1>5. CASE a <= z
  <2>1. z - a \in T
    BY <1>4, <1>5
  <2>2. Ranked(Below(z - a))
    BY <2>1 DEF T
  <2>3. Below(z - a) = S
    <3>1. \A t \in S : t < a + (z - a)
      BY <1>0, <1>5
    <3> QED
      BY <3>1
  <2> QED
    BY <2>2, <2>3
<1>6. CASE ~(a <= z)
  <2>1. S = {}
    BY <1>6
  <2> QED
    BY <2>1, FS_EmptySet DEF Ranked
<1> QED
  BY <1>5, <1>6

\* The n-th element is there, and the elements are in order.
LEMMA RanksAreInOrder ==
  ASSUME expected \subseteq Int, Ranked(expected)
  PROVE  /\ \A n \in 1 .. Cardinality(expected) : Nth(n) \in expected
         /\ \A i \in 1 .. Cardinality(expected), j \in 1 .. Cardinality(expected) :
               i < j => Nth(i) < Nth(j)
<1> DEFINE Below(b) == {c \in expected : c < b}
           N == Cardinality(expected)
<1>1. ASSUME NEW n \in 1 .. N PROVE Nth(n) \in expected /\ Cardinality(Below(Nth(n))) = n - 1
  <2>1. \E b \in expected : Cardinality(Below(b)) = n - 1
    BY DEF Ranked
  <2> QED
    BY <2>1 DEF Nth
<1>2. ASSUME NEW i \in 1 .. N, NEW j \in 1 .. N, i < j PROVE Nth(i) < Nth(j)
  <2> DEFINE x == Nth(i)
             y == Nth(j)
  <2>1. x \in Int /\ y \in Int /\ Cardinality(Below(x)) = i - 1 /\ Cardinality(Below(y)) = j - 1
    BY <1>1
  <2> HIDE DEF x, y
  <2>2. ASSUME ~(x < y) PROVE FALSE
    <3>1. Below(y) \in SUBSET Below(x)
      <4>1. \A c \in expected : c < y => c < x
        BY <2>1, <2>2
      <4> QED
        BY <4>1
    <3>2. IsFiniteSet(Below(x))
      <4>1. Below(x) \in SUBSET expected /\ IsFiniteSet(expected)
        BY DEF Ranked
      <4> HIDE DEF Below
      <4> QED
        BY <4>1, FS_Subset
    <3> HIDE DEF Below
    <3>3. Cardinality(Below(y)) <= Cardinality(Below(x))
      BY <3>1, <3>2, FS_Subset
    <3>4. j - 1 <= i - 1 /\ i \in Int /\ j \in Int
      BY <2>1, <3>3 DEF Ranked
    <3> QED
      BY <1>2, <3>4
  <2> QED
    BY <2>2 DEF x, y
<1> QED
  BY <1>1, <1>2

\* Candles that start at boundaries.
OnGrid(q) == \A i \in 1 .. Len(q) : q[i].start \in Int /\ StartBoundary(q[i].start) = q[i].start

\* So the coarse candles are on the grid, and end in order.
LEMMA CoarseCandlesInOrder ==
  ASSUME <<3, 1>> \notin Cases, WalkIInv, NEW data \in Seq([close : Nat, final : BOOLEAN])
  PROVE  InOrder(CoarseCandles(data)) /\ OnGrid(CoarseCandles(data))
<1> DEFINE q == CoarseCandles(data)
           N == Cardinality(expected)
           L == Min({N, Len(data)})
           Datum == [close : Nat, final : BOOLEAN]
<1>1. Ordinary(hours) /\ shift \in {-1, 0, 1} /\ hours \in Nat /\ hours >= 1
  BY OrdinaryCases DEF WalkIInv
<1>2. /\ expected \subseteq Int
      /\ \A b \in expected : StartBoundary(b) = b
      /\ StartBoundary(start) \in Int /\ next \in Int
      /\ expected \subseteq StartBoundary(start) .. next - 1
  <2>1. start \in Int /\ next \in Int /\ expected \subseteq Int
    BY WalkAssumption DEF WalkIInv, WalkTyped
  <2>2. StartBoundary(start) \in Int
    BY <1>1, <2>1, EverythingFloored DEF StartBoundary
  <2>3. expected = {t \in StartBoundary(start) .. next - 1 : StartBoundary(t) = t}
    BY DEF WalkIInv, ExpectedSoFar
  <2> HIDE DEF StartBoundary
  <2> QED
    BY <2>1, <2>2, <2>3
<1>3. Ranked(expected)
  BY <1>2, BoundedSetsAreRanked
<1>4. /\ \A n \in 1 .. N : Nth(n) \in expected
      /\ \A i \in 1 .. N, j \in 1 .. N : i < j => Nth(i) < Nth(j)
  BY <1>2, <1>3, RanksAreInOrder
<1>5. N \in Nat /\ Len(data) \in Nat
  BY <1>3 DEF Ranked
<1> HIDE DEF N
<1>6. L \in Nat /\ L <= N /\ L <= Len(data)
  <2> DEFINE d == Len(data)
  <2>1. d \in Nat
    BY <1>5
  <2> HIDE DEF d
  <2>2. Min({N, d}) = IF N <= d THEN N ELSE d
    BY <1>5, <2>1, MinOfTwo
  <2> QED
    BY <1>5, <2>1, <2>2 DEF d
<1>7. q = [n \in 1 .. L |-> [start |-> Nth(n), close |-> data[n].close, final |-> data[n].final]]
  BY DEF CoarseCandles, N
<1> HIDE DEF L, q
<1>8. ASSUME NEW n \in 1 .. L
      PROVE  /\ Nth(n) \in expected /\ Nth(n) \in Int /\ n \in 1 .. N
             /\ data[n].close \in Nat /\ data[n].final \in BOOLEAN
  <2>1. n \in 1 .. N /\ n \in 1 .. Len(data)
    BY <1>5, <1>6
  <2>2. Nth(n) \in expected /\ Nth(n) \in Int
    BY <1>2, <1>4, <2>1
  <2>3. \A x \in Datum : x.close \in Nat /\ x.final \in BOOLEAN
    OBVIOUS
  <2>4. data \in Seq(Datum)
    OBVIOUS
  <2> HIDE DEF Datum
  <2>5. data[n] \in Datum
    BY <2>1, <2>4
  <2> QED
    BY <2>1, <2>2, <2>3, <2>5
<1>9. q \in Seq(CoarseCandle) /\ Len(q) = L
  <2>1. q \in [1 .. L -> CoarseCandle]
    <3>1. ASSUME NEW n \in 1 .. L
          PROVE  [start |-> Nth(n), close |-> data[n].close, final |-> data[n].final] \in CoarseCandle
      BY <1>8 DEF CoarseCandle
    <3> QED
      BY <1>7, <3>1
  <2> QED
    BY <1>6, <2>1, FunctionIsASequence
<1>10. \A n \in 1 .. L : q[n].start = Nth(n)
  BY <1>7
<1>11. OnGrid(q)
  BY <1>2, <1>8, <1>9, <1>10 DEF OnGrid
<1>12. ASSUME NEW b \in expected
       PROVE  EndTime(b) \in Int /\ \A c \in expected : b < c => EndTime(b) <= c /\ c < EndTime(c)
  <2>1. \A s \in Int : StartBoundary(s) = s =>
           /\ EndTime(s) \in s + 1 .. s + hours + 1
           /\ \A u \in s .. EndTime(s) - 1 : StartBoundary(u) = s
    BY <1>1, EveryCandleEnds DEF StartBoundary, EndTime
  <2>2. EndTime(b) \in Int /\ b \in Int /\ \A u \in b .. EndTime(b) - 1 : StartBoundary(u) = b
    BY <1>1, <1>2, <2>1
  <2>3. ASSUME NEW c \in expected, b < c PROVE EndTime(b) <= c /\ c < EndTime(c)
    <3>1. c \in Int /\ StartBoundary(c) = c /\ EndTime(c) \in c + 1 .. c + hours + 1
      BY <1>2, <2>1
    <3>2. EndTime(b) <= c
      BY <2>2, <2>3, <3>1
    <3> QED
      BY <1>1, <3>1, <3>2
  <2> QED
    BY <2>2, <2>3
<1>13. \A i \in 1 .. L : EndTime(q[i].start) \in Int
  BY <1>8, <1>10, <1>12
<1>14. ASSUME NEW i \in 1 .. L, NEW j \in 1 .. L, i < j
       PROVE  EndTime(q[i].start) <= EndTime(q[j].start)
  <2> DEFINE x == Nth(i)
             y == Nth(j)
  <2>1. x \in expected /\ y \in expected /\ x < y /\ y \in Int
    BY <1>4, <1>8, <1>14
  <2> HIDE DEF x, y
  <2>2. EndTime(x) \in Int /\ EndTime(y) \in Int /\ EndTime(x) <= y /\ y < EndTime(y)
    BY <1>12, <2>1
  <2>3. EndTime(x) <= EndTime(y)
    BY <2>1, <2>2
  <2> QED
    BY <1>10, <2>3 DEF x, y
<1>15. InOrder(q)
  BY <1>9, <1>13, <1>14 DEF InOrder
<1> QED
  BY <1>11, <1>15 DEF q

-----------------------------------------------------------------------------
(* The replay.                                                             *)

\* What an incremental strategy keeps of the series.
Remembers(m, s) ==
    CASE strategy = "ema_crossover" -> CrossoverMemory(m, s)
      [] strategy = "ema_crossover_trend_regime_gated" -> GatedMemory(m, s)
      [] strategy = "multi_timeframe_trend" -> TimeframesMemory(m, s, coarse, Opening(Len(s)))
      [] strategy = "close_channel_breakout" -> ChannelMemory(m, s)
      [] strategy = "volatility_expansion" -> ExpansionMemory(m, s)

\* The series, what is kept of it, and that the last signal is the reference's.
\* Before the run nothing is; during it, the coarse candles are in order.
ReplayIInv ==
    /\ series \in Seq(Bar) /\ MemoryShape(memory)
    /\ strategy = "none" => series = <<>>
    /\ strategy # "none" => InOrder(coarse) /\ OnGrid(coarse)
    /\ strategy \in Incremental => Remembers(memory, series)
    /\ IncrementalIsReference

\* A strategy that has been reset remembers nothing yet.
LEMMA FreshRemembers ==
  /\ MemoryShape(Fresh) /\ CrossoverMemory(Fresh, <<>>) /\ GatedMemory(Fresh, <<>>)
  /\ ChannelMemory(Fresh, <<>>) /\ ExpansionMemory(Fresh, <<>>)
  /\ \A q, t : InOrder(q) => TimeframesMemory(Fresh, <<>>, q, t)
<1> DEFINE e == <<>>
<1>1. MemoryShape(Fresh)
  BY DEF MemoryShape, Fresh
<1>2. /\ Fresh.fast = NewEma /\ Fresh.slow = NewEma /\ Fresh.gap = {} /\ Fresh.adx = NewAdx
      /\ Fresh.coarseFast = NewEma /\ Fresh.coarseSlow = NewEma /\ Fresh.cursor = 0
      /\ Fresh.consumed = 0 /\ Fresh.short = NewAtr /\ Fresh.long = NewAtr /\ Fresh.ratio = {}
      /\ Fresh.window = <<>> /\ Fresh.seen = 0
  BY DEF Fresh
<1>3. e \in Seq(Bar) /\ e \in Seq(Int) /\ Len(e) = 0
  OBVIOUS
<1>4. Closes(e) = e
  BY <1>3, ClosesGrow
<1>5. CrossoverMemory(Fresh, e)
  BY <1>2, <1>3, <1>4, EmaMemoryStarts, Periods DEF CrossoverMemory
<1>6. GatedMemory(Fresh, e)
  BY <1>2, <1>5, AdxMemoryStarts, Periods DEF GatedMemory
<1>7. WindowOf(e) = e
  <2>1. 0 \in Int
    OBVIOUS
  <2> QED
    BY <1>3, <2>1, WindowSlides, Periods
<1>8. ChannelMemory(Fresh, e)
  BY <1>2, <1>3, <1>4, <1>7 DEF ChannelMemory
<1>9. ExpansionMemory(Fresh, e)
  <2>1. Atr(e, P.short) = {}
    BY <1>3, Periods DEF Atr
  <2>2. RatioOver(e) = {}
    BY <2>1 DEF RatioOver, Ratio
  <2> QED
    BY <1>2, <1>3, <1>7, <2>2, AtrMemoryStarts, Periods DEF ExpansionMemory
<1>10. ASSUME NEW q, NEW t, InOrder(q) PROVE TimeframesMemory(Fresh, e, q, t)
  <2>1. q \in Seq(CoarseCandle) /\ 0 \in 0 .. Len(q)
    BY <1>10 DEF InOrder
  <2>2. FinalCloses(q, 0) = e
    BY <2>1, FinalClosesAre
  <2>3. CoarseMemory(Fresh, q, t)
    BY <1>2, <1>3, <2>1, <2>2, EmaMemoryStarts, Periods DEF CoarseMemory
  <2> QED
    BY <1>5, <2>3 DEF TimeframesMemory
<1> QED
  BY <1>1, <1>5, <1>6, <1>8, <1>9, <1>10

\* An incremental strategy, given the next candle.
LEMMA CandleRemembered ==
  ASSUME strategy \in Incremental, NEW s \in Seq(Bar), NEW b \in Bar, NEW m, MemoryShape(m),
         InOrder(coarse), Remembers(m, s)
  PROVE  LET r == OnCandle(strategy, m, b, coarse, Opening(Len(s) + 1))
         IN /\ MemoryShape(r.memory) /\ Remembers(r.memory, Append(s, b))
            /\ r.signal = Evaluate(strategy, Append(s, b), coarse, Opening(Len(s) + 1))
<1> DEFINE t == Append(s, b)
           time == Opening(Len(s) + 1)
<1>1. Len(t) = Len(s) + 1
  BY BeforeTheLast
<1>2. CASE strategy = "ema_crossover"
  <2>1. CrossoverMemory(m, s)
    BY <1>2 DEF Remembers
  <2>2. Crosses(EmaCrossoverOn(m, b), m, t)
    BY <2>1, CrossoverRemembers
  <2> HIDE DEF t
  <2> QED
    BY <1>2, <2>2 DEF Crosses, Remembers, OnCandle, Evaluate, t
<1>3. CASE strategy = "ema_crossover_trend_regime_gated"
  <2>1. GatedMemory(m, s)
    BY <1>3 DEF Remembers
  <2> DEFINE r == GatedCrossoverOn(m, b)
  <2>2. MemoryShape(r.memory) /\ GatedMemory(r.memory, t) /\ r.signal = GatedCrossover(t)
    BY <2>1, GatedRemembers
  <2> HIDE DEF t
  <2> QED
    BY <1>3, <2>2 DEF Remembers, OnCandle, Evaluate, t
<1>4. CASE strategy = "close_channel_breakout"
  <2>1. ChannelMemory(m, s)
    BY <1>4 DEF Remembers
  <2> DEFINE r == CloseChannelOn(m, b)
  <2>2. MemoryShape(r.memory) /\ ChannelMemory(r.memory, t) /\ r.signal = CloseChannel(t)
    BY <2>1, ChannelRemembers
  <2> HIDE DEF t
  <2> QED
    BY <1>4, <2>2 DEF Remembers, OnCandle, Evaluate, t
<1>5. CASE strategy = "volatility_expansion"
  <2>1. ExpansionMemory(m, s)
    BY <1>5 DEF Remembers
  <2> DEFINE r == VolatilityExpansionOn(m, b)
  <2>2. MemoryShape(r.memory) /\ ExpansionMemory(r.memory, t) /\ r.signal = VolatilityExpansion(t)
    BY <2>1, ExpansionRemembers
  <2> HIDE DEF t
  <2> QED
    BY <1>5, <2>2 DEF Remembers, OnCandle, Evaluate, t
<1>6. CASE strategy = "multi_timeframe_trend"
  <2> DEFINE last == Opening(Len(s))
  <2>1. CrossoverMemory(m, s) /\ CoarseMemory(m, coarse, last)
    BY <1>6 DEF Remembers, TimeframesMemory
  <2>2. last \in Int /\ time \in Int /\ last <= time
    <3>1. Len(s) \in Nat
      OBVIOUS
    <3> QED
      BY <3>1, BacktestAssumption DEF Opening
  <2> HIDE DEF last, time
  <2>3. CoarseMemory(m, coarse, time)
    BY <2>1, <2>2, CoarseMemoryLasts
  <2>4. TimeframesMemory(m, s, coarse, time)
    BY <2>1, <2>3 DEF TimeframesMemory
  <2> DEFINE r == MultiTimeframeOn(m, b, coarse, time)
  <2>5. MemoryShape(r.memory) /\ TimeframesMemory(r.memory, t, coarse, time)
        /\ r.signal = MultiTimeframe(t, coarse, time)
    BY <2>2, <2>4, TimeframesRemember
  <2>6. time = Opening(Len(t))
    BY <1>1 DEF time
  <2> HIDE DEF t
  <2> QED
    BY <1>6, <2>5, <2>6 DEF Remembers, OnCandle, Evaluate, t, time
<1> QED
  BY <1>2, <1>3, <1>4, <1>5, <1>6 DEF Incremental

\* The granularity and the transition stay, and so what they are used for.
LEMMA DayStays ==
  ASSUME UNCHANGED <<hours, shift>>
  PROVE  /\ \A q : (InOrder(q)' <=> InOrder(q)) /\ (OnGrid(q)' <=> OnGrid(q))
         /\ \A m, q, t : CoarseMemory(m, q, t)' <=> CoarseMemory(m, q, t)
         /\ \A s, b, q, t : Evaluate(s, b, q, t)' = Evaluate(s, b, q, t)
<1>1. \A x : EndTime(x)' = EndTime(x) /\ StartBoundary(x)' = StartBoundary(x)
  BY DEF EndTime, StartBoundary, EndOf, StartOf, ToWall, FromWall, DayStart
<1>2. \A c, t : OverBy(c, t)' <=> OverBy(c, t)
  BY <1>1 DEF OverBy
<1>3. \A q : (InOrder(q)' <=> InOrder(q)) /\ (OnGrid(q)' <=> OnGrid(q))
  BY <1>1 DEF InOrder, OnGrid
<1>4. \A m, q, t : CoarseMemory(m, q, t)' <=> CoarseMemory(m, q, t)
  BY <1>2 DEF CoarseMemory
<1>5. \A q, t : Visible(q, t)' = Visible(q, t)
  BY <1>2 DEF Visible
<1>6. \A b, q, t : MultiTimeframe(b, q, t)' = MultiTimeframe(b, q, t)
  BY <1>5 DEF MultiTimeframe
<1>7. \A s, b, q, t : Evaluate(s, b, q, t)' = Evaluate(s, b, q, t)
  BY <1>6 DEF Evaluate
<1> QED
  BY <1>3, <1>4, <1>7

\* A step that leaves the day and the strategy alone leaves what it keeps true.
LEMMA RemembersStays ==
  ASSUME UNCHANGED <<hours, shift, strategy, coarse>>
  PROVE  \A m, s : Remembers(m, s)' <=> Remembers(m, s)
<1>1. \A m, s, q, t : TimeframesMemory(m, s, q, t)' <=> TimeframesMemory(m, s, q, t)
  BY DayStays DEF TimeframesMemory
<1> QED
  BY <1>1 DEF Remembers

\* A step of the walk or of the aggregation leaves the replay as it is.
LEMMA ReplayStutters ==
  ASSUME ReplayIInv, UNCHANGED <<hours, shift>>, UNCHANGED replayVars
  PROVE  ReplayIInv'
<1>1. UNCHANGED <<strategy, coarse, warmup, series, memory, signal, hypotheses>>
  BY DEF replayVars
<1>2. Remembers(memory, series)' <=> Remembers(memory, series)
  BY <1>1, RemembersStays
<1>3. (InOrder(coarse)' <=> InOrder(coarse)) /\ (OnGrid(coarse)' <=> OnGrid(coarse))
  BY <1>1, DayStays
<1>4. Evaluate(strategy, series, coarse, Opening(Len(series)))'
        = Evaluate(strategy, series, coarse, Opening(Len(series)))
  BY <1>1, DayStays
<1>5. IncrementalIsReference'
  BY <1>1, <1>4 DEF ReplayIInv, IncrementalIsReference
<1>6. MemoryShape(memory)'
  BY <1>1 DEF ReplayIInv, MemoryShape
<1> QED
  BY <1>1, <1>2, <1>3, <1>5, <1>6 DEF ReplayIInv

\* The start of a run resets the strategy, and orders the coarse candles.
LEMMA LoadKeeps ==
  ASSUME <<3, 1>> \notin Cases, WalkIInv, ReplayIInv, NEW s, Load(s)
  PROVE  ReplayIInv'
<1>1. /\ strategy = "none" /\ strategy' = s /\ memory' = Fresh
      /\ UNCHANGED <<hours, shift, series>>
      /\ \E data \in (IF s = "multi_timeframe_trend" THEN CoarseData ELSE {<<>>}) :
            coarse' = CoarseCandles(data)
  BY DEF Load, walkVars
<1>2. series = <<>> /\ series' = <<>> /\ <<>> \in Seq(Bar) /\ Len(<<>>) = 0
  BY <1>1 DEF ReplayIInv
<1>3. PICK data \in Seq([close : Nat, final : BOOLEAN]) : coarse' = CoarseCandles(data)
  <2>1. <<>> \in Seq([close : Nat, final : BOOLEAN])
    OBVIOUS
  <2>2. CoarseData \subseteq Seq([close : Nat, final : BOOLEAN])
    BY BacktestAssumption
  <2> QED
    BY <1>1, <2>1, <2>2
<1> DEFINE q == CoarseCandles(data)
<1>4. InOrder(q) /\ OnGrid(q)
  BY CoarseCandlesInOrder
<1> HIDE DEF q
<1>5. coarse' = q
  BY <1>3 DEF q
<1>6. InOrder(coarse)' /\ OnGrid(coarse)'
  BY <1>1, <1>4, <1>5, DayStays
<1>7. MemoryShape(memory)'
  BY <1>1, FreshRemembers DEF MemoryShape
<1>8. /\ CrossoverMemory(memory, series)' /\ GatedMemory(memory, series)'
      /\ ChannelMemory(memory, series)' /\ ExpansionMemory(memory, series)'
  BY <1>1, <1>2, FreshRemembers
<1>9. TimeframesMemory(memory, series, coarse, Opening(Len(series)))'
  <2>1. \A t : CoarseMemory(Fresh, q, t)
    BY <1>4, FreshRemembers DEF TimeframesMemory
  <2>2. CoarseMemory(memory, coarse, Opening(Len(series)))'
    BY <1>1, <1>5, <2>1, DayStays
  <2> QED
    BY <1>8, <2>2 DEF TimeframesMemory
<1>10. (strategy \in Incremental => Remembers(memory, series))'
  BY <1>8, <1>9 DEF Remembers, Incremental
<1>11. IncrementalIsReference'
  BY <1>2 DEF IncrementalIsReference
<1> QED
  BY <1>2, <1>6, <1>7, <1>10, <1>11 DEF ReplayIInv

\* A candle: the strategy says what the reference says, and remembers it.
LEMMA OnBarKeeps ==
  ASSUME ReplayIInv, NEW b \in Bars, OnBar(b)
  PROVE  ReplayIInv'
<1> DEFINE n == Len(series) + 1
           t == Append(series, b)
           r == IF strategy \in Incremental THEN OnCandle(strategy, memory, b, coarse, Opening(n))
                ELSE Says(memory, Evaluate(strategy, t, coarse, Opening(n)))
<1>1. /\ strategy # "none" /\ series' = t /\ memory' = r.memory /\ signal' = r.signal
      /\ UNCHANGED <<hours, shift, strategy, coarse>>
  BY DEF OnBar, walkVars
<1>2. b \in Bar /\ series \in Seq(Bar) /\ t \in Seq(Bar) /\ Len(t) = n /\ t # <<>>
  BY BacktestAssumption, BeforeTheLast DEF ReplayIInv
<1>3. MemoryShape(memory) /\ InOrder(coarse) /\ OnGrid(coarse)
  BY <1>1 DEF ReplayIInv
<1>4. /\ MemoryShape(r.memory)
      /\ r.signal = Evaluate(strategy, t, coarse, Opening(n))
      /\ strategy \in Incremental => Remembers(r.memory, t)
  <2>1. CASE strategy \in Incremental
    <3>1. Remembers(memory, series)
      BY <2>1 DEF ReplayIInv
    <3>2. r = OnCandle(strategy, memory, b, coarse, Opening(n))
      BY <2>1
    <3> QED
      BY <1>2, <1>3, <2>1, <3>1, <3>2, CandleRemembered
  <2>2. CASE strategy \notin Incremental
    BY <1>3, <2>2 DEF Says
  <2> QED
    BY <2>1, <2>2
<1> HIDE DEF r, t, n
<1>5. InOrder(coarse)' /\ OnGrid(coarse)'
  BY <1>1, <1>3, DayStays
<1>6. MemoryShape(memory)'
  BY <1>1, <1>4 DEF MemoryShape
<1>7. (strategy \in Incremental => Remembers(memory, series))'
  BY <1>1, <1>4, RemembersStays
<1>8. IncrementalIsReference'
  <2>1. Opening(Len(series))' = Opening(n)
    BY <1>1, <1>2 DEF Opening
  <2>2. Evaluate(strategy, series, coarse, Opening(Len(series)))'
          = Evaluate(strategy, t, coarse, Opening(n))
    BY <1>1, <2>1, DayStays
  <2> QED
    BY <1>1, <1>4, <2>2 DEF IncrementalIsReference
<1> QED
  BY <1>1, <1>2, <1>5, <1>6, <1>7, <1>8 DEF ReplayIInv

\* Whatever a step does, the invariant of the replay holds on.
LEMMA ReplayKeeps ==
  ASSUME <<3, 1>> \notin Cases, WalkIInv, ReplayIInv, [BacktestNext]_backtestVars
  PROVE  ReplayIInv'
<1>1. CASE WalkNext /\ UNCHANGED <<aggregationVars, replayVars>>
  <2>1. UNCHANGED <<hours, shift>> /\ UNCHANGED replayVars
    BY <1>1 DEF WalkNext, NextPage, NextExpected
  <2> QED
    BY <2>1, ReplayStutters
<1>2. CASE strategy = "none" /\ \E h \in Sources : Aggregate(h) /\ UNCHANGED replayVars
  <2>1. UNCHANGED <<hours, shift>> /\ UNCHANGED replayVars
    BY <1>2 DEF Aggregate, walkVars
  <2> QED
    BY <2>1, ReplayStutters
<1>3. CASE \E s \in StrategiesFor[shift] : Load(s)
  BY <1>3, LoadKeeps
<1>4. CASE \E b \in Bars : OnBar(b)
  BY <1>4, OnBarKeeps
<1>5. CASE UNCHANGED backtestVars
  <2>1. UNCHANGED <<hours, shift>> /\ UNCHANGED replayVars
    BY <1>5 DEF backtestVars, walkVars
  <2> QED
    BY <2>1, ReplayStutters
<1> QED
  BY <1>1, <1>2, <1>3, <1>4, <1>5 DEF BacktestNext

\* The replay, over any walk but that of H3 in spring: what an incremental
\* strategy keeps is what the averages, windows and cursors of all candles are.
THEOREM TheReplayRemembers ==
  ASSUME <<3, 1>> \notin Cases
  PROVE  BacktestSpec => []ReplayIInv
<1>1. BacktestInit => ReplayIInv
  <2> SUFFICES ASSUME BacktestInit PROVE ReplayIInv
    OBVIOUS
  <2>1. strategy = "none" /\ series = <<>> /\ memory = Fresh
    BY DEF BacktestInit
  <2>2. MemoryShape(memory)
    BY <2>1, FreshRemembers
  <2>3. strategy \notin Incremental /\ series \in Seq(Bar)
    BY <2>1 DEF Incremental
  <2> QED
    BY <2>1, <2>2, <2>3 DEF ReplayIInv, IncrementalIsReference
<1>2. WalkIInv /\ ReplayIInv /\ [BacktestNext]_backtestVars => ReplayIInv'
  BY ReplayKeeps
<1> QED
  BY <1>1, <1>2, TheWalkIsTyped, PTL DEF BacktestSpec

\* The incremental strategies say of every candle what the reference ones say
\* given all candles so far: for all parameters, bars, coarse candles and dates.
THEOREM IncrementalsAreReferences ==
  ASSUME <<3, 1>> \notin Cases
  PROVE  BacktestSpec => []IncrementalIsReference
<1>1. ReplayIInv => IncrementalIsReference
  BY DEF ReplayIInv
<1> QED
  BY <1>1, TheReplayRemembers, PTL

-----------------------------------------------------------------------------
(* Signals use the past.                                                   *)

\* What is kept holds every element of the set.
LEMMA KeptHolds ==
  ASSUME NEW X, NEW S, NEW s \in Seq(X), NEW n \in 1 .. Len(s), s[n] \in S
  PROVE  s[n] \in Range(Kept(s, S))
<1> DEFINE T == {q \in Seq(X) : \A i \in 1 .. Len(q) : q[i] \in S => q[i] \in Range(Kept(q, S))}
<1>1. <<>> \in T
  OBVIOUS
<1>2. ASSUME NEW k \in Nat, k < Len(s), SubSeq(s, 1, k) \in T PROVE SubSeq(s, 1, k + 1) \in T
  <2> DEFINE q == SubSeq(s, 1, k)
             x == s[k + 1]
             t == Append(q, x)
             A == Kept(q, S)
  <2>1. q \in Seq(X) /\ x \in X /\ SubSeq(s, 1, k + 1) = t
    BY <1>2, PrefixesGrow
  <2>2. \A i \in 1 .. Len(q) : q[i] \in S => q[i] \in Range(A)
    BY <1>2
  <2> HIDE DEF q, x, A
  <2>3. t \in Seq(X) /\ Len(t) = Len(q) + 1 /\ Len(q) \in Nat /\ t[Len(q) + 1] = x
        /\ \A i \in 1 .. Len(q) : t[i] = q[i]
    BY <2>1
  <2>4. A \in Seq(X) /\ Kept(t, S) = IF x \in S THEN Append(A, x) ELSE A
    BY <2>1, KeptOn DEF A
  <2>5. /\ \A y \in Range(A) : y \in Range(Append(A, x))
        /\ x \in Range(Append(A, x))
    <3>1. /\ Append(A, x) \in Seq(X) /\ Len(Append(A, x)) = Len(A) + 1 /\ Len(A) \in Nat
          /\ Append(A, x)[Len(A) + 1] = x /\ \A i \in 1 .. Len(A) : Append(A, x)[i] = A[i]
          /\ DOMAIN A = 1 .. Len(A) /\ DOMAIN Append(A, x) = 1 .. Len(A) + 1
      BY <2>1, <2>4
    <3> DEFINE C == Append(A, x)
    <3>2. DOMAIN A \subseteq DOMAIN C /\ Len(A) + 1 \in DOMAIN C
      BY <3>1
    <3>3. \A i \in DOMAIN A : C[i] = A[i]
      BY <3>1
    <3>4. C[Len(A) + 1] = x
      BY <3>1
    <3> HIDE DEF C
    <3>5. (\A y \in Range(A) : y \in Range(C)) /\ x \in Range(C)
      BY <3>2, <3>3, <3>4 DEF Range
    <3> QED
      BY <3>5 DEF C
  <2> HIDE DEF t
  <2>6. ASSUME NEW i \in 1 .. Len(t), t[i] \in S PROVE t[i] \in Range(Kept(t, S))
    <3>1. CASE i = Len(q) + 1
      BY <2>3, <2>4, <2>5, <2>6, <3>1
    <3>2. CASE i # Len(q) + 1
      <4>1. i \in 1 .. Len(q)
        BY <2>3, <3>2
      <4> QED
        BY <2>2, <2>3, <2>4, <2>5, <2>6, <4>1
    <3> QED
      BY <3>1, <3>2
  <2> QED
    BY <2>1, <2>3, <2>6
<1> HIDE DEF T
<1>3. \A k \in 0 .. Len(s) : SubSeq(s, 1, k) \in T
  BY <1>1, <1>2, EveryPrefix
<1>4. Len(s) \in 0 .. Len(s) /\ SubSeq(s, 1, Len(s)) = s
  OBVIOUS
<1>5. s \in T
  BY <1>3, <1>4
<1> QED
  BY <1>5 DEF T

\* Of the candles over by t, by the definition of the boundary, those over a day
\* later are still those over by t.
LEMMA ThePastIsVisible ==
  ASSUME <<3, 1>> \notin Cases, WalkIInv, InOrder(coarse), OnGrid(coarse), NEW t \in Int
  PROVE  Visible(Past(t), t + 24) = Visible(coarse, t)
<1> DEFINE S == {c \in Range(coarse) : Following(c.start) <= t}
           U == {c \in Range(Past(t)) : c.final /\ OverBy(c, t + 24)}
           V == {c \in Range(coarse) : c.final /\ OverBy(c, t)}
<1>1. coarse \in Seq(CoarseCandle) /\ \A i \in 1 .. Len(coarse) : coarse[i] \in Range(coarse)
  BY DEF InOrder, Range
<1>2. ASSUME NEW i \in 1 .. Len(coarse)
      PROVE  Following(coarse[i].start) = EndTime(coarse[i].start) /\ EndTime(coarse[i].start) \in Int
  <2>1. coarse[i].start \in Int /\ StartBoundary(coarse[i].start) = coarse[i].start
    BY DEF OnGrid
  <2>2. Ordinary(hours) /\ shift \in {-1, 0, 1}
    BY OrdinaryCases DEF WalkIInv
  <2>3. EndTime(coarse[i].start) \in Int
    BY DEF InOrder
  <2>4. Following(coarse[i].start) = EndTime(coarse[i].start)
    BY <2>1, <2>2, FollowingIsTheEnd
  <2> QED
    BY <2>3, <2>4
<1>3. Past(t) = Kept(coarse, S)
  BY DEF Past
<1>4. Visible(Past(t), t + 24) = Kept(Kept(coarse, S), U)
  BY <1>3 DEF Visible
<1> HIDE DEF U
<1>5. ASSUME NEW i \in 1 .. Len(coarse) PROVE coarse[i] \in S \cap U <=> coarse[i] \in V
  <2> DEFINE c == coarse[i]
             e == EndTime(c.start)
  <2>1. c \in Range(coarse) /\ Following(c.start) = e /\ e \in Int
    BY <1>1, <1>2
  <2>2. c \in S => c \in Range(Past(t))
    <3> HIDE DEF S
    <3> QED
      BY <1>1, <1>3, KeptHolds
  <2> HIDE DEF c, e
  <2>3. c \in S <=> e <= t
    BY <2>1
  <2>4. c \in U <=> c \in Range(Past(t)) /\ c.final /\ e <= t + 24
    BY DEF U, OverBy, e
  <2>5. c \in V <=> c.final /\ e <= t
    BY <2>1 DEF OverBy, e
  <2>6. e <= t => e <= t + 24
    BY <2>1
  <2>7. c \in S \cap U <=> c \in V
    <3> HIDE DEF S, V
    <3> QED
      BY <2>2, <2>3, <2>4, <2>5, <2>6
  <2> QED
    BY <2>7 DEF c
<1> HIDE DEF S, V
<1>6. Kept(Kept(coarse, S), U) = Kept(coarse, S \cap U)
  BY <1>1, KeptTwice
<1> DEFINE W == S \cap U
<1>7. \A i \in 1 .. Len(coarse) : coarse[i] \in W <=> coarse[i] \in V
  BY <1>5
<1> HIDE DEF W
<1>8. Kept(coarse, W) = Kept(coarse, V)
  BY <1>1, <1>7, KeptAlike
<1> QED
  BY <1>4, <1>6, <1>8 DEF W, Visible, V

\* No signal depends on a coarse candle that was not over when the candle it is
\* given for opened, nor is it for want of one that was: for all parameters,
\* bars, coarse candles and dates.
THEOREM SignalsAreOfThePast ==
  ASSUME <<3, 1>> \notin Cases
  PROVE  BacktestSpec => []SignalsUseThePast
<1>1. WalkIInv /\ ReplayIInv => SignalsUseThePast
  <2> SUFFICES ASSUME WalkIInv, ReplayIInv, strategy = "multi_timeframe_trend", series # <<>>
               PROVE  LET t == Opening(Len(series))
                      IN signal = Evaluate(strategy, series, Past(t), t + 24)
    BY DEF SignalsUseThePast
  <2> DEFINE t == Opening(Len(series))
  <2>1. InOrder(coarse) /\ OnGrid(coarse) /\ signal = Evaluate(strategy, series, coarse, t)
    BY DEF ReplayIInv, IncrementalIsReference
  <2>2. t \in Int
    <3>1. Len(series) \in Nat
      BY DEF ReplayIInv
    <3> QED
      BY <3>1, BacktestAssumption DEF Opening
  <2> HIDE DEF t
  <2>3. Visible(Past(t), t + 24) = Visible(coarse, t)
    BY <2>1, <2>2, ThePastIsVisible
  <2>4. Evaluate(strategy, series, Past(t), t + 24) = Evaluate(strategy, series, coarse, t)
    BY <2>3 DEF Evaluate, MultiTimeframe
  <2> QED
    BY <2>1, <2>4 DEF t
<1> QED
  BY <1>1, TheWalkIsTyped, TheReplayRemembers, PTL

-----------------------------------------------------------------------------
(* Trades are the account's.                                               *)

\* A set of one element, or none, in a sequence.
LEMMA SetsOfOneToSeq ==
  /\ SetToSeq({}) = <<>>
  /\ \A x : SetToSeq({x}) = <<x>>
<1>1. SetToSeq({}) = <<>>
  <2>1. Cardinality({}) = 0
    BY FS_EmptySet
  <2>2. \A f \in [1 .. 0 -> {}] : f = <<>>
    <3>1. \A f \in [1 .. 0 -> {}] : f \in Seq({}) /\ Len(f) = 0
      BY FunctionIsASequence
    <3>2. \A f \in Seq({}) : Len(f) = 0 => f = <<>>
      OBVIOUS
    <3> QED
      BY <3>1, <3>2
  <2>3. <<>> \in [1 .. 0 -> {}]
    OBVIOUS
  <2>4. IsInjective(<<>>)
    BY DEF IsInjective
  <2>5. SetToSeq({}) = CHOOSE f \in [1 .. 0 -> {}] : IsInjective(f)
    BY <2>1 DEF SetToSeq
  <2> QED
    BY <2>2, <2>3, <2>4, <2>5
<1>2. ASSUME NEW x PROVE SetToSeq({x}) = <<x>>
  <2>1. Cardinality({x}) = 1
    BY FS_Singleton
  <2>2. \A f \in [1 .. 1 -> {x}] : f = <<x>>
    OBVIOUS
  <2>3. <<x>> \in [1 .. 1 -> {x}] /\ IsInjective(<<x>>)
    BY DEF IsInjective
  <2>4. SetToSeq({x}) = CHOOSE f \in [1 .. 1 -> {x}] : IsInjective(f)
    BY <2>1 DEF SetToSeq
  <2> QED
    BY <2>2, <2>3, <2>4
<1> QED
  BY <1>1, <1>2

\* A strategy says one thing of a candle, or nothing.
Answers == {{}} \cup {{target} : target \in Sides \cup {"FLAT"}}

\* Every strategy answers that way.
LEMMA OneAnswer ==
  ASSUME strategy \in StrategyKeys, NEW bars, NEW q, NEW t
  PROVE  Evaluate(strategy, bars, q, t) \in Answers
<1>0. {} \in Answers /\ {"LONG"} \in Answers /\ {"SHORT"} \in Answers /\ {"FLAT"} \in Answers
  BY DEF Answers, Sides
<1>1. ASSUME NEW S \in Answers, NEW b \in BOOLEAN
      PROVE  {IF b THEN s ELSE "FLAT" : s \in S} \in Answers
  BY DEF Answers, Sides
<1>2. EmaCrossover(bars) \in Answers
  BY <1>0 DEF EmaCrossover, Crossing
<1>3. GatedCrossover(bars) \in Answers
  <2> DEFINE b == Trending(bars)
  <2>1. b \in BOOLEAN
    BY DEF Trending
  <2> HIDE DEF b
  <2>2. {IF b THEN s ELSE "FLAT" : s \in EmaCrossover(bars)} \in Answers
    BY <1>1, <1>2, <2>1
  <2> QED
    BY <2>2 DEF GatedCrossover, b
<1>4. MultiTimeframe(bars, q, t) \in Answers
  <2> DEFINE bias == Bias(Visible(q, t))
             S == EmaCrossover(bars)
  <2>1. S = {} \/ \E x \in Sides \cup {"FLAT"} : S = {x}
    BY <1>2 DEF Answers
  <2>2. MultiTimeframe(bars, q, t) = {IF bias = s THEN s ELSE "FLAT" : s \in S}
    BY DEF MultiTimeframe
  <2> HIDE DEF bias, S
  <2>3. {IF bias = s THEN s ELSE "FLAT" : s \in S} \in Answers
    BY <2>1 DEF Answers, Sides
  <2> QED
    BY <2>2, <2>3
<1>5. \A price, highs, lows : Beyond(price, highs, lows) \in Answers
  BY <1>0 DEF Beyond
<1>6. CloseChannel(bars) \in Answers
  BY <1>0, <1>5 DEF CloseChannel
<1>7. VolatilityExpansion(bars) \in Answers
  BY <1>0, <1>5 DEF VolatilityExpansion
<1>8. MeanReversion(bars) \in Answers
  BY <1>0 DEF MeanReversion
<1>9. Momentum(bars) \in Answers
  BY <1>0 DEF Momentum
<1>10. PreviousBarDirection(bars) \in Answers
  BY <1>0 DEF PreviousBarDirection
<1> QED
  BY <1>0, <1>2, <1>3, <1>4, <1>6, <1>7, <1>8, <1>9, <1>10 DEF Evaluate, StrategyKeys, Incremental

\* Hypotheses of candles so far, in the order of the candles.
Timed(q, n) ==
    /\ q \in Seq(Hypothesis)
    /\ \A i \in 1 .. Len(q) : 0 < q[i].at /\ q[i].at <= n
    /\ \A i \in 1 .. Len(q), j \in 1 .. Len(q) : i < j => q[i].at < q[j].at

HypothesesIInv ==
    /\ warmup \in Nat /\ strategy \in StrategyKeys \cup {"none"}
    /\ strategy = "none" => hypotheses = <<>>
    /\ Timed(hypotheses, Len(series))

\* One more.
LEMMA OneMore ==
  ASSUME NEW q, NEW n \in Nat, Timed(q, n), NEW h \in Hypothesis, h.at = n + 1
  PROVE  Timed(q, n + 1) /\ Timed(Append(q, h), n + 1)
<1>1. /\ q \in Seq(Hypothesis)
      /\ \A i \in 1 .. Len(q) : q[i].at \in Nat /\ 0 < q[i].at /\ q[i].at <= n
      /\ \A i \in 1 .. Len(q), j \in 1 .. Len(q) : i < j => q[i].at < q[j].at
  <2>1. \A x \in Hypothesis : x.at \in Nat
    BY DEF Hypothesis
  <2>2. \A i \in 1 .. Len(q) : q[i] \in Hypothesis
    BY DEF Timed
  <2>3. \A i \in 1 .. Len(q) : q[i].at \in Nat
    BY <2>1, <2>2
  <2> QED
    BY <2>3 DEF Timed
<1> DEFINE p == Append(q, h)
           L == Len(q)
<1>2. /\ p \in Seq(Hypothesis) /\ Len(p) = L + 1 /\ L \in Nat /\ p[L + 1] = h
      /\ \A i \in 1 .. L : p[i] = q[i]
  BY <1>1
<1> HIDE DEF p
<1>3. Timed(q, n + 1)
  BY <1>1 DEF Timed
<1>4. ASSUME NEW i \in 1 .. Len(p) PROVE 0 < p[i].at /\ p[i].at <= n + 1
  <2>1. CASE i = L + 1
    BY <1>2, <2>1
  <2>2. CASE i # L + 1
    <3>1. i \in 1 .. L
      BY <1>2, <2>2
    <3>2. q[i].at \in Nat /\ 0 < q[i].at /\ q[i].at <= n /\ p[i] = q[i]
      BY <1>1, <1>2, <3>1
    <3> QED
      BY <3>2
  <2> QED
    BY <2>1, <2>2
<1>5. ASSUME NEW i \in 1 .. Len(p), NEW j \in 1 .. Len(p), i < j PROVE p[i].at < p[j].at
  <2>1. i \in 1 .. L
    BY <1>2, <1>5
  <2>2. q[i].at \in Nat /\ q[i].at <= n /\ p[i] = q[i]
    BY <1>1, <1>2, <2>1
  <2>3. CASE j = L + 1
    <3>1. p[j].at = n + 1
      BY <1>2, <2>3
    <3> QED
      BY <2>2, <3>1
  <2>4. CASE j # L + 1
    <3>1. j \in 1 .. L
      BY <1>2, <2>4
    <3> QED
      BY <1>1, <1>2, <1>5, <2>1, <3>1
  <2> QED
    BY <2>3, <2>4
<1>6. Timed(p, n + 1)
  BY <1>2, <1>4, <1>5 DEF Timed
<1> QED
  BY <1>3, <1>6 DEF p

-----------------------------------------------------------------------------
(* The hypotheses of a run.                                                *)

\* A step of the walk or of the aggregation, and the start of a run, say nothing.
LEMMA NothingSaid ==
  ASSUME HypothesesIInv, UNCHANGED <<strategy, warmup, series, hypotheses>>
  PROVE  HypothesesIInv'
BY DEF HypothesesIInv, Timed

\* The start of a run makes a window, and no hypothesis.
LEMMA LoadSaysNothing ==
  ASSUME WalkIInv, ReplayIInv, HypothesesIInv, <<3, 1>> \notin Cases,
         NEW s \in StrategiesFor[shift], Load(s)
  PROVE  HypothesesIInv'
<1>1. /\ strategy' = s /\ warmup' \in Warmups /\ strategy = "none"
      /\ series' = series /\ hypotheses' = hypotheses
  BY DEF Load
<1>2. s \in StrategyKeys
  <2>1. shift \in {-1, 0, 1}
    BY OrdinaryCases DEF WalkIInv
  <2> QED
    BY <2>1, BacktestAssumption
<1>3. warmup' \in Nat
  BY <1>1, BacktestAssumption
<1>4. s # "none"
  BY <1>2 DEF StrategyKeys, Incremental
<1> QED
  BY <1>1, <1>2, <1>3, <1>4 DEF HypothesesIInv, Timed

\* A candle adds one hypothesis at most, the latest.
LEMMA OnBarSaysOnce ==
  ASSUME ReplayIInv, ReplayIInv', HypothesesIInv, NEW b \in Bars, OnBar(b)
  PROVE  HypothesesIInv'
<1> DEFINE n == Len(series)
           said == {[at |-> n + 1, target |-> x] : x \in signal'}
<1>1. /\ strategy # "none" /\ UNCHANGED <<strategy, warmup>> /\ series' = Append(series, b)
      /\ hypotheses' = hypotheses \o SetToSeq(said)
  BY DEF OnBar
<1>2. series \in Seq(Bar) /\ b \in Bar /\ n \in Nat /\ Len(series') = n + 1 /\ series' # <<>>
  BY <1>1, BacktestAssumption, BeforeTheLast DEF ReplayIInv
<1>3. strategy \in StrategyKeys /\ Timed(hypotheses, n)
  BY <1>1 DEF HypothesesIInv
<1> DEFINE t == Append(series, b)
<1>4. signal' \in Answers
  <2>1. UNCHANGED <<hours, shift, coarse>>
    BY DEF OnBar, walkVars
  <2>2. Opening(Len(series))' = Opening(n + 1)
    BY <1>1, <1>2 DEF Opening
  <2>3. Evaluate(strategy, series, coarse, Opening(Len(series)))'
          = Evaluate(strategy, t, coarse, Opening(n + 1))
    <3> HIDE DEF n
    <3> QED
      BY <1>1, <2>1, <2>2, DayStays
  <2>4. signal' = Evaluate(strategy, series, coarse, Opening(Len(series)))'
    BY <1>2 DEF ReplayIInv, IncrementalIsReference
  <2>5. Evaluate(strategy, t, coarse, Opening(n + 1)) \in Answers
    BY <1>3, OneAnswer
  <2> HIDE DEF n, t
  <2> QED
    BY <2>3, <2>4, <2>5
<1>5. Timed(hypotheses', n + 1)
  <2>1. CASE signal' = {}
    <3>1. said = {}
      BY <2>1
    <3>2. hypotheses \in Seq(Hypothesis)
      BY <1>3 DEF Timed
    <3>3. hypotheses' = hypotheses
      <4>1. hypotheses \o <<>> = hypotheses
        BY <3>2
      <4> HIDE DEF said
      <4> QED
        BY <1>1, <3>1, <4>1, SetsOfOneToSeq
    <3> DEFINE h == [at |-> n + 1, target |-> "FLAT"]
    <3>4. h \in Hypothesis /\ h.at = n + 1
      BY <1>2 DEF Hypothesis
    <3> HIDE DEF n, h
    <3> QED
      BY <1>2, <1>3, <3>3, <3>4, OneMore
  <2>2. CASE signal' # {}
    <3>1. PICK x \in Sides \cup {"FLAT"} : signal' = {x}
      BY <1>4, <2>2 DEF Answers
    <3> DEFINE h == [at |-> n + 1, target |-> x]
    <3>2. h \in Hypothesis /\ h.at = n + 1
      BY <1>2 DEF Hypothesis
    <3>3. said = {h}
      BY <3>1
    <3>4. hypotheses \in Seq(Hypothesis)
      BY <1>3 DEF Timed
    <3> HIDE DEF h, said
    <3>5. hypotheses' = hypotheses \o <<h>>
      BY <1>1, <3>3, SetsOfOneToSeq
    <3>6. hypotheses' = Append(hypotheses, h)
      BY <3>2, <3>4, <3>5
    <3> HIDE DEF n
    <3> QED
      BY <1>2, <1>3, <3>2, <3>6, OneMore
  <2> QED
    BY <2>1, <2>2
<1>6. Timed(hypotheses, Len(series))'
  <2> HIDE DEF n
  <2> QED
    BY <1>2, <1>5 DEF Timed
<1>7. strategy' # "none" /\ strategy' \in StrategyKeys /\ warmup' \in Nat
  BY <1>1, <1>3 DEF HypothesesIInv
<1> QED
  BY <1>6, <1>7 DEF HypothesesIInv

\* The replay and its hypotheses, over any walk but that of H3 in spring: they are of
\* its candles and in their order, at most one of a candle.
THEOREM HypothesesAreOfTheCandles ==
  ASSUME <<3, 1>> \notin Cases
  PROVE  BacktestSpec => []HypothesesIInv
<1>1. BacktestInit => HypothesesIInv
  <2> SUFFICES ASSUME BacktestInit PROVE HypothesesIInv
    OBVIOUS
  <2>1. strategy = "none" /\ warmup = 0 /\ hypotheses = <<>> /\ series = <<>>
    BY DEF BacktestInit
  <2>2. Timed(<<>>, Len(<<>>))
    BY DEF Timed
  <2> QED
    BY <2>1, <2>2 DEF HypothesesIInv
<1>2. ASSUME WalkIInv, ReplayIInv, HypothesesIInv, [BacktestNext]_backtestVars
      PROVE  HypothesesIInv'
  <2>1. ReplayIInv'
    BY <1>2, ReplayKeeps
  <2>2. CASE WalkNext /\ UNCHANGED <<aggregationVars, replayVars>>
    BY <1>2, <2>2, NothingSaid DEF replayVars
  <2>3. CASE strategy = "none" /\ \E h \in Sources : Aggregate(h) /\ UNCHANGED replayVars
    <3>1. UNCHANGED replayVars
      BY <2>3
    <3> QED
      BY <1>2, <3>1, NothingSaid DEF replayVars
  <2>4. CASE \E s \in StrategiesFor[shift] : Load(s)
    BY <1>2, <2>4, LoadSaysNothing
  <2>5. CASE \E b \in Bars : OnBar(b)
    BY <1>2, <2>1, <2>5, OnBarSaysOnce
  <2>6. CASE UNCHANGED backtestVars
    <3>1. UNCHANGED replayVars
      BY <2>6 DEF backtestVars
    <3> QED
      BY <1>2, <3>1, NothingSaid DEF replayVars
  <2> QED
    BY <1>2, <2>2, <2>3, <2>4, <2>5, <2>6 DEF BacktestNext
<1> QED
  BY <1>1, <1>2, TheWalkIsTyped, TheReplayRemembers, PTL DEF BacktestSpec

-----------------------------------------------------------------------------
(* The account of the trades.                                              *)

\* The fold of Trades, and where it starts.
Executes == [z \in Account \X Hypothesis |-> Execute(z[1], z[2])]
NoTrades == [position |-> Flat, trades |-> <<>>]

\* What a position opened, or closed, is.
LEMMA PricesAreIntegers ==
  ASSUME series \in Seq(Bar)
  PROVE  /\ \A n \in 1 .. Len(series) : series[n].open \in Int /\ series[n].close \in Int
         /\ \A x \in Int : Bought(x) \in Int /\ Sold(x) \in Int
<1>1. ASSUME NEW n \in 1 .. Len(series) PROVE series[n].open \in Int /\ series[n].close \in Int
  <2>1. series[n] \in Bar
    OBVIOUS
  <2>2. \A b \in Bar : b.open \in Nat /\ b.close \in Nat
    BY BarsHavePrices
  <2> QED
    BY <2>1, <2>2
<1>2. \A x \in Int : Bought(x) \in Int /\ Sold(x) \in Int
  BY BacktestAssumption DEF Bought, Sold
<1> QED
  BY <1>1, <1>2

\* A position opened is one, and closed it is a trade.
LEMMA OpenedAndClosed ==
  ASSUME series \in Seq(Bar), NEW n \in 1 .. Len(series)
  PROVE  /\ \A side \in Sides :
               Opened(side, n)
                 = {[side |-> side, at |-> n, price |-> EntryPrice(side, series[n].open)]}
               /\ [side |-> side, at |-> n, price |-> EntryPrice(side, series[n].open)] \in Position
         /\ \A p \in Position, x \in Int : Closed(p, n, x) \in Trade
<1>1. series[n].open \in Int /\ \A x \in Int : Bought(x) \in Int /\ Sold(x) \in Int
  BY PricesAreIntegers
<1>2. \A side : \A x \in Int : EntryPrice(side, x) \in Int /\ ExitPrice(side, x) \in Int
  BY <1>1 DEF EntryPrice, ExitPrice
<1>3. n \in Nat
  OBVIOUS
<1>4. ASSUME NEW side \in Sides
      PROVE  /\ Opened(side, n)
                  = {[side |-> side, at |-> n, price |-> EntryPrice(side, series[n].open)]}
             /\ [side |-> side, at |-> n, price |-> EntryPrice(side, series[n].open)] \in Position
  <2>1. EntryPrice(side, series[n].open) \in Int
    BY <1>1, <1>2
  <2> QED
    BY <1>3, <2>1 DEF Opened, Position
<1>5. ASSUME NEW p \in Position, NEW x \in Int PROVE Closed(p, n, x) \in Trade
  <2>1. ExitPrice(p.side, x) \in Int
    BY <1>2
  <2>2. p.side \in Sides /\ p.at \in Nat /\ p.price \in Int
    BY DEF Position
  <2> QED
    BY <1>3, <2>1, <2>2 DEF Closed, Trade
<1> QED
  BY <1>4, <1>5

\* The trades of an account that closes what is open.
LEMMA ClosingIs ==
  ASSUME series \in Seq(Bar), NEW n \in 1 .. Len(series), NEW x \in Int, NEW tr \in Seq(Trade)
  PROVE  /\ tr \o SetToSeq({Closed(p, n, x) : p \in {}}) = tr
         /\ \A r \in Position :
               tr \o SetToSeq({Closed(p, n, x) : p \in {r}}) = Append(tr, Closed(r, n, x))
<1>1. {Closed(p, n, x) : p \in {}} = {} /\ \A r : {Closed(p, n, x) : p \in {r}} = {Closed(r, n, x)}
  OBVIOUS
<1>2. tr \o <<>> = tr /\ \A t \in Trade : tr \o <<t>> = Append(tr, t)
  OBVIOUS
<1>3. \A r \in Position : Closed(r, n, x) \in Trade
  BY OpenedAndClosed
<1> QED
  BY <1>1, <1>2, <1>3, SetsOfOneToSeq

\* An account holds nothing, or one position.
LEMMA OneOrNone ==
  ASSUME NEW a \in Account
  PROVE  /\ a = [position |-> a.position, trades |-> a.trades] /\ a.trades \in Seq(Trade)
         /\ a.position = {} \/ \E p \in Position : a.position = {p}
         /\ {} \in {S \in SUBSET Position : \A p, o \in S : p = o}
         /\ \A p \in Position : {p} \in {S \in SUBSET Position : \A r, o \in S : r = o}
BY DEF Account

\* What a hypothesis does to an account: nothing, or it closes what is open and
\* opens what is asked.
LEMMA ExecuteIs ==
  ASSUME series \in Seq(Bar), NEW a \in Account, NEW h \in Hypothesis
  PROVE  LET n == ExecutedIn(h)
             x == series[n].open
             opened == [side |-> h.target, at |-> n, price |-> EntryPrice(h.target, x)]
             left == IF h.target = "FLAT" THEN {} ELSE {opened}
         IN /\ n \in Nat /\ n > 0
            /\ Execute(a, h) \in Account
            /\ n > Len(series) => Execute(a, h) = a
            /\ n <= Len(series) =>
                 /\ h.target # "FLAT" => opened \in Position
                 /\ a.position = {} => Execute(a, h) = [position |-> left, trades |-> a.trades]
                 /\ \A p \in Position : a.position = {p} =>
                      Execute(a, h) = IF p.side = h.target THEN a
                                      ELSE [position |-> left,
                                            trades |-> Append(a.trades, Closed(p, n, x))]
<1> DEFINE n == ExecutedIn(h)
           x == series[n].open
           opened == [side |-> h.target, at |-> n, price |-> EntryPrice(h.target, x)]
           left == IF h.target = "FLAT" THEN {} ELSE {opened}
           closed == {Closed(p, n, x) : p \in a.position}
<1>1. h.at \in Nat /\ h.target \in Sides \cup {"FLAT"} /\ n = h.at + 1
  BY DEF Hypothesis, ExecutedIn
<1>2. n \in Nat /\ n > 0
  BY <1>1
<1>3. Len(series) \in Nat
  OBVIOUS
<1>4. n > Len(series) => Execute(a, h) = a
  BY DEF Execute
<1>5. ASSUME n <= Len(series)
      PROVE  /\ n \in 1 .. Len(series) /\ x \in Int
             /\ h.target # "FLAT" => opened \in Position
             /\ left \in {S \in SUBSET Position : \A p, o \in S : p = o}
             /\ Execute(a, h) = IF \E p \in a.position : p.side = h.target THEN a
                               ELSE [position |-> left, trades |-> a.trades \o SetToSeq(closed)]
  <2>1. n \in 1 .. Len(series) /\ ~(n > Len(series))
    BY <1>2, <1>3, <1>5
  <2>2. x \in Int
    BY <2>1, PricesAreIntegers
  <2>3. h.target # "FLAT" => h.target \in Sides /\ Opened(h.target, n) = {opened} /\ opened \in Position
    <3> HIDE DEF n
    <3> QED
      BY <1>1, <2>1, OpenedAndClosed
  <2>4. (IF h.target = "FLAT" THEN Flat ELSE Opened(h.target, n)) = left
    BY <2>3 DEF Flat
  <2>5. Execute(a, h) = IF \E p \in a.position : p.side = h.target THEN a
                        ELSE [position |-> left, trades |-> a.trades \o SetToSeq(closed)]
    BY <2>1, <2>4 DEF Execute
  <2>6. left \in {S \in SUBSET Position : \A p, o \in S : p = o}
    <3> HIDE DEF opened
    <3> QED
      BY <2>3
  <2> QED
    BY <2>1, <2>2, <2>3, <2>5, <2>6
<1>6. a.trades \in Seq(Trade) /\ (a.position = {} \/ \E p \in Position : a.position = {p})
  BY OneOrNone
<1>7. ASSUME n <= Len(series), a.position = {}
      PROVE  Execute(a, h) = [position |-> left, trades |-> a.trades] /\ Execute(a, h) \in Account
  <2>1. n \in 1 .. Len(series) /\ x \in Int
    BY <1>5, <1>7
  <2>2. a.trades \o SetToSeq(closed) = a.trades
    <3> HIDE DEF n, x
    <3> QED
      BY <2>1, <1>6, <1>7, ClosingIs
  <2> HIDE DEF n, x, left, closed
  <2>3. Execute(a, h) = [position |-> left, trades |-> a.trades]
    BY <1>5, <1>7, <2>2
  <2> QED
    BY <1>5, <1>6, <1>7, <2>3 DEF Account
<1>8. ASSUME n <= Len(series), NEW p \in Position, a.position = {p}
      PROVE  /\ Execute(a, h) = IF p.side = h.target THEN a
                               ELSE [position |-> left, trades |-> Append(a.trades, Closed(p, n, x))]
             /\ Execute(a, h) \in Account
  <2>1. n \in 1 .. Len(series) /\ x \in Int
    BY <1>5, <1>8
  <2> DEFINE c == Closed(p, n, x)
  <2>2. c \in Trade
    <3> HIDE DEF n, x
    <3> QED
      BY <2>1, OpenedAndClosed
  <2>3. a.trades \o SetToSeq(closed) = Append(a.trades, c)
    <3>1. closed = {Closed(r, n, x) : r \in {p}}
      BY <1>8
    <3> HIDE DEF n, x, closed
    <3> QED
      BY <2>1, <1>6, <3>1, ClosingIs
  <2> HIDE DEF n, x, left, closed, c
  <2>4. Execute(a, h) = IF p.side = h.target THEN a
                        ELSE [position |-> left, trades |-> Append(a.trades, c)]
    BY <1>5, <1>8, <2>3
  <2>5. Append(a.trades, c) \in Seq(Trade)
    BY <1>6, <2>2
  <2>6. Execute(a, h) \in Account
    BY <1>5, <1>8, <2>4, <2>5 DEF Account
  <2> QED
    BY <2>4, <2>6 DEF c
<1>9. Execute(a, h) \in Account
  <2> HIDE DEF n, x, left, closed
  <2> QED
    BY <1>2, <1>3, <1>4, <1>6, <1>7, <1>8
<1>10. n <= Len(series) => (h.target # "FLAT" => opened \in Position)
  BY <1>5
<1> HIDE DEF closed
<1> QED
  BY <1>2, <1>4, <1>7, <1>8, <1>9, <1>10

\* A step of the fold.
LEMMA ExecutesSteps ==
  ASSUME series \in Seq(Bar)
  PROVE  /\ Foldable(Executes, Account, Hypothesis) /\ NoTrades \in Account
         /\ \A a \in Account, h \in Hypothesis : Executes[<<a, h>>] = Execute(a, h)
<1>1. \A a \in Account, h \in Hypothesis : Execute(a, h) \in Account
  BY ExecuteIs
<1>2. NoTrades \in Account
  <2>1. <<>> \in Seq(Trade)
    OBVIOUS
  <2> QED
    BY <2>1 DEF NoTrades, Flat, Account
<1> QED
  BY <1>1, <1>2 DEF Executes, Foldable

-----------------------------------------------------------------------------
(* The books: what the trades earned, against what the account paid.       *)

Earned(tr) == Total([i \in 1 .. Len(tr) |-> tr[i].pnl])

\* Trades of the window that follow one another, up to candle n.
InTurn(tr, n) ==
    \A i \in 1 .. Len(tr) :
        /\ warmup < tr[i].in /\ tr[i].in <= tr[i].out /\ tr[i].out <= n
        /\ i > 1 => tr[i - 1].out <= tr[i].in

\* One more trade.
LEMMA EarnedGrows ==
  ASSUME NEW tr \in Seq(Trade), NEW t \in Trade
  PROVE  /\ Earned(tr) \in Int /\ Earned(<<>>) = 0
         /\ Earned(Append(tr, t)) = Earned(tr) + t.pnl
<1> DEFINE u == Append(tr, t)
           n == Len(tr)
           f == [i \in 1 .. n + 1 |-> u[i].pnl]
           g == [i \in 1 .. n |-> tr[i].pnl]
<1>0. \A x \in Trade : x.pnl \in Int
  BY DEF Trade
<1>1. /\ u \in Seq(Trade) /\ Len(u) = n + 1 /\ n \in Nat /\ u[n + 1] = t
      /\ \A i \in 1 .. n : u[i] = tr[i] /\ tr[i] \in Trade
  OBVIOUS
<1>2. g \in [1 .. n -> Int]
  BY <1>0, <1>1
<1>3. \A i \in 1 .. n + 1 : u[i] \in Trade
  BY <1>1
<1>4. f \in [1 .. n + 1 -> Int]
  BY <1>0, <1>3
<1>5. \A i \in 1 .. n : f[i] = g[i]
  BY <1>1
<1>6. f[n + 1] = t.pnl /\ t.pnl \in Int
  BY <1>0, <1>1
<1>7. Earned(tr) = Total(g) /\ Earned(u) = Total(f)
  BY <1>1 DEF Earned
<1> HIDE DEF f, g, u, n
<1>8. f = Append([i \in 1 .. n |-> f[i]], f[n + 1])
  BY <1>1, <1>4, LastOfAFunction
<1>9. [i \in 1 .. n |-> f[i]] = g
  BY <1>2, <1>5
<1>10. g \in Seq(Int)
  BY <1>1, <1>2, FunctionIsASequence
<1>11. Total(f) = Total(g) + t.pnl
  BY <1>6, <1>8, <1>9, <1>10, TotalOn
<1>12. Total(g) \in Int
  BY <1>10, TotalOn
<1>13. Earned(<<>>) = 0
  <2>1. [i \in 1 .. Len(<<>>) |-> (<<>>)[i].pnl] = <<>>
    OBVIOUS
  <2>2. Total(<<>>) = 0
    BY <1>10, TotalOn
  <2> QED
    BY <2>1, <2>2 DEF Earned
<1> QED
  BY <1>7, <1>11, <1>12, <1>13 DEF u

\* Trades up to a candle are up to the next, and one more may follow them.
LEMMA TurnsGoOn ==
  ASSUME warmup \in Nat, NEW n \in Nat, NEW tr \in Seq(Trade), InTurn(tr, n)
  PROVE  /\ InTurn(tr, n + 1)
         /\ \A t \in Trade, m \in n .. n + 1 :
               /\ warmup < t.in /\ t.in <= t.out /\ t.out <= m
               /\ \A i \in 1 .. Len(tr) : tr[i].out <= t.in
               => InTurn(Append(tr, t), m)
<1>0. \A x \in Trade : x.in \in Nat /\ x.out \in Nat
  BY DEF Trade
<1>1. /\ Len(tr) \in Nat
      /\ \A i \in 1 .. Len(tr) : tr[i].in \in Nat /\ tr[i].out \in Nat
  <2>1. \A i \in 1 .. Len(tr) : tr[i] \in Trade
    OBVIOUS
  <2> QED
    BY <1>0, <2>1
<1>2. \A m \in n .. n + 1 : InTurn(tr, m)
  BY <1>1 DEF InTurn
<1>3. ASSUME NEW t \in Trade, NEW m \in n .. n + 1,
             warmup < t.in, t.in <= t.out, t.out <= m,
             \A i \in 1 .. Len(tr) : tr[i].out <= t.in
      PROVE  InTurn(Append(tr, t), m)
  <2> DEFINE u == Append(tr, t)
             k == Len(tr)
  <2>1. Len(u) = k + 1 /\ k \in Nat /\ u[k + 1] = t /\ \A i \in 1 .. k : u[i] = tr[i]
    OBVIOUS
  <2> HIDE DEF u
  <2>2. ASSUME NEW i \in 1 .. k + 1
        PROVE  /\ warmup < u[i].in /\ u[i].in <= u[i].out /\ u[i].out <= m
               /\ i > 1 => u[i - 1].out <= u[i].in
    <3>1. CASE i = k + 1
      <4>1. i > 1 => i - 1 \in 1 .. k
        BY <2>1, <3>1
      <4>2. u[i] = t /\ (i > 1 => u[i - 1] = tr[i - 1])
        BY <2>1, <3>1, <4>1
      <4> QED
        BY <1>3, <4>1, <4>2
    <3>2. CASE i # k + 1
      <4>1. i \in 1 .. k /\ (i > 1 => i - 1 \in 1 .. k)
        BY <2>1, <3>2
      <4>2. u[i] = tr[i] /\ (i > 1 => u[i - 1] = tr[i - 1])
        BY <2>1, <4>1
      <4> QED
        BY <1>2, <4>1, <4>2 DEF InTurn
    <3> QED
      BY <3>1, <3>2
  <2> QED
    BY <2>1, <2>2 DEF InTurn, u
<1>4. InTurn(tr, n + 1)
  BY <1>2
<1> QED
  BY <1>3, <1>4

\* The exposure a target asks for.
Facing(target) == IF target = "FLAT" THEN 0 ELSE IF target = "LONG" THEN 1 ELSE -1

\* An open position of the window, and the exposure it is.
Open(p, a, x, n) ==
    /\ p \in Position /\ a.position = {p} /\ warmup < p.at /\ p.at <= n
    /\ \A i \in 1 .. Len(a.trades) : a.trades[i].out <= p.at
    /\ \/ x = 1 /\ p.side = "LONG"
       \/ x = -1 /\ p.side = "SHORT"

\* The account before the opening of candle n + 1, exposed x, that received f: its
\* trades have earned f, but for what was paid for the position it holds.
Books(a, x, n, f) ==
    /\ a \in Account /\ f \in Int /\ InTurn(a.trades, n)
    /\ \/ x = 0 /\ a.position = {} /\ Earned(a.trades) = f
       \/ \E p : Open(p, a, x, n) /\ Earned(a.trades) = f + x * p.price

\* It does nothing.
LEMMA BooksLast ==
  ASSUME warmup \in Nat, series \in Seq(Bar), NEW a, NEW x, NEW f, NEW n \in Nat, Books(a, x, n, f),
         NEW price \in Int
  PROVE  x \in {-1, 0, 1} /\ Books(a, x, n + 1, f + Flow(x - x, price))
<1>1. a \in Account /\ f \in Int /\ InTurn(a.trades, n) /\ a.trades \in Seq(Trade)
  BY OneOrNone DEF Books
<1>2. InTurn(a.trades, n + 1)
  BY <1>1, TurnsGoOn
<1>3. x \in {-1, 0, 1}
  BY DEF Books, Open
<1>4. Flow(x - x, price) = 0
  <2>1. x - x = 0 /\ Sold(price) \in Int
    BY <1>3, PricesAreIntegers
  <2> QED
    BY <2>1 DEF Flow
<1>5. f + Flow(x - x, price) = f
  BY <1>1, <1>4
<1>6. \A p : Open(p, a, x, n) => Open(p, a, x, n + 1)
  <2>1. \A p \in Position : p.at \in Nat
    BY DEF Position
  <2> QED
    BY <2>1 DEF Open
<1> QED
  BY <1>1, <1>2, <1>3, <1>5, <1>6 DEF Books

\* A position closed in the next candle, or in the last: the trades have then earned
\* what the account, out of it at that price, has received.
LEMMA BooksClosed ==
  ASSUME warmup \in Nat, series \in Seq(Bar), NEW a, NEW x, NEW f \in Int, NEW n \in Nat,
         a \in Account, InTurn(a.trades, n), NEW p, Open(p, a, x, n),
         Earned(a.trades) = f + x * p.price,
         NEW m \in n .. n + 1, m \in 1 .. Len(series), NEW price \in Int
  PROVE  LET tr == Append(a.trades, Closed(p, m, price))
         IN /\ tr \in Seq(Trade) /\ InTurn(tr, m) /\ Earned(tr) = f + Flow(-x, price)
            /\ \A i \in 1 .. Len(tr) : tr[i].out <= m
<1> DEFINE c == Closed(p, m, price)
           tr == Append(a.trades, c)
<1>1. c \in Trade /\ a.trades \in Seq(Trade)
  BY OneOrNone, OpenedAndClosed DEF Open
<1>2. /\ p \in Position /\ p.at \in Nat /\ p.price \in Int /\ warmup < p.at /\ p.at <= n
      /\ \A i \in 1 .. Len(a.trades) : a.trades[i].out <= p.at
  BY DEF Open, Position
<1>3. c.in = p.at /\ c.out = m
  BY DEF Closed
<1>4. tr \in Seq(Trade) /\ Earned(tr) = Earned(a.trades) + c.pnl /\ Earned(a.trades) \in Int
  <2> HIDE DEF c
  <2> QED
    BY <1>1, EarnedGrows
<1>5. InTurn(tr, m)
  <2> HIDE DEF c
  <2>1. warmup < c.in /\ c.in <= c.out /\ c.out <= m
    BY <1>2, <1>3
  <2> QED
    BY <1>1, <1>2, <1>3, <2>1, TurnsGoOn
<1>6. x * p.price + c.pnl = Flow(-x, price)
  <2>1. Sold(price) \in Int /\ Bought(price) \in Int
    BY PricesAreIntegers
  <2>2. CASE x = 1 /\ p.side = "LONG"
    <3>1. c.pnl = Sold(price) - p.price
      BY <2>2 DEF Closed, ExitPrice
    <3>2. Flow(-x, price) = Sold(price)
      BY <2>1, <2>2 DEF Flow
    <3> HIDE DEF c
    <3> QED
      BY <1>2, <2>1, <2>2, <3>1, <3>2
  <2>3. CASE x = -1 /\ p.side = "SHORT"
    <3>1. c.pnl = p.price - Bought(price)
      BY <2>3 DEF Closed, ExitPrice
    <3>2. Flow(-x, price) = -Bought(price)
      BY <2>1, <2>3 DEF Flow
    <3> HIDE DEF c
    <3> QED
      BY <1>2, <2>1, <2>3, <3>1, <3>2
  <2> QED
    BY <2>2, <2>3 DEF Open
<1>7. Earned(tr) = f + Flow(-x, price)
  <2>1. c.pnl \in Int /\ x \in Int
    BY <1>1 DEF Trade, Open
  <2>2. x * p.price \in Int
    BY <1>2, <2>1
  <2> HIDE DEF c, tr
  <2> QED
    BY <1>4, <1>6, <2>1, <2>2
<1>8. \A i \in 1 .. Len(tr) : tr[i].out <= m
  BY <1>5 DEF InTurn
<1> QED
  BY <1>4, <1>5, <1>7, <1>8

\* A hypothesis is executed at the opening of the candle after its own: the account is
\* then exposed to what it asks, having paid or received that.
LEMMA BooksExecuted ==
  ASSUME warmup \in Nat, series \in Seq(Bar), NEW a, NEW x, NEW f, NEW n \in Nat,
         Books(a, x, n, f), NEW h \in Hypothesis, h.at = n, warmup < n, n + 1 <= Len(series)
  PROVE  Books(Execute(a, h), Facing(h.target), n + 1,
               f + Flow(Facing(h.target) - x, series[n + 1].open))
<1> DEFINE m == n + 1
           price == series[m].open
           to == Facing(h.target)
           opened == [side |-> h.target, at |-> m, price |-> EntryPrice(h.target, price)]
           left == IF h.target = "FLAT" THEN {} ELSE {opened}
           b == Execute(a, h)
           g == f + Flow(to - x, price)
<1>1. a \in Account /\ f \in Int /\ InTurn(a.trades, n) /\ a.trades \in Seq(Trade)
  BY OneOrNone DEF Books
<1>2. m \in 1 .. Len(series) /\ m \in n .. n + 1 /\ ExecutedIn(h) = m /\ m <= Len(series) /\ m \in Nat
  BY DEF ExecutedIn
<1>3. price \in Int /\ Bought(price) \in Int /\ Sold(price) \in Int
  <2> HIDE DEF m
  <2> QED
    BY <1>2, PricesAreIntegers
<1>4. h.target \in {"LONG", "SHORT", "FLAT"} /\ x \in {-1, 0, 1} /\ to \in {-1, 0, 1}
  BY <1>3, BooksLast DEF Hypothesis, Sides, Facing
<1>5. /\ b \in Account
      /\ h.target # "FLAT" => opened \in Position
      /\ a.position = {} => b = [position |-> left, trades |-> a.trades]
      /\ \A p \in Position : a.position = {p} =>
           b = IF p.side = h.target THEN a
               ELSE [position |-> left, trades |-> Append(a.trades, Closed(p, m, price))]
  <2> HIDE DEF m
  <2> QED
    BY <1>1, <1>2, ExecuteIs
<1>6. InTurn(a.trades, m)
  BY <1>1, TurnsGoOn
<1>7. /\ to = 0 <=> h.target = "FLAT"
      /\ to = 1 <=> h.target = "LONG"
      /\ to = -1 <=> h.target = "SHORT"
  BY <1>4 DEF Facing
<1>8. g \in Int /\ Flow(to - x, price) \in Int
  <2> HIDE DEF price, to
  <2>1. ASSUME NEW d \in Int PROVE Flow(d, price) \in Int
    <3>1. -d \in Int
      OBVIOUS
    <3>2. \A y \in Int, z \in Int : y * z \in Int
      OBVIOUS
    <3> QED
      BY <1>3, <3>1, <3>2 DEF Flow
  <2>2. to - x \in Int
    BY <1>4
  <2> QED
    BY <1>1, <2>1, <2>2
<1>9. /\ h.target = "LONG" => opened.price = Bought(price)
      /\ h.target = "SHORT" => opened.price = Sold(price)
      /\ opened.side = h.target /\ opened.at = m
  BY DEF EntryPrice
<1>10. warmup < m
  OBVIOUS
\* Out of a position, or with none, it holds what is asked.
<1>11. ASSUME NEW tr \in Seq(Trade), b = [position |-> left, trades |-> tr], InTurn(tr, m),
              \A i \in 1 .. Len(tr) : tr[i].out <= m, Earned(tr) = f + Flow(-x, price), to # x
       PROVE  Books(b, to, m, g)
  <2> HIDE DEF m, price, to, b, g, opened
  <2>1. b.trades = tr /\ b.position = left
    BY <1>11
  <2>2. CASE to = 0
    <3>1. Flow(to - x, price) = Flow(-x, price)
      BY <1>4, <2>2
    <3>2. b.position = {}
      BY <1>7, <2>1, <2>2
    <3> QED
      BY <1>5, <1>8, <1>11, <2>1, <2>2, <3>1, <3>2 DEF Books, g
  <2>3. CASE to # 0
    <3>1. h.target # "FLAT" /\ opened \in Position /\ b.position = {opened}
      BY <1>5, <1>7, <2>1, <2>3
    <3>2. /\ opened.side = h.target /\ opened.at = m
          /\ \/ to = 1 /\ h.target = "LONG" /\ opened.price = Bought(price)
             \/ to = -1 /\ h.target = "SHORT" /\ opened.price = Sold(price)
      BY <1>4, <1>7, <1>9, <2>3
    <3>3. Open(opened, b, to, m)
      BY <1>2, <1>10, <1>11, <2>1, <3>1, <3>2 DEF Open
    <3>4. Flow(-x, price) = Flow(to - x, price) + to * opened.price
      <4>1. CASE to = 1 /\ x = 0
        BY <1>3, <3>2, <4>1 DEF Flow
      <4>2. CASE to = 1 /\ x = -1
        BY <1>3, <3>2, <4>2 DEF Flow
      <4>3. CASE to = -1 /\ x = 0
        BY <1>3, <3>2, <4>3 DEF Flow
      <4>4. CASE to = -1 /\ x = 1
        BY <1>3, <3>2, <4>4 DEF Flow
      <4> QED
        BY <1>4, <1>11, <2>3, <4>1, <4>2, <4>3, <4>4
    <3>5. opened.price \in Int /\ to * opened.price \in Int
      BY <1>3, <1>4, <3>2
    <3>6. Earned(tr) = g + to * opened.price
      BY <1>1, <1>8, <1>11, <3>4, <3>5 DEF g
    <3> QED
      BY <1>5, <1>8, <1>11, <2>1, <3>3, <3>6 DEF Books
  <2> QED
    BY <2>2, <2>3
<1>12. ASSUME x = 0, a.position = {}, Earned(a.trades) = f
       PROVE  Books(b, to, m, g)
  <2>1. b = [position |-> left, trades |-> a.trades]
    BY <1>5, <1>12
  <2>2. CASE to = 0
    <3>1. b = a
      <4>1. left = {}
        BY <1>7, <2>2
      <4>2. a = [position |-> a.position, trades |-> a.trades]
        BY <1>1, OneOrNone
      <4> HIDE DEF left, b
      <4> QED
        BY <1>12, <2>1, <4>1, <4>2
    <3> HIDE DEF b, to, price
    <3>2. Books(a, x, n + 1, f + Flow(x - x, price))
      BY <1>3, BooksLast
    <3> QED
      BY <1>12, <2>2, <3>1, <3>2
  <2>3. CASE to # 0
    <3>1. \A i \in 1 .. Len(a.trades) : a.trades[i].out <= m
      BY <1>6 DEF InTurn
    <3>2. Flow(-x, price) = 0
      <4> HIDE DEF price
      <4> QED
        BY <1>3, <1>12 DEF Flow
    <3>3. Earned(a.trades) = f + Flow(-x, price)
      BY <1>1, <1>12, <3>2
    <3> HIDE DEF b, to, price, left, m, g
    <3> QED
      BY <1>1, <1>6, <1>11, <1>12, <2>1, <2>3, <3>1, <3>3
  <2> QED
    BY <2>2, <2>3
<1>13. ASSUME NEW p, Open(p, a, x, n), Earned(a.trades) = f + x * p.price
       PROVE  Books(b, to, m, g)
  <2>1. p \in Position /\ a.position = {p} /\ ((x = 1 /\ p.side = "LONG") \/ (x = -1 /\ p.side = "SHORT"))
    BY <1>13 DEF Open
  <2>2. CASE p.side = h.target
    <3>1. b = a /\ to = x
      BY <1>5, <1>7, <2>1, <2>2
    <3> HIDE DEF b, to, price
    <3>2. Books(a, x, n + 1, f + Flow(x - x, price))
      BY <1>3, BooksLast
    <3> QED
      BY <3>1, <3>2
  <2>3. CASE p.side # h.target
    <3> DEFINE tr == Append(a.trades, Closed(p, m, price))
    <3>1. b = [position |-> left, trades |-> tr] /\ to # x
      BY <1>5, <1>7, <2>1, <2>3
    <3>2. /\ tr \in Seq(Trade) /\ InTurn(tr, m) /\ Earned(tr) = f + Flow(-x, price)
          /\ \A i \in 1 .. Len(tr) : tr[i].out <= m
      <4> HIDE DEF m, price
      <4>1. tr \in Seq(Trade) /\ InTurn(tr, m)
        BY <1>1, <1>2, <1>3, <1>13, BooksClosed
      <4>2. Earned(tr) = f + Flow(-x, price)
        BY <1>1, <1>2, <1>3, <1>13, BooksClosed
      <4>3. \A i \in 1 .. Len(tr) : tr[i].out <= m
        BY <1>1, <1>2, <1>3, <1>13, BooksClosed
      <4> QED
        BY <4>1, <4>2, <4>3
    <3> HIDE DEF b, to, price, left, m, g, tr
    <3> QED
      BY <1>11, <3>1, <3>2
  <2> QED
    BY <2>2, <2>3
<1> HIDE DEF b, to, g, left, opened
<1>14. Books(b, to, m, g)
  <2> HIDE DEF m
  <2> QED
    BY <1>12, <1>13 DEF Books
<1> QED
  BY <1>14 DEF b, to, m, g

-----------------------------------------------------------------------------
(* The hypotheses executed so far, and the exposure they ask for.          *)

\* The hypotheses of the window given before candle n, and the account they leave.
Due(n) == {h \in Range(hypotheses) : warmup < h.at /\ h.at < n}
Ledger(n) == Folded(Executes, NoTrades, Kept(hypotheses, Due(n)))

\* What follows of their order.
LEMMA HypothesesInOrder ==
  ASSUME HypothesesIInv
  PROVE  /\ hypotheses \in Seq(Hypothesis) /\ Len(hypotheses) \in Nat /\ warmup \in Nat
         /\ \A i \in 1 .. Len(hypotheses) :
               /\ hypotheses[i] \in Range(hypotheses) /\ hypotheses[i] \in Hypothesis
               /\ hypotheses[i].at \in Nat /\ 0 < hypotheses[i].at
               /\ hypotheses[i].at <= Len(series)
         /\ \A i \in 1 .. Len(hypotheses), j \in 1 .. Len(hypotheses) :
               i < j => hypotheses[i].at < hypotheses[j].at
<1>1. hypotheses \in Seq(Hypothesis) /\ Len(hypotheses) \in Nat /\ warmup \in Nat
  BY DEF HypothesesIInv, Timed
<1>2. ASSUME NEW i \in 1 .. Len(hypotheses)
      PROVE  /\ hypotheses[i] \in Range(hypotheses) /\ hypotheses[i] \in Hypothesis
             /\ hypotheses[i].at \in Nat
  <2>1. hypotheses[i] \in Hypothesis /\ i \in DOMAIN hypotheses
    BY <1>1
  <2>2. hypotheses[i] \in Range(hypotheses)
    BY <2>1 DEF Range
  <2>3. \A h \in Hypothesis : h.at \in Nat
    BY DEF Hypothesis
  <2> QED
    BY <2>1, <2>2, <2>3
<1> QED
  BY <1>1, <1>2 DEF HypothesesIInv, Timed

\* No hypothesis of the window is given in candle n: nothing is due after it.
LEMMA NothingDue ==
  ASSUME HypothesesIInv, NEW n \in Nat,
         \A i \in 1 .. Len(hypotheses) : warmup < hypotheses[i].at => hypotheses[i].at # n
  PROVE  Kept(hypotheses, Due(n + 1)) = Kept(hypotheses, Due(n)) /\ Exposure(n + 1) = Exposure(n)
<1>1. \A i \in 1 .. Len(hypotheses) :
         /\ hypotheses[i] \in Range(hypotheses) /\ hypotheses[i].at \in Nat
         /\ warmup < hypotheses[i].at /\ hypotheses[i].at < n + 1
              <=> warmup < hypotheses[i].at /\ hypotheses[i].at < n
  BY HypothesesInOrder
<1>2. \A i \in 1 .. Len(hypotheses) : hypotheses[i] \in Due(n + 1) <=> hypotheses[i] \in Due(n)
  BY <1>1 DEF Due
<1>3. Kept(hypotheses, Due(n + 1)) = Kept(hypotheses, Due(n))
  BY <1>2, HypothesesInOrder, KeptAlike
<1>4. {i \in 1 .. Len(hypotheses) : warmup < hypotheses[i].at /\ hypotheses[i].at < n + 1}
        = {i \in 1 .. Len(hypotheses) : warmup < hypotheses[i].at /\ hypotheses[i].at < n}
  BY <1>1
<1> QED
  BY <1>3, <1>4 DEF Exposure

\* A hypothesis of the window is given in candle n: it is due after it, the latest.
LEMMA OneDue ==
  ASSUME HypothesesIInv, NEW i \in 1 .. Len(hypotheses), warmup < hypotheses[i].at
  PROVE  LET n == hypotheses[i].at
         IN /\ Kept(hypotheses, Due(n + 1)) = Append(Kept(hypotheses, Due(n)), hypotheses[i])
            /\ Exposure(n + 1) = Facing(hypotheses[i].target)
<1> DEFINE n == hypotheses[i].at
           q == hypotheses
           L == Len(hypotheses)
           before == SubSeq(q, 1, i - 1)
<1>1. /\ q \in Seq(Hypothesis) /\ L \in Nat /\ warmup \in Nat /\ n \in Nat
      /\ \A j \in 1 .. L : q[j] \in Range(q) /\ q[j] \in Hypothesis /\ q[j].at \in Nat
      /\ \A j \in 1 .. L, k \in 1 .. L : j < k => q[j].at < q[k].at
  BY HypothesesInOrder
<1>2. i \in Nat /\ i - 1 \in Nat /\ i - 1 < L /\ (i - 1) + 1 = i /\ i - 1 \in 0 .. L /\ i \in 0 .. L
  BY <1>1
<1>3. \A j \in 1 .. L : q[j] \in Due(n) <=> warmup < q[j].at /\ q[j].at < n
  BY <1>1 DEF Due
<1>4. \A j \in 1 .. L : q[j] \in Due(n + 1) <=> warmup < q[j].at /\ q[j].at < n + 1
  BY <1>1 DEF Due
<1>5. \A j \in 1 .. L : (j < i => q[j].at < n) /\ (j > i => n < q[j].at)
  BY <1>1
<1>6. before \in Seq(Hypothesis) /\ SubSeq(q, 1, i) = Append(before, q[i]) /\ q[i] \in Hypothesis
  BY <1>1, <1>2, PrefixesGrow
<1>7. Len(before) = i - 1 /\ \A j \in 1 .. i - 1 : before[j] = q[j] /\ j \in 1 .. L /\ j < i
  BY <1>1, <1>2
<1> DEFINE D == Due(n)
           E == Due(n + 1)
<1>8. \A j \in 1 .. Len(before) : before[j] \in E <=> before[j] \in D
  <2> SUFFICES ASSUME NEW j \in 1 .. i - 1 PROVE before[j] \in E <=> before[j] \in D
    BY <1>7
  <2>1. before[j] = q[j] /\ j \in 1 .. L /\ q[j].at < n /\ q[j].at \in Nat
    BY <1>1, <1>5, <1>7
  <2>2. q[j].at < n + 1
    BY <1>1, <2>1
  <2> QED
    BY <1>3, <1>4, <2>1, <2>2
<1>9. q[i] \in E
  <2>1. n < n + 1
    BY <1>1
  <2> QED
    BY <1>4, <2>1
<1>10. \A j \in i + 1 .. L : q[j] \notin E
  <2> SUFFICES ASSUME NEW j \in i + 1 .. L PROVE q[j] \notin E
    OBVIOUS
  <2>1. j \in 1 .. L /\ j > i
    BY <1>1, <1>2
  <2>2. q[j].at \in Nat /\ n < q[j].at
    BY <1>1, <1>5, <2>1
  <2>3. ~(q[j].at < n + 1)
    BY <1>1, <2>2
  <2> QED
    BY <1>4, <2>1, <2>3
<1>11. \A j \in (i - 1) + 1 .. L : q[j] \notin D
  <2> SUFFICES ASSUME NEW j \in (i - 1) + 1 .. L PROVE q[j] \notin D
    OBVIOUS
  <2>1. j \in 1 .. L /\ (j > i \/ j = i)
    BY <1>1, <1>2
  <2>2. q[j].at \in Nat /\ (n < q[j].at \/ n = q[j].at)
    BY <1>1, <1>5, <2>1
  <2>3. ~(q[j].at < n)
    BY <1>1, <2>2
  <2> QED
    BY <1>3, <2>1, <2>3
<1>12. Kept(q, E) = Kept(SubSeq(q, 1, i), E)
  <2>1. q \in Seq(Hypothesis) /\ i \in 0 .. Len(q) /\ \A j \in i + 1 .. Len(q) : q[j] \notin E
    BY <1>1, <1>2, <1>10
  <2> HIDE DEF E, q
  <2> QED
    BY <2>1, KeptOfPrefix
<1>13. Kept(q, D) = Kept(before, D)
  <2> DEFINE m == i - 1
  <2>1. /\ q \in Seq(Hypothesis) /\ m \in 0 .. Len(q) /\ before = SubSeq(q, 1, m)
        /\ \A j \in m + 1 .. Len(q) : q[j] \notin D
    BY <1>1, <1>2, <1>11
  <2> HIDE DEF D, q, m, before
  <2> QED
    BY <2>1, KeptOfPrefix
<1>14. Kept(before, E) = Kept(before, D)
  <2> HIDE DEF D, E, before
  <2> QED
    BY <1>6, <1>8, KeptAlike
<1>15. Kept(Append(before, q[i]), E) = Append(Kept(before, E), q[i])
  <2> HIDE DEF D, E, before
  <2> QED
    BY <1>6, <1>9, KeptOn
<1>16. Kept(q, E) = Append(Kept(q, D), q[i])
  <2> HIDE DEF D, E, before
  <2> QED
    BY <1>6, <1>12, <1>13, <1>14, <1>15
<1>17. Exposure(n + 1) = Facing(q[i].target)
  <2> DEFINE given == {j \in 1 .. L : warmup < q[j].at /\ q[j].at < n + 1}
  <2>1. i \in given
    <3>1. n < n + 1
      BY <1>1
    <3> QED
      BY <3>1
  <2>2. \A j \in given : j \in Int /\ i >= j
    <3> SUFFICES ASSUME NEW j \in given PROVE j \in Int /\ i >= j
      OBVIOUS
    <3>1. j \in 1 .. L /\ q[j].at \in Nat /\ q[j].at < n + 1
      BY <1>1
    <3>2. ~(n < q[j].at)
      BY <1>1, <3>1
    <3>3. ~(j > i)
      BY <1>5, <3>1, <3>2
    <3> QED
      BY <1>2, <3>1, <3>3
  <2>3. Exposure(n + 1) = IF given = {} \/ q[Max(given)].target = "FLAT" THEN 0
                          ELSE IF q[Max(given)].target = "LONG" THEN 1 ELSE -1
    BY DEF Exposure
  <2> HIDE DEF given
  <2>4. Max(given) = i
    <3>1. \E x \in given : \A y \in given : x >= y
      BY <2>1, <2>2
    <3>2. Max(given) \in given /\ \A y \in given : Max(given) >= y
      BY <3>1 DEF Max
    <3>3. i >= Max(given) /\ Max(given) >= i /\ Max(given) \in Int /\ i \in Int
      BY <1>2, <2>1, <2>2, <3>2
    <3> QED
      BY <3>3
  <2> QED
    BY <2>1, <2>3, <2>4 DEF Facing
<1> QED
  BY <1>16, <1>17

-----------------------------------------------------------------------------
(* The ledger is the account.                                              *)

\* What the account received by candle n, and what is open at the end is closed for.
Received(n) == Total([k \in 1 .. n |-> Flow(Exposure(k) - Exposure(k - 1), series[k].open)])

\* One more candle.
LEMMA ReceivedGoesOn ==
  ASSUME series \in Seq(Bar), NEW n \in Nat, n + 1 <= Len(series)
  PROVE  /\ Received(0) = 0 /\ Received(n) \in Int
         /\ Received(n + 1) = Received(n) + Flow(Exposure(n + 1) - Exposure(n), series[n + 1].open)
<1> DEFINE f(m) == [k \in 1 .. m |-> Flow(Exposure(k) - Exposure(k - 1), series[k].open)]
<1>1. \A k \in Int : Exposure(k) \in Int
  BY DEF Exposure
<1>2. ASSUME NEW k \in 1 .. Len(series)
      PROVE  Flow(Exposure(k) - Exposure(k - 1), series[k].open) \in Int
  <2>1. Bought(series[k].open) \in Int /\ Sold(series[k].open) \in Int
    BY PricesAreIntegers
  <2>2. Exposure(k) \in Int /\ Exposure(k - 1) \in Int
    BY <1>1
  <2>3. \A d \in Int, z \in Int : -d * z \in Int
    OBVIOUS
  <2> QED
    BY <2>1, <2>2, <2>3 DEF Flow
<1>3. ASSUME NEW m \in Nat, m <= Len(series) PROVE f(m) \in [1 .. m -> Int]
  <2>1. \A k \in 1 .. m : k \in 1 .. Len(series)
    BY <1>3
  <2> QED
    BY <1>2, <2>1
<1> DEFINE g == f(n)
           h == f(n + 1)
           last == Flow(Exposure(n + 1) - Exposure(n), series[n + 1].open)
<1>4. g \in [1 .. n -> Int] /\ h \in [1 .. n + 1 -> Int]
  <2> HIDE DEF f
  <2>1. n \in Nat /\ n + 1 \in Nat /\ n <= Len(series)
    OBVIOUS
  <2> QED
    BY <1>3, <2>1
<1>5. (\A k \in 1 .. n : h[k] = g[k]) /\ h[n + 1] = last
  <2>1. (n + 1) - 1 = n
    OBVIOUS
  <2> QED
    BY <2>1
<1>6. Received(n) = Total(g) /\ Received(n + 1) = Total(h)
  BY DEF Received
<1>7. Received(0) = 0
  <2>1. f(0) = <<>>
    OBVIOUS
  <2>2. <<>> \in Seq(Int)
    OBVIOUS
  <2> QED
    BY <2>1, <2>2, TotalOn DEF Received
<1> HIDE DEF g, h, last
<1>8. g \in Seq(Int) /\ h = Append([k \in 1 .. n |-> h[k]], h[n + 1]) /\ h[n + 1] \in Int
  BY <1>4, FunctionIsASequence, LastOfAFunction
<1>9. [k \in 1 .. n |-> h[k]] = g
  BY <1>4, <1>5
<1>10. Total(g) \in Int /\ Total(h) = Total(g) + last
  BY <1>5, <1>8, <1>9, TotalOn
<1> QED
  BY <1>6, <1>7, <1>10 DEF last

\* Before the first candle.
LEMMA LedgerStarts ==
  ASSUME HypothesesIInv, series \in Seq(Bar)
  PROVE  Ledger(0) = NoTrades /\ Books(Ledger(0), Exposure(0), 0, 0)
<1>1. /\ hypotheses \in Seq(Hypothesis) /\ Len(hypotheses) \in Nat
      /\ \A i \in 1 .. Len(hypotheses) : hypotheses[i].at \in Nat
  BY HypothesesInOrder
<1>2. \A i \in 1 .. Len(hypotheses) : hypotheses[i] \notin Due(0)
  BY <1>1 DEF Due
<1>3. Kept(hypotheses, Due(0)) = <<>>
  <2>1. \A i \in 0 + 1 .. Len(hypotheses) : hypotheses[i] \notin Due(0)
    BY <1>2
  <2>2. 0 \in 0 .. Len(hypotheses)
    BY <1>1
  <2>3. Kept(hypotheses, Due(0)) = Kept(SubSeq(hypotheses, 1, 0), Due(0))
    BY <1>1, <2>1, <2>2, KeptOfPrefix
  <2>4. SubSeq(hypotheses, 1, 0) = <<>>
    BY <1>1, PrefixesGrow
  <2> QED
    BY <1>1, <2>3, <2>4, KeptOn
<1>4. Ledger(0) = NoTrades
  BY <1>3, ExecutesSteps, FoldsNothing DEF Ledger
<1>5. Exposure(0) = 0
  <2>1. {i \in 1 .. Len(hypotheses) : warmup < hypotheses[i].at /\ hypotheses[i].at < 0} = {}
    BY <1>1
  <2> QED
    BY <2>1 DEF Exposure
<1>6. Books(NoTrades, 0, 0, 0)
  <2>1. NoTrades \in Account /\ NoTrades.position = {} /\ NoTrades.trades = <<>>
    BY ExecutesSteps DEF NoTrades, Flat
  <2>2. <<>> \in Seq(Trade) /\ InTurn(<<>>, 0)
    BY DEF InTurn
  <2>3. Earned(<<>>) = 0
    <3>1. [i \in 1 .. Len(<<>>) |-> (<<>>)[i].pnl] = <<>>
      OBVIOUS
    <3>2. <<>> \in Seq(Int)
      OBVIOUS
    <3> QED
      BY <3>1, <3>2, TotalOn DEF Earned
  <2> QED
    BY <2>1, <2>2, <2>3 DEF Books
<1> QED
  BY <1>4, <1>5, <1>6

\* The account after the hypothesis of a candle, if there is one.
LEMMA LedgerGoesOn ==
  ASSUME HypothesesIInv, series \in Seq(Bar), NEW n \in Nat
  PROVE  \/ Ledger(n + 1) = Ledger(n) /\ Exposure(n + 1) = Exposure(n)
         \/ \E h \in Hypothesis : /\ h.at = n /\ warmup < n
                                  /\ Exposure(n + 1) = Facing(h.target)
                                  /\ Ledger(n) \in Account => Ledger(n + 1) = Execute(Ledger(n), h)
<1>1. CASE \A i \in 1 .. Len(hypotheses) : warmup < hypotheses[i].at => hypotheses[i].at # n
  BY <1>1, NothingDue DEF Ledger
<1>2. CASE \E i \in 1 .. Len(hypotheses) : warmup < hypotheses[i].at /\ hypotheses[i].at = n
  <2>1. PICK i \in 1 .. Len(hypotheses) : warmup < hypotheses[i].at /\ hypotheses[i].at = n
    BY <1>2
  <2> DEFINE h == hypotheses[i]
             kept == Kept(hypotheses, Due(n))
             after == Kept(hypotheses, Due(n + 1))
  <2>2. h \in Hypothesis /\ hypotheses \in Seq(Hypothesis)
    BY HypothesesInOrder
  <2>3. after = Append(kept, h) /\ Exposure(n + 1) = Facing(h.target)
    BY <2>1, OneDue
  <2>4. kept \in Seq(Hypothesis)
    BY <2>2, KeptOn
  <2>5. Ledger(n) = Folded(Executes, NoTrades, kept) /\ Ledger(n + 1) = Folded(Executes, NoTrades, after)
    BY DEF Ledger
  <2> HIDE DEF h, kept, after
  <2>6. Foldable(Executes, Account, Hypothesis) /\ NoTrades \in Account
    BY ExecutesSteps
  <2>7. Folded(Executes, NoTrades, Append(kept, h)) = Executes[<<Folded(Executes, NoTrades, kept), h>>]
    BY <2>2, <2>4, <2>6, FoldsOn
  <2>8. Ledger(n) \in Account => Ledger(n + 1) = Execute(Ledger(n), h)
    BY <2>2, <2>3, <2>5, <2>7, ExecutesSteps
  <2>9. h.at = n /\ warmup < n
    BY <2>1 DEF h
  <2> QED
    BY <2>2, <2>3, <2>8, <2>9
<1> QED
  BY <1>1, <1>2

\* In step, candle by candle.
LEMMA LedgerIsTheAccount ==
  ASSUME HypothesesIInv, series \in Seq(Bar)
  PROVE  \A n \in 0 .. Len(series) : Books(Ledger(n), Exposure(n), n, Received(n))
<1> DEFINE T == {n \in Nat : n <= Len(series) => Books(Ledger(n), Exposure(n), n, Received(n))}
<1>0. warmup \in Nat /\ Len(series) \in Nat
  BY HypothesesInOrder
<1>1. 0 \in T
  <2>1. Len(series) >= 1 => Received(0) = 0
    <3>1. 0 + 1 <= Len(series) => Received(0) = 0
      BY ReceivedGoesOn
    <3> QED
      BY <3>1
  <2>2. Received(0) = 0
    <3>1. [k \in 1 .. 0 |-> Flow(Exposure(k) - Exposure(k - 1), series[k].open)] = <<>>
      OBVIOUS
    <3>2. <<>> \in Seq(Int)
      OBVIOUS
    <3> QED
      BY <3>1, <3>2, TotalOn DEF Received
  <2> QED
    BY <2>2, LedgerStarts
<1>2. ASSUME NEW n \in T PROVE n + 1 \in T
  <2> SUFFICES ASSUME n + 1 <= Len(series)
               PROVE  Books(Ledger(n + 1), Exposure(n + 1), n + 1, Received(n + 1))
    OBVIOUS
  <2> DEFINE a == Ledger(n)
             x == Exposure(n)
             f == Received(n)
             price == series[n + 1].open
  <2>1. n \in Nat /\ n <= Len(series) /\ n + 1 \in 1 .. Len(series)
    BY <1>0
  <2>2. Books(a, x, n, f) /\ a \in Account
    BY <2>1 DEF Books
  <2>3. Received(n + 1) = f + Flow(Exposure(n + 1) - x, price)
    BY <2>1, ReceivedGoesOn
  <2>4. price \in Int
    BY <2>1, PricesAreIntegers
  <2> HIDE DEF a, x, f, T
  <2>5. CASE Ledger(n + 1) = a /\ Exposure(n + 1) = x
    <3> HIDE DEF price
    <3>1. Books(a, x, n + 1, f + Flow(x - x, price))
      BY <1>0, <2>1, <2>2, <2>4, BooksLast
    <3> QED
      BY <2>3, <2>5, <3>1
  <2>6. ASSUME NEW h \in Hypothesis, h.at = n, warmup < n, Exposure(n + 1) = Facing(h.target),
               Ledger(n + 1) = Execute(a, h)
        PROVE  Books(Ledger(n + 1), Exposure(n + 1), n + 1, Received(n + 1))
    <3>1. Books(Execute(a, h), Facing(h.target), n + 1, f + Flow(Facing(h.target) - x, price))
      BY <1>0, <2>1, <2>2, <2>6, BooksExecuted
    <3> HIDE DEF price
    <3> QED
      BY <2>3, <2>6, <3>1
  <2> QED
    BY <2>1, <2>2, <2>5, <2>6, LedgerGoesOn DEF a, x
<1>3. T \subseteq Nat
  OBVIOUS
<1> HIDE DEF T
<1>4. \A n \in Nat : n \in T
  BY <1>1, <1>2, <1>3, Upwards
<1> QED
  BY <1>4 DEF T

\* The trades of the window, in a state of a run.
LEMMA TradesSettle ==
  ASSUME HypothesesIInv, series \in Seq(Bar), series # <<>>
  PROVE  LET last == Len(series)
         IN /\ Trades \in Seq(Trade) /\ InTurn(Trades, last)
            /\ Earned(Trades) = Received(last) + Flow(-Exposure(last), series[last].close)
<1> DEFINE last == Len(series)
           sealed == {h \in Range(hypotheses) : Sealed(h)}
           a == Folded(Executes, NoTrades, Kept(hypotheses, sealed))
           x == Exposure(last)
           f == Received(last)
           price == series[last].close
<1>0. last \in Nat /\ last \in 0 .. last /\ last \in 1 .. last /\ last \in last .. last + 1
      /\ warmup \in Nat
  BY HypothesesInOrder
<1>1. Trades = a.trades \o SetToSeq({Closed(p, last, price) : p \in a.position})
  BY DEF Trades, Executes, NoTrades
<1>2. a = Ledger(last + 1)
  <2>1. \A i \in 1 .. Len(hypotheses) : hypotheses[i] \in sealed <=> hypotheses[i] \in Due(last + 1)
    <3> SUFFICES ASSUME NEW i \in 1 .. Len(hypotheses)
                 PROVE  hypotheses[i] \in sealed <=> hypotheses[i] \in Due(last + 1)
      OBVIOUS
    <3>1. /\ hypotheses[i] \in Range(hypotheses) /\ hypotheses[i].at \in Nat
          /\ hypotheses[i].at <= Len(series)
      BY HypothesesInOrder
    <3>2. hypotheses[i].at < last + 1
      BY <1>0, <3>1
    <3>3. hypotheses[i] \in sealed <=> warmup < hypotheses[i].at
      BY <1>0, <3>1 DEF Sealed
    <3> QED
      BY <3>1, <3>2, <3>3 DEF Due
  <2> HIDE DEF sealed, last
  <2>2. Kept(hypotheses, sealed) = Kept(hypotheses, Due(last + 1))
    BY <2>1, HypothesesInOrder, KeptAlike
  <2> QED
    BY <2>2 DEF Ledger
<1>3. Books(Ledger(last), x, last, f)
  <2> HIDE DEF last
  <2> QED
    BY <1>0, LedgerIsTheAccount DEF last
<1>4. a = Ledger(last)
  <2> HIDE DEF a, last
  <2>1. Ledger(last) \in Account
    BY <1>3 DEF Books
  <2>2. CASE Ledger(last + 1) = Ledger(last)
    BY <1>2, <2>2
  <2>3. ASSUME NEW h \in Hypothesis, h.at = last, Ledger(last + 1) = Execute(Ledger(last), h)
        PROVE  a = Ledger(last)
    <3>1. ExecutedIn(h) > Len(series)
      BY <1>0, <2>3 DEF ExecutedIn, last
    <3>2. Execute(Ledger(last), h) = Ledger(last)
      BY <3>1 DEF Execute
    <3> QED
      BY <1>2, <2>3, <3>2
  <2> QED
    BY <1>0, <2>1, <2>2, <2>3, LedgerGoesOn
<1> HIDE DEF a
<1>5. a \in Account /\ a.trades \in Seq(Trade) /\ f \in Int /\ InTurn(a.trades, last)
  BY <1>3, <1>4, OneOrNone DEF Books
<1>6. price \in Int /\ Sold(price) \in Int
  BY <1>0, PricesAreIntegers
<1>7. CASE x = 0 /\ a.position = {} /\ Earned(a.trades) = f
  <2> HIDE DEF price, x, f
  <2>1. Trades = a.trades
    <3>1. last \in 1 .. Len(series)
      BY <1>0
    <3> HIDE DEF last
    <3>2. a.trades \o SetToSeq({Closed(p, last, price) : p \in {}}) = a.trades
      BY <1>5, <1>6, <3>1, ClosingIs
    <3> QED
      BY <1>1, <1>7, <3>2
  <2>2. Flow(-x, price) = 0
    BY <1>6, <1>7 DEF Flow
  <2>3. Earned(Trades) = f + Flow(-x, price)
    BY <1>5, <1>7, <2>1, <2>2
  <2> QED
    BY <1>5, <2>1, <2>3 DEF last, price, x, f
<1>8. ASSUME NEW p, Open(p, a, x, last), Earned(a.trades) = f + x * p.price
      PROVE  /\ Trades \in Seq(Trade) /\ InTurn(Trades, last)
             /\ Earned(Trades) = f + Flow(-x, price)
  <2> DEFINE tr == Append(a.trades, Closed(p, last, price))
  <2>1. p \in Position /\ a.position = {p} /\ last \in 1 .. Len(series)
    BY <1>0, <1>8 DEF Open
  <2>2. Trades = tr
    <3> HIDE DEF last, price, tr
    <3>1. a.trades \o SetToSeq({Closed(r, last, price) : r \in {p}}) = tr
      BY <1>5, <1>6, <2>1, ClosingIs DEF tr
    <3>2. {Closed(r, last, price) : r \in {p}} = {Closed(r, last, price) : r \in a.position}
      BY <2>1
    <3> QED
      BY <1>1, <3>1, <3>2
  <2>3. tr \in Seq(Trade) /\ InTurn(tr, last)
    <3> HIDE DEF last, price, x, f
    <3> QED
      BY <1>0, <1>5, <1>6, <1>8, <2>1, BooksClosed
  <2>4. Earned(tr) = f + Flow(-x, price)
    <3> HIDE DEF last, price, x, f
    <3> QED
      BY <1>0, <1>5, <1>6, <1>8, <2>1, BooksClosed
  <2> HIDE DEF tr
  <2> QED
    BY <2>2, <2>3, <2>4
<1> QED
  BY <1>3, <1>4, <1>7, <1>8 DEF Books

\* The trades of a sealed window earn what the account earns that follows its signals
\* from the next opening, is flat at first and closed at the end, and they follow one
\* another in it: for all strategies, bars, spreads and windows.
THEOREM TradesEarnTheAccount ==
  ASSUME <<3, 1>> \notin Cases
  PROVE  BacktestSpec => []TradesAreTheAccount
<1>1. ReplayIInv /\ HypothesesIInv => TradesAreTheAccount
  <2> SUFFICES ASSUME ReplayIInv, HypothesesIInv, series # <<>> PROVE TradesAreTheAccount
    BY DEF TradesAreTheAccount
  <2>1. series \in Seq(Bar)
    BY DEF ReplayIInv
  <2> DEFINE last == Len(series)
             tr == Trades
  <2>2. InTurn(tr, last)
    BY <2>1, TradesSettle
  <2>3. Earned(tr) = Received(last) + Flow(-Exposure(last), series[last].close)
    BY <2>1, TradesSettle
  <2>4. \A i \in 1 .. Len(tr) : /\ warmup < tr[i].in /\ tr[i].in <= tr[i].out
                                /\ i > 1 => tr[i - 1].out <= tr[i].in
    BY <2>2 DEF InTurn
  <2> QED
    BY <2>3, <2>4 DEF TradesAreTheAccount, Earned, Received
<1> QED
  BY <1>1, TheReplayRemembers, HypothesesAreOfTheCandles, PTL
=============================================================================

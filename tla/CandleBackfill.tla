--------------------------- MODULE CandleBackfill ---------------------------
(***************************************************************************)
(* BackfillCandles for one (instrument, granularity): concurrent calls,    *)
(* serialised by BackfillLock, extend the stored candle history page by    *)
(* page and record what is covered in the ingestion watermark.             *)
(*                                                                         *)
(* Instants are numbers; Boundaries are the instants at which candles of   *)
(* the granularity start, at whatever distances (a DST day has a longer or *)
(* a shorter one).  IngestCandles writes the same table without the lock.  *)
(***************************************************************************)
EXTENDS Integers, FiniteSets

CONSTANTS Boundaries,   \* candle starts
          Traded,       \* the candles the market actually traded in
          Horizon,      \* bound on the clock
          PageSize,     \* max_candles_per_page
          Workers,      \* concurrent BackfillCandles calls
          Ingesters,    \* concurrent IngestCandles calls
          MaxCalls,     \* bound on the calls made
          Nobody, NoMark

Instants == 0 .. Horizon

\* candle_start_boundary: the start of the candle an instant falls in.
IsFloor(b, t) == b <= t /\ \A c \in Boundaries : c <= t => c <= b
Floor(t) == CHOOSE b \in Boundaries : IsFloor(b, t)

ASSUME GridAssumption ==
    /\ Horizon \in Nat
    /\ Boundaries \subseteq Nat
    /\ \A t \in Instants : \E b \in Boundaries : IsFloor(b, t)

ASSUME BackfillAssumption ==
    /\ Traded \subseteq Boundaries
    /\ PageSize \in Nat \ {0}
    /\ MaxCalls \in Nat
    /\ Nobody \notin Workers \cup Ingesters
    /\ Workers \cap Ingesters = {}
    /\ NoMark \notin [earliest : Int, latest : Int]

Calls == Workers \cup Ingesters

\* The candles table and a provider response alike: what is known of a candle.
Knowledge == {"absent", "forming", "final"}
Candles == [Boundaries -> Knowledge]
Nothing == [b \in Boundaries |-> "absent"]

VARIABLES now,         \* the clock
          candles,     \* committed rows of the series
          watermark,   \* its committed ingestion watermark
          lock,        \* the call whose connection holds the advisory lock
          pc,          \* per call: its next await
          request,     \* per call: the range asked for
          plan,        \* per call: the sub-operation in progress
          page, got,   \* per call: the page fetched and the provider's answer
          result,      \* per call: how the last one ended
          made         \* calls made so far

vars == <<now, candles, watermark, lock, pc, request, plan, page, got, result, made>>

\* The candle starts the clock can reach.
Starts == Boundaries \cap Instants

Span == [start : Instants, end : Instants]
Page == [start : Starts, end : Instants]
Mark == [earliest : Starts, latest : Starts]

\* from .. upto is what is left to fetch; kept is the bound of the watermark
\* that stays fixed meanwhile.
Plan == [way : {"backward", "forward"}, from : Starts,
         upto : Instants, kept : Starts]

NoSpan == [start |-> Floor(0), end |-> 0]
NoPlan == [way |-> "forward", from |-> Floor(0), upto |-> 0, kept |-> Floor(0)]

Steps == {"idle", "acquire", "read", "fetch", "store", "mark", "reread", "finish",
          "ingest", "upsert"}

-----------------------------------------------------------------------------
(* Pages: split_into_pages anchors them at the floor of the range's start. *)

CandlesIn(from, upto) == {b \in Boundaries : from <= b /\ b < upto}

\* The first page of [from, upto): PageSize candles, or all that is left.
IsForwardPage(p, from, upto) ==
    /\ p.start = from
    /\ \/ /\ p.end \in Boundaries
          /\ p.end <= upto
          /\ Cardinality(CandlesIn(from, p.end)) = PageSize
       \/ /\ p.end = upto
          /\ Cardinality(CandlesIn(from, upto)) <= PageSize

\* Mutant: a backward extension fetches its oldest page first.
OldestPageFirst(p, from, upto) == IsForwardPage(p, from, upto)

\* The last page of [from, upto) when pages are counted from its start.
IsBackwardPage(p, from, upto) ==
    /\ p.end = upto
    /\ p.start \in CandlesIn(from, upto)
    /\ Cardinality(CandlesIn(from, p.start)) % PageSize = 0
    /\ Cardinality(CandlesIn(p.start, upto)) <= PageSize

IsPage(p, work) ==
    IF work.way = "forward" THEN IsForwardPage(p, work.from, work.upto)
                            ELSE IsBackwardPage(p, work.from, work.upto)

\* Mutant: the requested end itself becomes the claimed latest bound.
RequestedLatest(t) == t

\* The latest bound a stored page justifies: a candle still forming at the
\* requested end is not claimed.
AlignedLatest(t) == Floor(t)

\* Mutant: a forward extension starts where the request does.
RequestedStart(r, mark) == Floor(r.start)

\* A forward extension starts where the coverage ends.
ForwardStart(r, mark) == mark.latest

\* A candle is over when the clock is past its end, the next boundary.
Over(b) == \E c \in Boundaries : b < c /\ c <= now

\* The provider's answer for [s, e): the traded candles that have begun, the
\* last of them possibly still forming.
Answer(s, e) ==
    [b \in Boundaries |->
        IF b \notin Traded \cap CandlesIn(s, e) \/ b >= now THEN "absent"
        ELSE IF Over(b) THEN "final" ELSE "forming"]

\* upsert_many: fetched candles replace whatever was stored of them.
Upserted(fetched) ==
    [b \in Boundaries |-> IF fetched[b] = "absent" THEN candles[b] ELSE fetched[b]]

\* The touch rule: a single interval cannot represent two disjoint ranges.
Touches(r, mark) == r.start <= mark.latest /\ mark.earliest <= r.end

-----------------------------------------------------------------------------
Init ==
    /\ now = 0
    /\ candles = Nothing
    /\ watermark = NoMark
    /\ lock = Nobody
    /\ pc = [w \in Calls |-> "idle"]
    /\ request = [w \in Calls |-> NoSpan]
    /\ plan = [w \in Calls |-> NoPlan]
    /\ page = [w \in Calls |-> NoSpan]
    /\ got = [w \in Calls |-> Nothing]
    /\ result = [w \in Calls |-> "none"]
    /\ made = 0

Goto(w, step) == pc' = [pc EXCEPT ![w] = step]

\* The call is over, nothing of it survives; leaving the lock's context unlocks.
End(w, how) ==
    /\ Goto(w, "idle")
    /\ result' = [result EXCEPT ![w] = how]
    /\ request' = [request EXCEPT ![w] = NoSpan]
    /\ plan' = [plan EXCEPT ![w] = NoPlan]
    /\ page' = [page EXCEPT ![w] = NoSpan]
    /\ got' = [got EXCEPT ![w] = Nothing]
    /\ lock' = IF lock = w THEN Nobody ELSE lock

Work(w, way, from, upto, kept) ==
    plan' = [plan EXCEPT ![w] = [way |-> way, from |-> from, upto |-> upto, kept |-> kept]]

Tick ==
    /\ now < Horizon
    /\ now' = now + 1
    /\ UNCHANGED <<candles, watermark, lock, pc, request, plan, page, got, result, made>>

\* A caller asks for [start, end); no caller asks beyond the present.
Call(w, s, e, first) ==
    /\ pc[w] = "idle"
    /\ made < MaxCalls
    /\ s < e
    /\ e <= now
    /\ request' = [request EXCEPT ![w] = [start |-> s, end |-> e]]
    /\ result' = [result EXCEPT ![w] = "none"]
    /\ made' = made + 1
    /\ Goto(w, first)
    /\ UNCHANGED <<now, candles, watermark, lock, plan, page, got>>

\* Mutant: the lock is taken whoever holds it.
AcquireWithoutWaiting(w) ==
    /\ pc[w] = "acquire"
    /\ lock' = w
    /\ Goto(w, "read")
    /\ UNCHANGED <<now, candles, watermark, request, plan, page, got, result, made>>

\* lock.acquire waits for pg_advisory_lock.
Acquire(w) ==
    /\ pc[w] = "acquire"
    /\ lock = Nobody
    /\ lock' = w
    /\ Goto(w, "read")
    /\ UNCHANGED <<now, candles, watermark, request, plan, page, got, result, made>>

\* get_watermark and the plan made from it: the first range of the series, a
\* refusal, a backward extension, a forward extension, or nothing to do.
ReadWatermark(w) ==
    LET r == request[w] IN
    /\ pc[w] = "read"
    /\ \/ /\ watermark = NoMark
          /\ Work(w, "forward", Floor(r.start), r.end, Floor(r.start))
          /\ Goto(w, "fetch")
          /\ UNCHANGED <<lock, request, page, got, result>>
       \/ /\ watermark # NoMark
          /\ ~Touches(r, watermark)
          /\ End(w, "disjoint")
       \/ /\ watermark # NoMark
          /\ Touches(r, watermark)
          /\ r.start < watermark.earliest
          /\ Work(w, "backward", Floor(r.start), watermark.earliest, watermark.latest)
          /\ Goto(w, "fetch")
          /\ UNCHANGED <<lock, request, page, got, result>>
       \/ /\ watermark # NoMark
          /\ Touches(r, watermark)
          /\ r.start >= watermark.earliest
          /\ r.end > watermark.latest
          /\ Work(w, "forward", ForwardStart(r, watermark), r.end, watermark.earliest)
          /\ Goto(w, "fetch")
          /\ UNCHANGED <<lock, request, page, got, result>>
       \/ /\ watermark # NoMark
          /\ Touches(r, watermark)
          /\ r.start >= watermark.earliest
          /\ r.end <= watermark.latest
          /\ Goto(w, "finish")
          /\ UNCHANGED <<lock, request, plan, page, got, result>>
    /\ UNCHANGED <<now, candles, watermark, made>>

\* get_candles for the next page; the provider may be unavailable.
Fetch(w) ==
    /\ pc[w] = "fetch"
    /\ \/ /\ \E p \in Page :
                /\ IsPage(p, plan[w])
                /\ page' = [page EXCEPT ![w] = p]
                /\ got' = [got EXCEPT ![w] = Answer(p.start, p.end)]
          /\ Goto(w, "store")
          /\ UNCHANGED <<lock, request, plan, result>>
       \/ End(w, "unavailable")
    /\ UNCHANGED <<now, candles, watermark, made>>

\* upsert_many commits the page's candles.
Store(w) ==
    /\ pc[w] = "store"
    /\ candles' = Upserted(got[w])
    /\ Goto(w, "mark")
    /\ UNCHANGED <<now, watermark, lock, request, plan, page, got, result, made>>

\* set_watermark commits the coverage of the page, after the page itself.
MarkForward(w) ==
    LET p == page[w]  work == plan[w] IN
    /\ pc[w] = "mark"
    /\ work.way = "forward"
    /\ watermark' = [earliest |-> work.kept, latest |-> AlignedLatest(p.end)]
    /\ IF p.end < work.upto
         THEN Work(w, "forward", p.end, work.upto, work.kept) /\ Goto(w, "fetch")
         ELSE Goto(w, "finish") /\ UNCHANGED plan
    /\ UNCHANGED <<now, candles, lock, request, page, got, result, made>>

\* Mutant: a call extends backward or forward, never both.
EitherWay(r, work) == "finish"

\* Once the backward extension is complete the request may still lie ahead of
\* the coverage.
AfterBackward(r, work) == IF r.end > work.kept THEN "reread" ELSE "finish"

MarkBackward(w) ==
    LET p == page[w]  work == plan[w] IN
    /\ pc[w] = "mark"
    /\ work.way = "backward"
    /\ watermark' = [earliest |-> p.start, latest |-> work.kept]
    /\ IF work.from < p.start
         THEN Work(w, "backward", work.from, p.start, work.kept) /\ Goto(w, "fetch")
         ELSE /\ UNCHANGED plan
              /\ Goto(w, AfterBackward(request[w], work))
    /\ UNCHANGED <<now, candles, lock, request, page, got, result, made>>

\* After a backward extension the forward one starts from the old latest, with
\* the earliest bound read back.
Reread(w) ==
    /\ pc[w] = "reread"
    /\ Work(w, "forward", plan[w].kept, request[w].end, watermark.earliest)
    /\ Goto(w, "fetch")
    /\ UNCHANGED <<now, candles, watermark, lock, request, page, got, result, made>>

\* The watermark is read a last time and returned, and the lock released.
Finish(w) ==
    /\ pc[w] = "finish"
    /\ End(w, "done")
    /\ UNCHANGED <<now, candles, watermark, made>>

\* The process dies (or a database statement raises) between two awaits; its
\* lock connection closes.
Crash(w) ==
    /\ pc[w] # "idle"
    /\ End(w, "crashed")
    /\ UNCHANGED <<now, candles, watermark, made>>

\* IngestCandles: fetch, then upsert, neither lock nor watermark.
IngestFetch(w) ==
    /\ pc[w] = "ingest"
    /\ got' = [got EXCEPT ![w] = Answer(request[w].start, request[w].end)]
    /\ Goto(w, "upsert")
    /\ UNCHANGED <<now, candles, watermark, lock, request, plan, page, result, made>>

IngestStore(w) ==
    /\ pc[w] = "upsert"
    /\ candles' = Upserted(got[w])
    /\ End(w, "done")
    /\ UNCHANGED <<now, watermark, made>>

Step(w) == \/ Acquire(w) \/ ReadWatermark(w) \/ Fetch(w) \/ Store(w)
           \/ MarkForward(w) \/ MarkBackward(w) \/ Reread(w) \/ Finish(w)
           \/ IngestFetch(w) \/ IngestStore(w)

Next ==
    \/ Tick
    \/ \E w \in Workers, s, e \in Instants : Call(w, s, e, "acquire")
    \/ \E w \in Ingesters, s, e \in Instants : Call(w, s, e, "ingest")
    \/ \E w \in Calls : Step(w) \/ Crash(w)

Spec == Init /\ [][Next]_vars

-----------------------------------------------------------------------------
(* Properties.                                                             *)

\* Every variable keeps its type.
TypeOK ==
    /\ now \in Instants
    /\ candles \in Candles
    /\ watermark \in Mark \cup {NoMark}
    /\ lock \in Workers \cup {Nobody}
    /\ pc \in [Calls -> Steps]
    /\ request \in [Calls -> Span]
    /\ plan \in [Calls -> Plan]
    /\ page \in [Calls -> Page]
    /\ got \in [Calls -> Candles]
    /\ result \in [Calls -> {"none", "done", "disjoint", "unavailable", "crashed"}]
    /\ made \in 0 .. MaxCalls

Locked == {"read", "fetch", "store", "mark", "reread", "finish"}

\* Exactly the call that holds the advisory lock is past acquiring it.
LockHeldThroughout ==
    \A w \in Calls : pc[w] \in Locked <=> lock = w

Covered == IF watermark = NoMark THEN {}
           ELSE CandlesIn(watermark.earliest, watermark.latest)

\* The watermark never claims a candle that is not stored, whatever crashed,
\* failed or ran concurrently, with or without IngestCandles alongside.
CoverageIsStored == \A b \in Covered \cap Traded : candles[b] # "absent"

\* No IngestCandles call has been made.
OnlyBackfills == \A g \in Ingesters : pc[g] = "idle" /\ result[g] = "none"

\* When only backfills write, what the watermark claims is finished candles:
\* the one still forming at the requested end is stored but not claimed.
CoverageIsFinal ==
    OnlyBackfills => \A b \in Covered \cap Traded : candles[b] = "final"

\* A call about to return covers what it was asked for.
DoneCoversRequest ==
    \A w \in Workers : pc[w] = "finish" =>
       /\ watermark # NoMark
       /\ watermark.earliest <= Floor(request[w].start)
       /\ watermark.latest >= Floor(request[w].end)

\* A call never fetches again what an earlier page, call or crashed run has
\* already covered.
NothingRefetched ==
    \A w \in Workers : pc[w] = "store" =>
       CandlesIn(page[w].start, page[w].end) \cap Covered = {}

\* Coverage is never lost: no call replaces another's progress.
WatermarkOnlyGrows ==
    [][watermark # NoMark =>
          /\ watermark'.earliest <= watermark.earliest
          /\ watermark.latest <= watermark'.latest]_watermark

\* When only backfills write, a finished candle never becomes a forming one
\* again.
FinalStaysFinal ==
    [][OnlyBackfills =>
          \A b \in Boundaries : candles[b] = "final" => candles'[b] = "final"]_candles
=============================================================================

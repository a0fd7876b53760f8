----------------------------- MODULE CandleWalk -----------------------------
(***************************************************************************)
(* The boundaries of day-aligned candles (17:00 New York, wall-clock long) *)
(* around a daylight-saving transition, and the two loops that walk them   *)
(* candle by candle: split_into_pages and find_gaps.                       *)
(*                                                                         *)
(* Instants are hours of real time, 0 being midnight in New York on the    *)
(* day of the transition, before which the offset is the old one.          *)
(***************************************************************************)
EXTENDS Integers, FiniteSets, Sequences

CONSTANTS Cases,     \* granularities, by their hours, and what the transition
                     \* met adds to the wall clock: 1 in spring, -1 in fall
          RangeStarts,    \* range starts
          RangeEnds,      \* range ends
          MaxPage    \* bound on max_candles_per_page

\* The hours of H1 and of the granularities aligned to the trading day.
Granularities == {1, 2, 3, 4, 6, 8, 12, 24}

ASSUME WalkAssumption ==
    /\ Cases \subseteq Granularities \X {-1, 0, 1}
    /\ RangeStarts \subseteq Int /\ RangeEnds \subseteq Int
    /\ MaxPage \in Nat \ {0}

VARIABLES hours, shift,   \* the granularity and the transition
          start, end,     \* the range asked for
          perPage,        \* max_candles_per_page
          pages, cursor,  \* split_into_pages: its answer so far and its loop
          expected, next  \* find_gaps: likewise

walkVars == <<hours, shift, start, end, perPage, pages, cursor, expected, next>>

-----------------------------------------------------------------------------
DailyAlignment == 17
TransitionHour == 2

\* astimezone(New York), and back: a wall time that the transition skips is
\* read with the old offset, one that it repeats as its first occurrence.
ToWall(t) == IF t < TransitionHour THEN t ELSE t + shift
FromWall(w) ==
    IF w < TransitionHour \/ w < TransitionHour + shift THEN w ELSE w - shift

\* The wall time of the daily alignment a wall time comes after.
DayStart(w) == DailyAlignment + 24 * ((w - DailyAlignment) \div 24)

\* candle_start_boundary: the bucket of the wall-clock day an instant is in; an
\* hourly candle is of real time.
StartOf(t, h) ==
    LET w == ToWall(t)
        d == DayStart(w)
    IN  IF h = 1 THEN t ELSE FromWall(d + h * ((w - d) \div h))

\* candle_end_time: the duration is added to the wall clock.
EndOf(s, h) == IF h = 1 THEN s + 1 ELSE FromWall(ToWall(s) + h)

StartBoundary(t) == StartOf(t, hours)

\* Mutant: a candle lasts its nominal real time.
NominalEnd(s) == s + hours

EndTime(s) == EndOf(s, hours)

\* _advance: n candles on.
Advance(from, n) ==
    LET after[k \in 0 .. n] == IF k = 0 THEN from ELSE EndTime(after[k - 1])
    IN  after[n]

-----------------------------------------------------------------------------
WalkInit ==
    /\ \E c \in Cases : hours = c[1] /\ shift = c[2]
    /\ start \in RangeStarts
    /\ end \in RangeEnds
    /\ start < end
    /\ perPage \in 1 .. MaxPage
    /\ pages = <<>>
    /\ cursor = StartBoundary(start)
    /\ expected = {}
    /\ next = StartBoundary(start)

\* The loop of split_into_pages: a full page, cut at the end of the range.
NextPage ==
    LET full == Advance(cursor, perPage)
        until == IF full > end THEN end ELSE full
    IN /\ cursor < end
       /\ pages' = Append(pages, [start |-> cursor, end |-> until])
       /\ cursor' = until
       /\ UNCHANGED <<hours, shift, start, end, perPage, expected, next>>

\* The loop of find_gaps.
NextExpected ==
    /\ cursor >= end    \* after the pages: the loops do not interact
    /\ next < end
    /\ expected' = expected \cup {next}
    /\ next' = EndTime(next)
    /\ UNCHANGED <<hours, shift, start, end, perPage, pages, cursor>>

WalkNext == NextPage \/ NextExpected

\* Both loops are done.
Walked == next >= end

-----------------------------------------------------------------------------
(* Properties.                                                             *)

\* The candle starts of the range, by the definition of the boundary alone.
Grid == {t \in StartBoundary(start) .. end - 1 : StartBoundary(t) = t}

\* The bounds a backfill records for these pages: a page's start when
\* extending backward, the floor of its end when extending forward.
RecordedBounds == {pages[i].start : i \in 1 .. Len(pages)}
                  \cup {StartBoundary(pages[i].end) : i \in 1 .. Len(pages)}

\* Every bound the watermark can record is the start of a candle, however many
\* candles the walk advanced over the transition to reach it.
BoundsAreBoundaries == \A b \in RecordedBounds : StartBoundary(b) = b

\* Every page but the last holds exactly the candles allowed, the last no more
\* than those: no request exceeds the provider's cap, across a transition too.
PagesHoldTheirCandles ==
    \A i \in 1 .. Len(pages) :
       LET held == Cardinality({t \in Grid : pages[i].start <= t /\ t < pages[i].end})
       IN held <= perPage /\ (i < Len(pages) => held = perPage)

\* The walk stays on the grid, and a finished gap check expects exactly the
\* candles that exist: it invents no gap and overlooks none.
ExpectsTheGrid == BoundsAreBoundaries /\ (Walked => expected = Grid)
=============================================================================

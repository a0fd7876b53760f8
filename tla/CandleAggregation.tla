------------------------- MODULE CandleAggregation -------------------------
(***************************************************************************)
(* AggregateCandles: coarser candles from the ones stored, of the buckets  *)
(* that are complete.  The dataset is the range CandleWalk has checked.    *)
(***************************************************************************)
EXTENDS CandleWalk

CONSTANTS
    Sources,   \* granularities to aggregate from, by their hours
    Origin     \* bound: ranges that start here are aggregated

ASSUME AggregationAssumption == Sources \subseteq 1 .. 24 /\ Origin \in RangeStarts

VARIABLES source,      \* the granularity aggregated from, 0 before
          stored,      \* the starts of its candles in the range
          aggregated   \* the starts of the candles built

aggregationVars == <<source, stored, aggregated>>

AggregationInit == source = 0 /\ stored = {} /\ aggregated = {}

\* _expected_source_starts: one source candle after the other, and whether the
\* last of them ends with the bucket.
ExpectedSources(bucket, h) ==
    LET close == EndTime(bucket)
        walk[n \in 0 .. hours + 1] == IF n = 0 THEN bucket ELSE EndOf(walk[n - 1], h)
        reached == {walk[n] : n \in 0 .. hours + 1}
    IN [starts |-> {t \in reached : t < close}, tiles |-> close \in reached]

Members(candles, bucket) == {t \in candles : StartBoundary(t) = bucket}

\* Mutant: a bucket is complete if it has as many candles as it should.
CountedComplete(candles, bucket, h) == Cardinality(Members(candles, bucket)) = hours \div h

\* A bucket whose members are exactly the candles that tile it.
Complete(candles, bucket, h) ==
    LET e == ExpectedSources(bucket, h) IN e.tiles /\ Members(candles, bucket) = e.starts

\* aggregate_candles
Aggregated(candles, h) ==
    {b \in {StartBoundary(t) : t \in candles} : Complete(candles, b, h)}

\* The source candles of the range, by the definition of the boundary.
SourceGrid(h) == {t \in start .. end - 1 : StartOf(t, h) = t}

\* AggregateCandles.__call__: one source candle at most was never stored.
Aggregate(h) ==
    /\ Walked /\ source = 0 /\ perPage = 1 /\ start = Origin
    /\ h < hours /\ hours % h = 0
    /\ \E missing \in {{}} \cup {{t} : t \in SourceGrid(h)} :
          stored' = SourceGrid(h) \ missing
    /\ source' = h
    /\ aggregated' = Aggregated(stored', h)
    /\ UNCHANGED walkVars

-----------------------------------------------------------------------------
(* Properties.                                                             *)

\* The boundary after a boundary, by the definition of the boundary alone.
Following(b) == CHOOSE t \in b + 1 .. b + hours + 1 :
                   StartBoundary(t) = t /\ \A u \in b + 1 .. t - 1 : StartBoundary(u) # u

\* A candle built by aggregation speaks of all of its time and of no other: every
\* hour of its bucket, of which a transition adds or removes one, is in a stored
\* source candle that lies in the bucket.
AggregatesAreWhole ==
    \A b \in aggregated : \A t \in b .. Following(b) - 1 :
       \E s \in stored : b <= s /\ s <= t /\ t < EndOf(s, source) /\ EndOf(s, source) <= Following(b)
=============================================================================

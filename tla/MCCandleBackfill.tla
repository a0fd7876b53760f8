-------------------------- MODULE MCCandleBackfill --------------------------
(* A small instance of CandleBackfill for TLC: candles of unequal length,  *)
(* one of which the market did not trade in.                               *)
EXTENDS CandleBackfill, TLC

MCBoundaries == {0, 1, 2, 4, 5}
MCTraded == {0, 2, 4}

Symmetry == Permutations(Workers)
=============================================================================

---------------------------- MODULE MCCandleWalk ----------------------------
(* Instances of CandleWalk for TLC: two days around a transition, and runs  *)
(* of the strategies over it.                                              *)
EXTENDS Backtest, TLC

H3InSpring == {<<3, 1>>}

\* H2, H3, H4, H6, H8, H12 and D over each kind of day, but for H3 in spring.
OtherCases == ({2, 3, 4, 6, 8, 12, 24} \X {-1, 0, 1}) \ H3InSpring

BeforeTransition == -12 .. 1
AfterTransition == 3 .. 30

Parametrized ==
    [fast |-> 1, slow |-> 2, coarseFast |-> 1, coarseSlow |-> 2, regime |-> 2,
     trending |-> 50 * Scale, short |-> 1, long |-> 2, expansion |-> 120, lookback |-> 2,
     threshold |-> 20, period |-> 3, entry |-> 120]

Priced(o, h, l, c) == [open |-> o * Scale, high |-> h * Scale, low |-> l * Scale, close |-> c * Scale]

MCBars == {Priced(2, 3, 1, 1), Priced(2, 2, 2, 2), Priced(3, 4, 2, 4)}

Coarse(c, f) == [close |-> c * Scale, final |-> f]
MCCoarseData ==
    {<<Coarse(2, TRUE), Coarse(2, TRUE), Coarse(2, TRUE), Coarse(a, f), Coarse(b, TRUE), Coarse(1, TRUE)>> :
        a \in {1, 3}, b \in {1, 4}, f \in BOOLEAN}

MCStrategiesFor ==
    [s \in {-1, 0, 1} |-> {"multi_timeframe_trend"} \cup
       IF s # 0 THEN {}
       ELSE Incremental \cup {"mean_reversion", "time_series_momentum", "previous_bar_direction",
                              "always_long", "always_short", "no_trade"}]

MCOrigin == -12
=============================================================================

----------------------------- MODULE Strategies -----------------------------
(***************************************************************************)
(* The trading strategies, in their two forms: evaluate, from all candles  *)
(* so far, and on_candle, from what is remembered of them.  A signal is    *)
(* the target position of a hypothesis, in a set that is empty without one.*)
(***************************************************************************)
EXTENDS CandleWalk, Indicators

CONSTANT Parameters   \* periods in candles, thresholds as Decimals

P == Parameters

ASSUME StrategyAssumption ==
    /\ {P.fast, P.slow, P.coarseFast, P.coarseSlow, P.regime, P.short, P.long,
        P.lookback, P.period} \subseteq Nat \ {0}
    /\ P.fast < P.slow /\ P.coarseFast < P.coarseSlow /\ P.short < P.long /\ P.period >= 2
    /\ P.trending \in 0 .. 100 * Scale /\ P.expansion > Scale
    /\ P.threshold >= 0 /\ P.entry > 0

Closes(bars) == [i \in 1 .. Len(bars) |-> bars[i].close]

-----------------------------------------------------------------------------
(* evaluate                                                                *)

Crossing(before, now) ==
    IF before <= 0 /\ now > 0 THEN {"LONG"}
    ELSE IF before >= 0 /\ now < 0 THEN {"SHORT"} ELSE {}

Spread(closes, fast, slow) == Ema(closes, fast) - Ema(closes, slow)

EmaCrossover(bars) ==
    IF Len(bars) < P.slow + 1 THEN {}
    ELSE Crossing(Spread(Closes(Front(bars)), P.fast, P.slow),
                  Spread(Closes(bars), P.fast, P.slow))

\* classify_regime
Trending(bars) == Len(bars) >= 2 * P.regime /\ Adx(bars, P.regime) >= P.trending

GatedCrossover(bars) == {IF Trending(bars) THEN s ELSE "FLAT" : s \in EmaCrossover(bars)}

\* _h4_bias, of candles of which the slow average is one value ahead.
Bias(coarse) ==
    LET gap == Spread(Closes(coarse), P.coarseFast, P.coarseSlow)
    IN IF Len(coarse) < P.coarseSlow + 1 \/ gap = 0 THEN "NONE"
       ELSE IF gap > 0 THEN "LONG" ELSE "SHORT"

\* Mutant: a coarse candle takes four hours.
OverInFourHours(c, t) == c.start + 4 <= t

OverBy(c, t) == EndTime(c.start) <= t

\* The coarse candles that a bar opening at t may see.
Visible(coarse, t) == Kept(coarse, {c \in Range(coarse) : c.final /\ OverBy(c, t)})

MultiTimeframe(bars, coarse, t) ==
    {IF Bias(Visible(coarse, t)) = s THEN s ELSE "FLAT" : s \in EmaCrossover(bars)}

Beyond(price, highs, lows) ==
    IF price > Max(highs) THEN {"LONG"} ELSE IF price < Min(lows) THEN {"SHORT"} ELSE {}

CloseChannel(bars) ==
    IF Len(bars) < P.lookback + 1 THEN {}
    ELSE LET window == Range(Recent(Closes(Front(bars)), P.lookback))
         IN Beyond(Last(bars).close, window, window)

Highs(bars) == {b.high : b \in Range(bars)}
Lows(bars)  == {b.low : b \in Range(bars)}
Warm == Max({P.long, P.lookback}) + 1
Expanding(ratio) == \E r \in ratio : r >= P.expansion

VolatilityExpansion(bars) ==
    LET RatioOf(b) == Ratio(Atr(b, P.short), Atr(b, P.long))
        window == Recent(Front(bars), P.lookback)
    IN IF Len(bars) < Warm THEN {}
       ELSE IF Expanding(RatioOf(bars)) THEN Beyond(Last(bars).close, Highs(window), Lows(window))
       ELSE IF Expanding(RatioOf(Front(bars))) THEN {"FLAT"} ELSE {}

\* _z_score: how far the last close is from the mean, and the variance.
Score(window) ==
    LET mean == Mean(window)
    IN [off |-> Last(window) - mean,
        variance |-> Mean([i \in 1 .. Len(window) |-> (window[i] - mean) * (window[i] - mean)])]

MeanReversion(bars) ==
    LET now == Score(Recent(Closes(bars), P.period))
        before == Score(Recent(Closes(Front(bars)), P.period))
        far == now.off * now.off >= Times(Times(P.entry, P.entry), now.variance)
    IN IF Len(bars) < P.period + 1 \/ now.variance = 0 THEN {}
       ELSE IF far /\ now.off < 0 THEN {"LONG"}
       ELSE IF far /\ now.off > 0 THEN {"SHORT"}
       ELSE IF before.variance # 0 /\ before.off * now.off <= 0 THEN {"FLAT"} ELSE {}

Momentum(bars) ==
    IF Len(bars) < P.lookback + 1 THEN {}
    ELSE LET return == Divided(Last(bars).close, bars[Len(bars) - P.lookback].close) - Scale
         IN IF return > P.threshold THEN {"LONG"}
            ELSE IF return < -P.threshold THEN {"SHORT"} ELSE {}

PreviousBarDirection(bars) ==
    IF Len(bars) < 2 THEN {}
    ELSE LET closes == Closes(bars)
         IN IF Last(closes) = Last(Front(closes)) THEN {}
            ELSE {IF Last(closes) > Last(Front(closes)) THEN "LONG" ELSE "SHORT"}

Evaluate(strategy, bars, coarse, t) ==
    CASE strategy = "ema_crossover" -> EmaCrossover(bars)
      [] strategy = "ema_crossover_trend_regime_gated" -> GatedCrossover(bars)
      [] strategy = "multi_timeframe_trend" -> MultiTimeframe(bars, coarse, t)
      [] strategy = "close_channel_breakout" -> CloseChannel(bars)
      [] strategy = "volatility_expansion" -> VolatilityExpansion(bars)
      [] strategy = "mean_reversion" -> MeanReversion(bars)
      [] strategy = "time_series_momentum" -> Momentum(bars)
      [] strategy = "previous_bar_direction" -> PreviousBarDirection(bars)
      [] strategy = "always_long" -> {"LONG"}
      [] strategy = "always_short" -> {"SHORT"}
      [] strategy = "no_trade" -> {}

-----------------------------------------------------------------------------
(* on_candle                                                               *)

\* reset
Fresh ==
    [fast |-> NewEma, slow |-> NewEma, gap |-> {}, adx |-> NewAdx,
     coarseFast |-> NewEma, coarseSlow |-> NewEma, cursor |-> 0, consumed |-> 0,
     short |-> NewAtr, long |-> NewAtr, ratio |-> {}, window |-> <<>>, seen |-> 0]

Says(m, signal) == [memory |-> m, signal |-> signal]

EmaCrossoverOn(m, bar) ==
    LET fast == EmaOn(m.fast, P.fast, bar.close)
        slow == EmaOn(m.slow, P.slow, bar.close)
        n == [m EXCEPT !.fast = fast, !.slow = slow]
        gap == Some(fast.value) - Some(slow.value)
    IN IF fast.value = {} \/ slow.value = {} THEN Says(n, {})
       ELSE Says([n EXCEPT !.gap = {gap}], UNION {Crossing(g, gap) : g \in m.gap})

\* Mutant: the regime is only looked at when there is something to gate.
GatedWhenCrossing(m, bar) ==
    LET r == EmaCrossoverOn(m, bar)
        adx == IF r.signal = {} THEN m.adx ELSE AdxOn(m.adx, P.regime, bar)
        trending == \E x \in adx.adx : x >= P.trending
    IN Says([r.memory EXCEPT !.adx = adx], {IF trending THEN s ELSE "FLAT" : s \in r.signal})

GatedCrossoverOn(m, bar) ==
    LET r == EmaCrossoverOn(m, bar)
        adx == AdxOn(m.adx, P.regime, bar)
        trending == \E x \in adx.adx : x >= P.trending
    IN Says([r.memory EXCEPT !.adx = adx], {IF trending THEN s ELSE "FLAT" : s \in r.signal})

\* _advance_h4: the cursor passes the candles visible by now, and by the ones
\* never finished.
AdvanceCoarse(m, coarse, t) ==
    LET ahead == {n \in m.cursor + 1 .. Len(coarse) :
                     coarse[n].final /\ ~OverBy(coarse[n], t)}
        until == IF ahead = {} THEN Len(coarse) ELSE Min(ahead) - 1
        closes == Closes(Kept(SubSeq(coarse, m.cursor + 1, until), {c \in Range(coarse) : c.final}))
        Fed(e, p) == Folded([z \in EmaState \X Int |-> EmaOn(z[1], p, z[2])], e, closes)
    IN [m EXCEPT !.coarseFast = Fed(@, P.coarseFast), !.coarseSlow = Fed(@, P.coarseSlow),
                 !.consumed = @ + Len(closes), !.cursor = until]

\* _current_h4_bias
BiasOf(m) ==
    LET gap == Some(m.coarseFast.value) - Some(m.coarseSlow.value)
    IN IF m.consumed < P.coarseSlow + 1 \/ gap = 0 THEN "NONE"
       ELSE IF gap > 0 THEN "LONG" ELSE "SHORT"

MultiTimeframeOn(m, bar, coarse, t) ==
    LET r == EmaCrossoverOn(m, bar)
        n == AdvanceCoarse(r.memory, coarse, t)
    IN Says(n, {IF BiasOf(n) = s THEN s ELSE "FLAT" : s \in r.signal})

\* A deque of bounded length.
Slide(window, x) == Recent(Append(window, x), Min({P.lookback, Len(window) + 1}))

CloseChannelOn(m, bar) ==
    LET window == Range(m.window)
    IN Says([m EXCEPT !.window = Slide(@, bar.close), !.seen = @ + 1],
              IF m.seen + 1 < P.lookback + 1 THEN {} ELSE Beyond(bar.close, window, window))

VolatilityExpansionOn(m, bar) ==
    LET short == AtrOn(m.short, P.short, bar)
        long == AtrOn(m.long, P.long, bar)
        ratio == Ratio(short.atr, long.atr)
    IN Says([m EXCEPT !.short = short, !.long = long, !.ratio = ratio,
                        !.window = Slide(@, bar), !.seen = @ + 1],
              IF m.seen + 1 < Warm THEN {}
              ELSE IF Expanding(ratio) THEN Beyond(bar.close, Highs(m.window), Lows(m.window))
              ELSE IF Expanding(m.ratio) THEN {"FLAT"} ELSE {})

\* The strategies with an incremental form; the others are only evaluated.
Incremental == {"ema_crossover", "ema_crossover_trend_regime_gated", "multi_timeframe_trend",
                "close_channel_breakout", "volatility_expansion"}

\* strategy_key, of every strategy.
StrategyKeys ==
    Incremental \cup {"mean_reversion", "time_series_momentum", "previous_bar_direction",
                      "always_long", "always_short", "no_trade"}

OnCandle(strategy, m, bar, coarse, t) ==
    CASE strategy = "ema_crossover" -> EmaCrossoverOn(m, bar)
      [] strategy = "ema_crossover_trend_regime_gated" -> GatedCrossoverOn(m, bar)
      [] strategy = "multi_timeframe_trend" -> MultiTimeframeOn(m, bar, coarse, t)
      [] strategy = "close_channel_breakout" -> CloseChannelOn(m, bar)
      [] strategy = "volatility_expansion" -> VolatilityExpansionOn(m, bar)
=============================================================================

------------------------------ MODULE Backtest ------------------------------
(***************************************************************************)
(* A strategy run over a dataset whose gaps have been checked, candle by   *)
(* candle, and the trades its hypotheses make.                             *)
(*                                                                         *)
(* The driving candles are hourly, the first opening at FirstBar.  Those    *)
(* before the window only warm the strategy up.                             *)
(***************************************************************************)
EXTENDS CandleAggregation, Strategies

CONSTANTS
    Bars,           \* what a driving candle may be
    CoarseData,     \* closes of the H4 candles of the range, and if final
    StrategiesFor,  \* the strategies run, per transition
    Until,          \* bound: the end of the range, from Origin, they are run on
    FirstBar,       \* an hour
    MaxBars,        \* bound on the candles of a run
    Warmups,        \* numbers of candles before the window
    HalfSpread      \* between the middle of a price and its sides

ASSUME BacktestAssumption ==
    /\ Bars \subseteq Bar /\ HalfSpread \in Nat /\ FirstBar \in Int
    /\ StrategiesFor \in [{-1, 0, 1} -> SUBSET StrategyKeys]
    /\ CoarseData \subseteq Seq([close : Nat, final : BOOLEAN])
    /\ MaxBars \in Nat /\ Warmups \subseteq 0 .. MaxBars - 1

VARIABLES
    strategy,    \* "none" before the run
    coarse,      \* the H4 candles it is given
    warmup,
    series,      \* the driving candles so far
    memory,      \* what the incremental strategy keeps
    signal,      \* what it said of the last candle
    hypotheses   \* all it has said: the candle, and the target

replayVars == <<strategy, coarse, warmup, series, memory, signal, hypotheses>>
backtestVars == <<walkVars, aggregationVars, replayVars>>

BacktestInit ==
    /\ WalkInit /\ AggregationInit
    /\ strategy = "none" /\ coarse = <<>> /\ warmup = 0
    /\ series = <<>> /\ memory = Fresh /\ signal = {} /\ hypotheses = <<>>

\* The H4 candles of the dataset, as get_range orders them.
Nth(n) == CHOOSE b \in expected : Cardinality({c \in expected : c < b}) = n - 1
CoarseCandles(data) ==
    [n \in 1 .. Min({Cardinality(expected), Len(data)}) |->
        [start |-> Nth(n), close |-> data[n].close, final |-> data[n].final]]

\* The start of run_backtest_incremental, which resets the strategy.
Load(s) ==
    /\ Walked /\ source = 0 /\ strategy = "none"
    /\ hours = 4 /\ perPage = 1 /\ start = Origin /\ end = Until
    /\ strategy' = s
    /\ \E data \in (IF s = "multi_timeframe_trend" THEN CoarseData ELSE {<<>>}) :
          coarse' = CoarseCandles(data)
    /\ warmup' \in Warmups
    /\ memory' = Fresh
    /\ UNCHANGED <<walkVars, aggregationVars, series, signal, hypotheses>>

Opening(n) == FirstBar + n - 1

\* An iteration of run_backtest_incremental, or of run_backtest.
OnBar(bar) ==
    LET n == Len(series) + 1
        r == IF strategy \in Incremental
             THEN OnCandle(strategy, memory, bar, coarse, Opening(n))
             ELSE Says(memory, Evaluate(strategy, Append(series, bar), coarse, Opening(n)))
    IN /\ strategy # "none" /\ n <= MaxBars
       /\ series' = Append(series, bar)
       /\ memory' = r.memory
       /\ signal' = r.signal
       /\ hypotheses' = hypotheses \o SetToSeq({[at |-> n, target |-> s] : s \in r.signal})
       /\ UNCHANGED <<walkVars, aggregationVars, strategy, coarse, warmup>>

BacktestNext ==
    \/ WalkNext /\ UNCHANGED <<aggregationVars, replayVars>>
    \/ strategy = "none" /\ \E h \in Sources : Aggregate(h) /\ UNCHANGED replayVars
    \/ \E s \in StrategiesFor[shift] : Load(s)
    \/ \E b \in Bars : OnBar(b)

BacktestSpec == BacktestInit /\ [][BacktestNext]_backtestVars

-----------------------------------------------------------------------------
(* simulate_trades.                                                        *)

\* Price.entry_price and Price.exit_price: one buys at the ask.
Bought(price) == price + HalfSpread
Sold(price)   == price - HalfSpread
EntryPrice(side, price) == IF side = "LONG" THEN Bought(price) ELSE Sold(price)
ExitPrice(side, price)  == IF side = "LONG" THEN Sold(price) ELSE Bought(price)

\* TradeSide, TargetPosition; a hypothesis, an open position, and a finished trade.
Sides == {"LONG", "SHORT"}
Hypothesis == [at : Nat, target : Sides \cup {"FLAT"}]
Position == [side : Sides, at : Nat, price : Int]
Trade == [side : Sides, in : Nat, out : Nat, pnl : Int]
Account == [position : {S \in SUBSET Position : \A p, o \in S : p = o}, trades : Seq(Trade)]

Flat == {}
Opened(side, n) == {[side |-> side, at |-> n, price |-> EntryPrice(side, series[n].open)]}

\* _OpenPosition.close
Closed(position, n, price) ==
    LET out == ExitPrice(position.side, price)
    IN [side |-> position.side, in |-> position.at, out |-> n,
        pnl |-> IF position.side = "LONG" THEN out - position.price ELSE position.price - out]

\* Mutant: a trade is made in the candle that gave the signal.
InTheSignalsCandle(h) == h.at

\* The candle after it.
ExecutedIn(h) == h.at + 1

\* One hypothesis: hold, open, close, or close and reverse.
Execute(a, h) ==
    LET n == ExecutedIn(h)
        close == {Closed(p, n, series[n].open) : p \in a.position}
    IN IF n > Len(series) \/ \E p \in a.position : p.side = h.target THEN a
       ELSE [position |-> IF h.target = "FLAT" THEN Flat ELSE Opened(h.target, n),
             trades |-> a.trades \o SetToSeq(close)]

\* run_sealed_window_backtest
Sealed(h) == h.at > warmup

\* The trades of the window; what is open at its end is closed there.
Trades ==
    LET last == Len(series)
        a == Folded([z \in Account \X Hypothesis |-> Execute(z[1], z[2])],
                    [position |-> Flat, trades |-> <<>>],
                    Kept(hypotheses, {h \in Range(hypotheses) : Sealed(h)}))
    IN a.trades \o SetToSeq({Closed(p, last, series[last].close) : p \in a.position})

-----------------------------------------------------------------------------
(* Properties.                                                             *)

\* The incremental strategies say of every candle what the reference ones say
\* given all candles so far, although they keep only averages, windows and a
\* cursor, through the warm-up of every indicator and over coarse candles that
\* were never finished.
IncrementalIsReference ==
    series # <<>> =>
        signal = Evaluate(strategy, series, coarse, Opening(Len(series)))

\* The coarse candles over when a candle opens, by the definition of the boundary.
Past(t) == Kept(coarse, {c \in Range(coarse) : Following(c.start) <= t})

\* No signal depends on a coarse candle that was not over when the candle it is
\* given for opened, also if a transition made the coarse one longer; and it is
\* not for want of those that were.
SignalsUseThePast ==
    strategy = "multi_timeframe_trend" /\ series # <<>> =>
        LET t == Opening(Len(series)) IN signal = Evaluate(strategy, series, Past(t), t + 24)

\* The exposure of an account that follows the signals of the window, each from
\* the opening of the candle after it.
Exposure(n) ==
    LET given == {i \in 1 .. Len(hypotheses) : warmup < hypotheses[i].at /\ hypotheses[i].at < n}
        target == hypotheses[Max(given)].target
    IN IF given = {} \/ target = "FLAT" THEN 0 ELSE IF target = "LONG" THEN 1 ELSE -1

Flow(change, price) ==
    IF change > 0 THEN -change * Bought(price) ELSE -change * Sold(price)

\* The trades of a sealed window earn what that account earns which starts flat,
\* buys and sells at the sides of the next opening, and is closed at the end of
\* the window; they follow one another in it.
TradesAreTheAccount ==
    series # <<>> /\ warmup < Len(series) =>
        LET last == Len(series)
            flows == [n \in 1 .. last |-> Flow(Exposure(n) - Exposure(n - 1), series[n].open)]
        IN /\ Total([i \in 1 .. Len(Trades) |-> Trades[i].pnl])
                = Total(flows) + Flow(-Exposure(last), series[last].close)
           /\ \A i \in 1 .. Len(Trades) :
                 /\ warmup < Trades[i].in /\ Trades[i].in <= Trades[i].out
                 /\ i > 1 => Trades[i - 1].out <= Trades[i].in
=============================================================================

----------------------------- MODULE Indicators -----------------------------
(***************************************************************************)
(* The indicators of the strategies, each as the code has it twice: from a *)
(* whole series, and kept up to date candle by candle.                     *)
(*                                                                         *)
(* A Decimal is a multiple of 1/Scale, and division rounds, so the order   *)
(* of operations matters as it does in the code.  What may be None is a    *)
(* set of at most one value.  A bar is the middle of bid and ask.          *)
(***************************************************************************)
EXTENDS Integers, Sequences, SequencesExt, FiniteSetsExt

Scale == 100

Times(a, b) == (a * b) \div Scale
Divided(a, b)  == (a * Scale) \div b

\* Ohlc, and the bar of a candle.
Bar == {b \in [open : Nat \ {0}, high : Nat, low : Nat \ {0}, close : Nat \ {0}] :
           b.low <= Min({b.open, b.close}) /\ Max({b.open, b.close}) <= b.high}

\* F applied to the elements from the left: FoldLeft, as a recursive function, of
\* which theorems can speak; likewise SelectSeq, of the elements in a set.
Folded(F, base, s) ==
    LET f[n \in 0 .. Len(s)] == IF n = 0 THEN base ELSE F[<<f[n - 1], s[n]>>]
    IN  f[Len(s)]
Kept(s, S) ==
    LET f[n \in 0 .. Len(s)] == IF n = 0 THEN <<>>
                                ELSE IF s[n] \in S THEN Append(f[n - 1], s[n]) ELSE f[n - 1]
    IN  f[Len(s)]

Total(values) == Folded([z \in Int \X Int |-> z[1] + z[2]], 0, values)
Mean(values)  == Total(values) \div Len(values)
Abs(x) == IF x < 0 THEN -x ELSE x
Some(values)  == CHOOSE v \in values : TRUE
Recent(values, n) == SubSeq(values, Len(values) - n + 1, Len(values))

-----------------------------------------------------------------------------
(* The exponential average, seeded by a mean.                              *)

Smoothed(v, close, p) ==
    LET k == (2 * Scale) \div (p + 1) IN Times(close, k) + Times(v, Scale - k)

\* _sma_seeded_ema, its last value.
Ema(closes, p) ==
    Folded([z \in Int \X Int |-> Smoothed(z[1], z[2], p)], Mean(SubSeq(closes, 1, p)),
           SubSeq(closes, p + 1, Len(closes)))

EmaState == [buffer : Seq(Int), value : SUBSET Int]
NewEma == [buffer |-> <<>>, value |-> {}]

\* IncrementalSmaSeededEma.update
EmaOn(m, p, close) ==
    IF m.value # {} THEN [m EXCEPT !.value = {Smoothed(Some(@), close, p)}]
    ELSE LET buffer == Append(m.buffer, close)
         IN IF Len(buffer) < p THEN [m EXCEPT !.buffer = buffer]
            ELSE [buffer |-> <<>>, value |-> {Mean(buffer)}]

-----------------------------------------------------------------------------
(* The average true range.                                                 *)

TrueRange(bar, before) ==
    Max({bar.high - bar.low, Abs(bar.high - before), Abs(bar.low - before)})

\* _true_range_series
Ranges(bars) == [i \in 1..Len(bars) - 1 |-> TrueRange(bars[i + 1], bars[i].close)]

Wilder(v, x, p) == ((p - 1) * v + x) \div p

\* Wilder's average: seeded by a mean, too.
WilderAverage(xs, p) ==
    Folded([z \in Int \X Int |-> Wilder(z[1], z[2], p)], Mean(SubSeq(xs, 1, p)),
           SubSeq(xs, p + 1, Len(xs)))

\* _atr
Atr(bars, p) == IF Len(bars) < p + 1 THEN {} ELSE {WilderAverage(Ranges(bars), p)}

NewAtr == [last |-> {}, count |-> 0, sum |-> 0, atr |-> {}]

\* IncrementalWilderAtr.update
AtrOn(m, p, bar) ==
    IF m.last = {} THEN [m EXCEPT !.last = {bar.close}]
    ELSE LET x == TrueRange(bar, Some(m.last))
             n == [m EXCEPT !.last = {bar.close}, !.count = @ + 1]
         IN IF m.atr # {} THEN [n EXCEPT !.atr = {Wilder(Some(@), x, p)}]
            ELSE [n EXCEPT !.sum = @ + x,
                           !.atr = IF n.count < p THEN {} ELSE {(n.sum + x) \div p}]

\* _ratio
Ratio(short, long) ==
    IF short = {} \/ long = {} \/ long = {0} THEN {} ELSE {Divided(Some(short), Some(long))}

-----------------------------------------------------------------------------
(* The average directional index.                                          *)

Move(bar, before) ==
    LET up == bar.high - before.high
        down == before.low - bar.low
    IN [range |-> TrueRange(bar, before.close),
        plus |-> IF up > down /\ up > 0 THEN up ELSE 0,
        minus |-> IF down > up /\ down > 0 THEN down ELSE 0]

NoMove == [range |-> 0, plus |-> 0, minus |-> 0]
Added(s, m) == [i \in DOMAIN s |-> s[i] + m[i]]
Decayed(s, m, p) == [i \in DOMAIN s |-> s[i] - s[i] \div p + m[i]]

\* _directional_index
Directional(s) ==
    LET plus == Divided(100 * s.plus, s.range)
        minus == Divided(100 * s.minus, s.range)
    IN IF s.range = 0 \/ plus + minus = 0 THEN 0
       ELSE Divided(100 * Abs(plus - minus), plus + minus)

Movement == [range : Nat, plus : Nat, minus : Nat]
Moves(bars) == [i \in 1..Len(bars) - 1 |-> Move(bars[i + 1], bars[i])]
Seed(moves, p) ==
    Folded([z \in Movement \X Movement |-> Added(z[1], z[2])], NoMove, SubSeq(moves, 1, p))

\* The smoothed sums after all moves, and the index of each.
Indexed(moves, p) ==
    LET seed == Seed(moves, p)
        On(a, m) == LET s == Decayed(a.s, m, p) IN [s |-> s, dx |-> Append(a.dx, Directional(s))]
    IN Folded([z \in [s : Movement, dx : Seq(Nat)] \X Movement |-> On(z[1], z[2])],
              [s |-> seed, dx |-> <<Directional(seed)>>], SubSeq(moves, p + 1, Len(moves)))

\* _compute_adx, of at least 2 * p bars.
Adx(bars, p) == WilderAverage(Indexed(Moves(bars), p).dx, p)

NewAdx == [last |-> {}, count |-> 0, seed |-> NoMove, smoothed |-> {},
           dxSum |-> 0, dxCount |-> 0, adx |-> {}]

\* The end of IncrementalAdx.update: the average of the indices.
IndexOn(m, p, s) ==
    LET dx == Directional(s)
        n == [m EXCEPT !.smoothed = {s}]
    IN IF m.adx # {} THEN [n EXCEPT !.adx = {Wilder(Some(@), dx, p)}]
       ELSE [n EXCEPT !.dxSum = @ + dx, !.dxCount = @ + 1,
                      !.adx = IF m.dxCount + 1 = p THEN {(m.dxSum + dx) \div p} ELSE {}]

\* IncrementalAdx.update
AdxOn(m, p, bar) ==
    IF m.last = {} THEN [m EXCEPT !.last = {bar}]
    ELSE LET move == Move(bar, Some(m.last))
             n == [m EXCEPT !.last = {bar}, !.count = @ + 1]
             seeded == [n EXCEPT !.seed = Added(@, move)]
         IN IF m.smoothed # {} THEN IndexOn(n, p, Decayed(Some(m.smoothed), move, p))
            ELSE IF seeded.count < p THEN seeded
            ELSE IndexOn(seeded, p, seeded.seed)
=============================================================================

-------------------------- MODULE PolicyRatesProofs --------------------------
(***************************************************************************)
(* That a differential looks at nothing that was not public, passes over   *)
(* nothing unexamined but what it says, and that neither reports nor newer *)
(* timing evidence are ever lost: proved for any eras, publications,       *)
(* instants, versions of the timing registry and number of scripts.        *)
(*                                                                         *)
(* The argument: a row's timing is either the date it is stored under or   *)
(* what some version of the registry resolved it to, and the readiness     *)
(* check admits the second kind only.                                      *)
(***************************************************************************)
EXTENDS PolicyRates, FiniteSetTheorems, WellFoundedInduction, TLAPS

(* What is stored.                                                         *)

\* The timing of a row is what version v resolved it to.
Classified(c, r, v) ==
    \E x \in Registries[v][c][r.period] : SameTiming(r, x) /\ r.verified = x.exact

RowOK(c, r) ==
    /\ r \in Rows /\ ~(r.verified /\ r.bound)
    /\ Safe(r) => \E v \in Versions : Classified(c, r, v)
    /\ ~Safe(r) => r.released = r.period /\ r.effective = {}

HistoryOK(c, rows) == IsFiniteSet(rows) /\ \A r \in rows : RowOK(c, r)

\* A history has one row of a period, and its warrant says which version made its
\* timing what it is.
Warranted(c) ==
    /\ \A r, x \in history[c] : r.period = x.period => r = x
    /\ \A p \in Periods :
          /\ warrant[c][p] # 0 => \E r \in history[c] : r.period = p /\ Safe(r)
          /\ warrant[c][p] <= deployed
    /\ \A r \in history[c] : Safe(r) => /\ warrant[c][r.period] \in Versions
                                        /\ Classified(c, r, warrant[c][r.period])

Histories ==
    /\ history \in [Currencies -> SUBSET Rows]
    /\ warrant \in [Currencies -> [Periods -> {0} \cup Versions]]
    /\ deployed \in Versions
    /\ \A c \in Currencies : HistoryOK(c, history[c]) /\ Warranted(c)

(* What runs know.                                                         *)

Change == [period : Periods, value : Int]

\* A resolution of the run's version for a row, still to be written.
Pending(j, u) ==
    /\ u.period \in Periods /\ u.read.revision = 0
    /\ u.resolution \in Registries[j.version][j.currency][u.period]

\* A correction was called for by a row read when no newer version had written.
Corrects(j, u) ==
    /\ u.resolution.exact /\ ~SameTiming(u.read, u.resolution)
    /\ \E v \in Versions : v <= j.version /\
          \E x \in Registries[v][j.currency][u.period] : x.exact /\ SameTiming(u.read, x)

\* A run that awaits step s, with what it has still to write and has read, when
\* latest is the newest version a run has been started from.
RunOK(latest, s, j, writes, read) ==
    /\ s \in {"fetch", "add"} => /\ j.currency \in Currencies /\ j.as_of \in FetchedTo
                                 /\ j.era \in 1..Len(Eras[j.currency])
    /\ s = "add" => writes \subseteq Change
    /\ s \in {"replace", "correct"} => /\ j.currency \in Currencies
                                      /\ j.version \in Versions /\ j.version <= latest
                                      /\ \A u \in writes : Pending(j, u)
    /\ s = "correct" => \A u \in writes : Corrects(j, u)
    /\ s \in {"base", "quote"} => /\ j.base \in Currencies /\ j.quote \in Currencies
                                 /\ j.as_of \in Int /\ j.semantics \in {"ANNOUNCED", "EFFECTIVE"}
    /\ s = "quote" => HistoryOK(j.base, read)

JobOK(w) == RunOK(deployed, pc[w], job[w], todo[w], held[w])

Jobs == \A w \in Workers : JobOK(w)

\* A feature was computed from two histories that were ready for it.
AnswerOK ==
    Certified =>
       /\ answer.asked.as_of \in Int /\ answer.asked.semantics \in {"ANNOUNCED", "EFFECTIVE"}
       /\ \A leg \in Legs :
             /\ leg.currency \in Currencies /\ HistoryOK(leg.currency, leg.rows)
             /\ Ready(leg.rows, Window(answer.asked.semantics, leg.rows, answer.asked.as_of))

Control ==
    /\ pc \in [Workers -> Steps] /\ outcome \in [Workers -> Ends] /\ made \in 0..MaxRuns
    /\ DOMAIN job = Workers /\ DOMAIN todo = Workers /\ DOMAIN held = Workers

Acknowledged ==
    AcknowledgedIsStored /\ \A a \in acknowledged : a.currency \in Currencies

IInv ==
    /\ Control /\ Jobs
    /\ Histories /\ Acknowledged /\ AnswerOK
-----------------------------------------------------------------------------
(* Arithmetic of finite sets.                                              *)

\* Whatever holds of zero, and of the successor of what it holds of, holds of all.
LEMMA Upwards ==
  ASSUME NEW T, T \subseteq Nat, 0 \in T, \A n \in T : n + 1 \in T
  PROVE  \A n \in Nat : n \in T
<1> DEFINE U == Nat \ T
<1>1. SUFFICES ASSUME U # {} PROVE FALSE
  OBVIOUS
<1>2. PICK x \in U : \A y \in U : ~(<<y, x>> \in OpToRel(<, Nat))
  BY <1>1, WFMin, NatLessThanWellFounded, Zenon
<1>3. x - 1 \in U
  <2>1. x \in Nat /\ x # 0
    OBVIOUS
  <2>2. x - 1 \in Nat /\ (x - 1 \in T => x \in T)
    BY <2>1
  <2> QED
    BY <2>2
<1>4. <<x - 1, x>> \in OpToRel(<, Nat)
  BY <1>3, SMT DEF OpToRel
<1> QED
  BY <1>2, <1>3, <1>4

\* A finite set of instants has a first and a last one.
LEMMA Bounded ==
  ASSUME NEW S, IsFiniteSet(S), S \subseteq Int, S # {}
  PROVE  /\ \E x \in S : \A y \in S : x <= y
         /\ \E x \in S : \A y \in S : y <= x
<1> DEFINE Least(U) == \E x \in U : \A y \in U : x <= y
           Greatest(U) == \E x \in U : \A y \in U : y <= x
           Fits(U, n) == IsFiniteSet(U) /\ U \subseteq Int /\ U # {} /\ Cardinality(U) = n
           T == {n \in Nat : \A U : Fits(U, n) => Least(U) /\ Greatest(U)}
<1>1. 0 \in T
  BY FS_EmptySet
<1>2. ASSUME NEW n \in T PROVE n + 1 \in T
  <2>1. SUFFICES ASSUME NEW U, Fits(U, n + 1) PROVE Least(U) /\ Greatest(U)
    OBVIOUS
  <2>2. PICK x \in U : x \in Int
    BY <2>1
  <2> DEFINE V == U \ {x}
  <2>3. IsFiniteSet(V) /\ V \subseteq Int /\ Cardinality(V) = n
    <3>1. IsFiniteSet(V) /\ Cardinality(V) = Cardinality(U) - 1
      BY <2>1, <2>2, FS_RemoveElement
    <3>2. n \in Nat /\ V \subseteq Int /\ Cardinality(U) = n + 1
      BY <2>1
    <3> HIDE DEF T, V
    <3> QED
      BY <3>1, <3>2
  <2>4. CASE V = {}
    BY <2>1, <2>2, <2>4
  <2>5. CASE V # {}
    <3>1. Least(V) /\ Greatest(V)
      BY <2>3, <2>5
    <3>2. \A y \in U : y \in Int /\ (y \in V \/ y = x)
      BY <2>1
    <3>3. Least(U)
      <4>1. PICK m \in V : \A y \in V : m <= y
        BY <3>1
      <4> DEFINE least == IF x <= m THEN x ELSE m
      <4>2. least \in U /\ \A y \in U : least <= y
        BY <3>2, <4>1, <2>2
      <4> QED
        BY <4>2
    <3>4. Greatest(U)
      <4>1. PICK m \in V : \A y \in V : y <= m
        BY <3>1
      <4> DEFINE greatest == IF m <= x THEN x ELSE m
      <4>2. greatest \in U /\ \A y \in U : y <= greatest
        BY <3>2, <4>1, <2>2
      <4> QED
        BY <4>2
    <3> QED
      BY <3>3, <3>4
  <2> QED
    BY <2>4, <2>5
<1>3. T \subseteq Nat
  OBVIOUS
<1>4. \A n \in T : Fits(S, n) => Least(S) /\ Greatest(S)
  OBVIOUS
<1> HIDE DEF T
<1>5. Least(S) /\ Greatest(S)
  BY <1>1, <1>2, <1>3, <1>4, Upwards, FS_CardinalityType
<1> QED
  BY <1>5

\* What Min and Max return of it.
LEMMA Extremes ==
  ASSUME NEW S, IsFiniteSet(S), S \subseteq Int, S # {}
  PROVE  /\ Min(S) \in S /\ \A y \in S : Min(S) <= y
         /\ Max(S) \in S /\ \A y \in S : y <= Max(S)
<1>1. PICK x \in S : \A y \in S : x <= y
  BY Bounded
<1>2. PICK z \in S : \A y \in S : y <= z
  BY Bounded
<1>3. \A y \in S : z >= y
  BY <1>2
<1>4. Min(S) \in S /\ \A y \in S : Min(S) <= y
  BY <1>1 DEF Min
<1>5. Max(S) \in S /\ \A y \in S : Max(S) >= y
  BY <1>2, <1>3 DEF Max
<1> QED
  BY <1>4, <1>5

-----------------------------------------------------------------------------
(* What the readiness check examines.                                      *)

\* The images of finitely many things are finitely many.
LEMMA Images ==
  ASSUME NEW S, IsFiniteSet(S), NEW f
  PROVE  IsFiniteSet({f[x] : x \in S})
<1> DEFINE T == {f[x] : x \in S}
           g == [x \in S |-> f[x]]
<1>1. g \in Surjection(S, T)
  BY DEF Surjection
<1> HIDE DEF T, g
<1>2. IsFiniteSet(T)
  BY <1>1, FS_Surjection
<1> QED
  BY <1>2 DEF T

\* A state is a row of the history it is read from, and so is the state before it.
LEMMA StatesAreStored ==
  ASSUME NEW s, NEW rows, NEW t
  PROVE  State(s, rows, t) \subseteq rows /\ Previous(s, rows, t) \subseteq rows
<1>1. ReleasedBy(rows, t) \subseteq rows
  BY DEF ReleasedBy
<1>2. \A x : LatestObservation(x) \subseteq x /\ LatestEffective(x) \subseteq x
  BY DEF LatestObservation, LatestEffective
<1>3. Announced(rows, t) \subseteq rows
  BY <1>1, <1>2 DEF Announced
<1>4. Effective(rows, t) \subseteq rows
  BY <1>1, <1>2 DEF Effective
<1>5. \A c : PreviousAnnounced(rows, c, t) \subseteq rows
  BY <1>1, <1>2 DEF PreviousAnnounced
<1>6. \A c : PreviousEffective(rows, c, t) \subseteq rows
  BY <1>1, <1>2 DEF PreviousEffective
<1> QED
  BY <1>3, <1>4, <1>5, <1>6 DEF State, Previous

\* The window reaches the margin past six months back, and past every state.
LEMMA WindowReaches ==
  ASSUME NEW c, NEW rows, HistoryOK(c, rows), NEW s, NEW t \in Int,
         NEW W, W = Window(s, rows, t)
  PROVE  /\ W.from \in Int /\ W.to \in Int
         /\ W.from <= t - SixMonths - AxisSafetyMargin /\ t <= W.to
         /\ \A r \in State(s, rows, t) : /\ W.from <= r.period - AxisSafetyMargin
                                         /\ r.period + AxisSafetyMargin <= W.to
         /\ \A r \in Previous(s, rows, t) : W.from <= r.period - AxisSafetyMargin
<1> DEFINE now == State(s, rows, t)
           both == now \cup Previous(s, rows, t)
           current == {r.period : r \in now}
           reached == current \cup {r.period : r \in Previous(s, rows, t)}
           low == {t - SixMonths - AxisSafetyMargin} \cup {p - AxisSafetyMargin : p \in reached}
           high == {t} \cup {p + AxisSafetyMargin : p \in current}
<1>1. W.from = Min(low) /\ W.to = Max(high)
  BY DEF Window
<1>2. both \subseteq rows /\ \A r \in rows : r.period \in Int
  BY StatesAreStored, RatesAssumption DEF HistoryOK, RowOK, Rows
<1>3. IsFiniteSet(both) /\ IsFiniteSet(now)
  <2>1. IsFiniteSet(rows)
    BY DEF HistoryOK
  <2> QED
    BY <1>2, <2>1, FS_Subset
<1>4. IsFiniteSet(low)
  <2> DEFINE f == [r \in both |-> r.period - AxisSafetyMargin]
  <2>1. low = {f[r] : r \in both} \cup {t - SixMonths - AxisSafetyMargin}
    OBVIOUS
  <2>2. IsFiniteSet({f[r] : r \in both})
    <3> HIDE DEF f, both
    <3> QED
      BY <1>3, Images
  <2> HIDE DEF f, both, low
  <2> QED
    BY <2>1, <2>2, FS_AddElement
<1>5. IsFiniteSet(high)
  <2> DEFINE f == [r \in now |-> r.period + AxisSafetyMargin]
  <2>1. high = {f[r] : r \in now} \cup {t}
    OBVIOUS
  <2>2. IsFiniteSet({f[r] : r \in now})
    <3> HIDE DEF f, now
    <3> QED
      BY <1>3, Images
  <2> HIDE DEF f, now, high
  <2> QED
    BY <2>1, <2>2, FS_AddElement
<1>6. low \subseteq Int /\ t - SixMonths - AxisSafetyMargin \in low
      /\ \A r \in both : r.period - AxisSafetyMargin \in low
  <2>1. \A p \in reached : p \in Int
    BY <1>2
  <2>2. SixMonths \in Int /\ AxisSafetyMargin \in Int
    BY RatesAssumption
  <2>3. low \subseteq Int
    <3> HIDE DEF reached
    <3> QED
      BY <2>1, <2>2
  <2> QED
    BY <2>3
<1>7. high \subseteq Int /\ t \in high /\ \A r \in now : r.period + AxisSafetyMargin \in high
  <2>1. \A p \in current : p \in Int
    BY <1>2
  <2>2. AxisSafetyMargin \in Int
    BY RatesAssumption
  <2>3. high \subseteq Int
    <3> HIDE DEF current
    <3> QED
      BY <2>1, <2>2
  <2> QED
    BY <2>3
<1> HIDE DEF low, high
<1>8. Min(low) \in low /\ \A y \in low : Min(low) <= y
  BY <1>4, <1>6, Extremes
<1>9. Max(high) \in high /\ \A y \in high : y <= Max(high)
  BY <1>5, <1>7, Extremes
<1> QED
  BY <1>1, <1>6, <1>7, <1>8, <1>9

\* What is stored within the window was examined.
LEMMA Examined ==
  ASSUME NEW rows, NEW W, Ready(rows, W), NEW r \in rows,
         W.from <= r.period, r.period <= W.to
  PROVE  Safe(r)
BY DEF Ready, Candidates

\* So was the latest of what is stored before it.
LEMMA ExaminedBefore ==
  ASSUME NEW c, NEW rows, HistoryOK(c, rows), NEW W, W.from \in Int, Ready(rows, W),
         NEW r \in rows, r.period <= W.from
  PROVE  \E x \in rows : /\ Safe(x) /\ x.period <= W.from /\ r.period <= x.period
                         /\ x.period = r.period => Safe(r)
<1> DEFINE before == {x \in rows : x.period <= W.from}
           f == [x \in before |-> x.period]
           P == {f[x] : x \in before}
<1>1. IsFiniteSet(before)
  BY FS_Subset DEF HistoryOK
<1>2. \A x \in rows : x.period \in Int /\ x.revision = 0
  BY RatesAssumption DEF HistoryOK, RowOK, Rows
<1>3. IsFiniteSet(P)
  <2> HIDE DEF before, f
  <2> QED
    BY <1>1, Images
<1>4. P \subseteq Int /\ r \in before /\ P # {}
  BY <1>2
<1>5. PICK m \in P : \A y \in P : y <= m
  <2> HIDE DEF P
  <2> QED
    BY <1>3, <1>4, Bounded
<1>6. PICK x \in before : x.period = m
  BY <1>5
<1>7. \A y \in before : y.period \in Int /\ y.period <= x.period
  BY <1>2, <1>5, <1>6
<1>8. \A z \in before : z.period = x.period => z \in Candidates(rows, W)
  <2>1. SUFFICES ASSUME NEW z \in before, z.period = x.period
                 PROVE  \A y \in before : \/ y.period < z.period
                                          \/ y.period = z.period /\ y.revision <= z.revision
    BY DEF Candidates
  <2>2. \A y \in before : y.revision = 0
    BY <1>2
  <2>3. \A y \in before : y.period < x.period \/ y.period = x.period
    <3> HIDE DEF before
    <3> QED
      BY <1>7, <1>6
  <2> HIDE DEF before
  <2> QED
    BY <2>1, <2>2, <2>3
<1>9. Safe(x) /\ (x.period = r.period => Safe(r))
  BY <1>4, <1>6, <1>8 DEF Ready
<1>10. x \in rows /\ x.period <= W.from /\ r.period <= x.period
  BY <1>4, <1>7
<1> QED
  BY <1>9, <1>10

\* Classified timing is not earlier than the announcement, nor later than the margin.
LEMMA SafeIsPublic ==
  ASSUME NEW c \in Currencies, NEW r, RowOK(c, r), Safe(r)
  PROVE  /\ AnnouncedAt[c][r.period] \in Int
         /\ AnnouncedAt[c][r.period] <= r.released /\ r.released <= r.period + AxisSafetyMargin
<1>1. r.period \in Periods
  BY DEF RowOK, Rows
<1>2. PICK v \in Versions : Classified(c, r, v)
  BY DEF RowOK
<1>3. PICK x \in Registries[v][c][r.period] : r.released = x.released
  BY <1>2 DEF Classified, SameTiming
<1>4. x \in Resolutions(c, r.period)
  BY <1>3 DEF Resolutions
<1>5. AnnouncedAt[c][r.period] <= x.released /\ x.released <= r.period + AxisSafetyMargin
  BY <1>1, <1>4, TimingAssumption DEF Truthful
<1> QED
  BY <1>1, <1>3, <1>5, TimingAssumption

-----------------------------------------------------------------------------
(* What a history that is ready for an instant shows of it.                *)

\* A state with an effective date is classified.
LEMMA EffectiveIsSafe ==
  ASSUME NEW c, NEW rows, HistoryOK(c, rows), NEW t
  PROVE  /\ \A r \in State("EFFECTIVE", rows, t) : Safe(r) /\ r.released <= t
         /\ \A r \in Previous("EFFECTIVE", rows, t) : Safe(r) /\ r.released <= t
<1>1. \A r \in rows : r.effective # {} => Safe(r)
  BY DEF HistoryOK, RowOK
<1>2. \A S : LatestEffective(S) \subseteq S
  BY DEF LatestEffective
<1>3. \A r \in Effective(rows, t) : r \in rows /\ r.released <= t /\ r.effective # {}
  <2>1. Effective(rows, t)
          \subseteq LatestEffective({r \in ReleasedBy(rows, t) : \E e \in r.effective : e <= t})
    BY DEF Effective
  <2> QED
    BY <1>2, <2>1 DEF ReleasedBy
<1>4. \A x : \A r \in PreviousEffective(rows, x, t) :
        r \in rows /\ r.released <= t /\ r.effective # {}
  <2>1. SUFFICES ASSUME NEW x, NEW r \in PreviousEffective(rows, x, t)
                 PROVE  r \in rows /\ r.released <= t /\ r.effective # {}
    OBVIOUS
  <2>2. r \in LatestEffective({y \in ReleasedBy(rows, t) :
                                 \E e \in y.effective, f \in x.effective : e < f})
    BY <2>1 DEF PreviousEffective
  <2> QED
    BY <1>2, <2>2 DEF ReleasedBy
<1> QED
  BY <1>1, <1>3, <1>4 DEF State, Previous

\* An announced state was released by then, and nothing of a later date was.
LEMMA AnnouncedIsLatest ==
  ASSUME NEW c, NEW rows, HistoryOK(c, rows), NEW t
  PROVE  /\ \A r \in State("ANNOUNCED", rows, t) :
              /\ r \in rows /\ r.released <= t
              /\ \A x \in rows : x.released <= t => x.period <= r.period
         /\ \A r \in Previous("ANNOUNCED", rows, t) : r \in rows /\ r.released <= t
<1>1. \A x \in rows : x.period \in Int
  BY RatesAssumption DEF HistoryOK, RowOK, Rows
<1>2. \A r \in Announced(rows, t) :
        /\ r \in rows /\ r.released <= t
        /\ \A x \in rows : x.released <= t => x.period <= r.period
  <2>1. SUFFICES ASSUME NEW r \in Announced(rows, t)
                 PROVE  /\ r \in rows /\ r.released <= t
                        /\ \A x \in rows : x.released <= t => x.period <= r.period
    OBVIOUS
  <2>2. r \in ReleasedBy(rows, t)
        /\ \A x \in ReleasedBy(rows, t) : x.period < r.period \/ x.period = r.period
    BY <2>1 DEF Announced, LatestObservation
  <2> QED
    BY <1>1, <2>2 DEF ReleasedBy
<1>3. \A x : \A r \in PreviousAnnounced(rows, x, t) : r \in rows /\ r.released <= t
  BY DEF PreviousAnnounced, LatestObservation, ReleasedBy
<1> QED
  BY <1>2, <1>3 DEF State, Previous

\* Every state of a history that is ready was public at the instant it is used for.
LEMMA NothingAhead ==
  ASSUME NEW c \in Currencies, NEW rows, HistoryOK(c, rows), NEW t \in Int,
         NEW s \in {"ANNOUNCED", "EFFECTIVE"}, Ready(rows, Window(s, rows, t))
  PROVE  /\ \A r \in Previous(s, rows, t) : AnnouncedAt[c][r.period] <= t
         /\ \A u \in {t, t - ThreeMonths, t - SixMonths} :
              \A r \in State(s, rows, u) : AnnouncedAt[c][r.period] <= u
<1> DEFINE W == Window(s, rows, t)
<1>1. ThreeMonths \in Nat /\ SixMonths \in Nat /\ AxisSafetyMargin \in Nat
      /\ ThreeMonths <= SixMonths
  BY RatesAssumption
<1>2. \A r \in rows : r.released \in Int /\ r.period \in Int /\ RowOK(c, r)
  BY RatesAssumption DEF HistoryOK, RowOK, Rows
<1>3. \A r \in rows, u \in Int : Safe(r) /\ r.released <= u => AnnouncedAt[c][r.period] <= u
  <2>1. SUFFICES ASSUME NEW r \in rows, NEW u \in Int, Safe(r), r.released <= u
                 PROVE  AnnouncedAt[c][r.period] <= u
    OBVIOUS
  <2>2. AnnouncedAt[c][r.period] \in Int /\ AnnouncedAt[c][r.period] <= r.released
    BY <1>2, <2>1, SafeIsPublic
  <2> QED
    BY <1>2, <2>1, <2>2
<1>4. \A u \in {t, t - ThreeMonths, t - SixMonths} : u \in Int /\ t - SixMonths <= u /\ u <= t
  BY <1>1
<1>5. CASE s = "EFFECTIVE"
  BY <1>3, <1>4, <1>5, EffectiveIsSafe, StatesAreStored
<1>6. CASE s = "ANNOUNCED"
  <2>1. /\ W.from \in Int /\ W.to \in Int
        /\ W.from <= t - SixMonths - AxisSafetyMargin /\ t <= W.to
        /\ \A r \in State(s, rows, t) \cup Previous(s, rows, t) :
             W.from <= r.period - AxisSafetyMargin
    BY WindowReaches
  <2>2. \A r \in State(s, rows, t) \cup Previous(s, rows, t) : r \in rows /\ r.released <= t
    BY <1>6, AnnouncedIsLatest
  <2>3. \A r \in rows : W.from <= r.period /\ r.period <= W.to => Safe(r)
    BY <2>1, Examined
  <2>4. \A r \in rows : ~Safe(r) => r.released = r.period
    BY <1>2 DEF RowOK
  <2>5. Ready(rows, W)
    OBVIOUS
  <2> HIDE DEF W
  <2>6. \A r \in State(s, rows, t) \cup Previous(s, rows, t) : Safe(r)
    <3>1. SUFFICES ASSUME NEW r \in State(s, rows, t) \cup Previous(s, rows, t), ~Safe(r)
                   PROVE  FALSE
      OBVIOUS
    <3>2. r \in rows /\ r.period \in Int /\ r.period <= t /\ W.from <= r.period - AxisSafetyMargin
      BY <1>2, <2>1, <2>2, <2>4, <3>1
    <3>3. W.from <= r.period /\ r.period <= W.to
      BY <1>1, <2>1, <3>2
    <3> QED
      BY <2>3, <3>1, <3>2, <3>3
  <2>7. \A u \in {t - ThreeMonths, t - SixMonths} : \A r \in State(s, rows, u) : Safe(r)
    <3>1. SUFFICES ASSUME NEW u \in {t - ThreeMonths, t - SixMonths},
                          NEW r \in State(s, rows, u), ~Safe(r)
                   PROVE  FALSE
      OBVIOUS
    <3>2. /\ r \in rows /\ r.released <= u
          /\ \A x \in rows : x.released <= u => x.period <= r.period
      BY <1>6, AnnouncedIsLatest
    <3>3. u \in Int /\ t - SixMonths <= u /\ u <= t
      BY <1>4
    <3>4. r.period \in Int /\ r.period <= u
      BY <1>2, <2>4, <3>1, <3>2
    <3>5. r.period <= W.from
      BY <2>1, <2>3, <3>1, <3>2, <3>3, <3>4
    <3>6. PICK x \in rows : /\ Safe(x) /\ x.period <= W.from /\ r.period <= x.period
                            /\ x.period = r.period => Safe(r)
      BY <2>1, <2>5, <3>2, <3>5, ExaminedBefore
    <3>7. x.released <= x.period + AxisSafetyMargin
      BY <1>2, <3>6, SafeIsPublic
    <3>8. x.released <= u
      BY <1>1, <1>2, <2>1, <3>3, <3>6, <3>7
    <3>9. x.period = r.period
      BY <1>2, <3>2, <3>6, <3>8
    <3> QED
      BY <3>1, <3>6, <3>9
  <2>8. \A u \in {t - ThreeMonths, t - SixMonths} : \A r \in State(s, rows, u) :
          r \in rows /\ r.released <= u
    BY <1>6, AnnouncedIsLatest
  <2> QED
    BY <1>3, <1>4, <2>2, <2>6, <2>7, <2>8
<1> QED
  BY <1>5, <1>6

\* It passes over nothing that was public but what is classified as released
\* later, or unclassified beyond the window.
LEMMA NothingPassedOver ==
  ASSUME NEW c, NEW rows, HistoryOK(c, rows), NEW t \in Int,
         Ready(rows, Window("ANNOUNCED", rows, t)),
         NEW n \in Announced(rows, t), NEW r \in rows, r.period > n.period
  PROVE  \/ Safe(r) /\ r.released > t
         \/ ~Safe(r) /\ r.period > t /\ r.period > n.period + AxisSafetyMargin
<1> DEFINE W == Window("ANNOUNCED", rows, t)
<1>1. n \in State("ANNOUNCED", rows, t)
  BY DEF State
<1>2. n \in rows /\ \A x \in rows : x.released <= t => x.period <= n.period
  BY <1>1, AnnouncedIsLatest
<1>3. \A x \in rows : x.released \in Int /\ x.period \in Int
  BY RatesAssumption DEF HistoryOK, RowOK, Rows
<1>4. r.released > t
  BY <1>2, <1>3
<1>5. ASSUME ~Safe(r) PROVE r.period > t /\ r.period > n.period + AxisSafetyMargin
  <2>1. r.period > t
    BY <1>4, <1>5 DEF HistoryOK, RowOK
  <2>2. /\ W.from \in Int /\ W.to \in Int
        /\ W.from <= n.period - AxisSafetyMargin /\ n.period + AxisSafetyMargin <= W.to
    BY <1>1, WindowReaches
  <2>3. ~(W.from <= r.period /\ r.period <= W.to)
    BY <1>5, <2>2, Examined
  <2>4. AxisSafetyMargin \in Nat
    BY RatesAssumption
  <2> HIDE DEF W
  <2>5. W.from <= r.period
    BY <1>2, <1>3, <2>2, <2>4
  <2> QED
    BY <1>2, <1>3, <2>1, <2>2, <2>3, <2>4, <2>5
<1> QED
  BY <1>4, <1>5

-----------------------------------------------------------------------------
(* What a step leaves alone.                                               *)

\* The versions of the registry are numbered from one.
LEMMA VersionsAreNumbers == \A v \in Versions : v \in Nat /\ v # 0
BY RatesAssumption

\* Histories nobody writes stay right when a newer version is deployed.
LEMMA HistoriesStand ==
  ASSUME Histories, deployed' \in Versions, deployed <= deployed',
         UNCHANGED <<history, warrant>>
  PROVE  Histories'
<1>1. \A v \in {0} \cup Versions : v <= deployed => v <= deployed'
  BY RatesAssumption DEF Histories
<1>2. \A c \in Currencies, p \in Periods : warrant[c][p] \in {0} \cup Versions
  BY DEF Histories
<1>3. \A c \in Currencies : Warranted(c)'
  BY <1>1, <1>2 DEF Histories, Warranted
<1> QED
  BY <1>3 DEF Histories

\* Reports of histories nobody writes stay true.
LEMMA ReportsStand ==
  ASSUME Acknowledged, UNCHANGED <<history, acknowledged>>
  PROVE  Acknowledged'
BY DEF Acknowledged, AcknowledgedIsStored

\* The last answer is about the histories it read, whatever is written since.
LEMMA AnswerStands ==
  ASSUME AnswerOK, answer' = answer
  PROVE  AnswerOK'
<1>1. Legs' = Legs /\ (Certified' <=> Certified)
  BY DEF Legs, Certified
<1> QED
  BY <1>1 DEF AnswerOK

\* The runs of the other workers are none of a step's concern.
LEMMA OthersStand ==
  ASSUME IInv, NEW w \in Workers, deployed' \in Versions, deployed <= deployed',
         \A v \in Workers \ {w} : /\ pc'[v] = pc[v] /\ job'[v] = job[v]
                                  /\ todo'[v] = todo[v] /\ held'[v] = held[v],
         RunOK(deployed', pc'[w], job'[w], todo'[w], held'[w])
  PROVE  Jobs'
<1>1. SUFFICES ASSUME NEW v \in Workers \ {w}
               PROVE  RunOK(deployed', pc'[v], job'[v], todo'[v], held'[v])
  BY DEF Jobs, JobOK
<1>2. RunOK(deployed, pc[v], job[v], todo[v], held[v])
  BY DEF IInv, Jobs, JobOK
<1>3. \A n \in Versions : n <= deployed => n <= deployed'
  BY RatesAssumption DEF IInv, Histories
<1> QED
  BY <1>2, <1>3 DEF RunOK

\* A worker without a run has nothing to be right about.
LEMMA EndKeeps ==
  ASSUME IInv, NEW w \in Workers, NEW r \in Ends, End(w, r), UNCHANGED <<made, deployed>>
  PROVE  Control' /\ Jobs'
<1>1. Control'
  BY DEF IInv, Control, End, Steps
<1>2. pc'[w] = "idle"
  BY DEF End, IInv, Control
<1>3. RunOK(deployed', pc'[w], job'[w], todo'[w], held'[w])
  BY <1>2 DEF RunOK
<1>4. deployed' \in Versions /\ deployed <= deployed'
  BY RatesAssumption DEF IInv, Histories
<1>5. \A v \in Workers \ {w} : /\ pc'[v] = pc[v] /\ job'[v] = job[v]
                               /\ todo'[v] = todo[v] /\ held'[v] = held[v]
  BY DEF End, IInv, Control
<1> QED
  BY <1>1, <1>3, <1>4, <1>5, OthersStand

\* Nor does a run change by having less to write.
LEMMA LessToWrite ==
  ASSUME IInv, NEW w \in Workers, NEW left, left \subseteq todo[w],
         todo' = [todo EXCEPT ![w] = left],
         UNCHANGED <<pc, job, held, outcome, made, deployed>>
  PROVE  Control' /\ Jobs'
<1>1. Control'
  BY DEF IInv, Control
<1>2. RunOK(deployed, pc[w], job[w], todo[w], held[w])
  BY DEF IInv, Jobs, JobOK
<1>3. RunOK(deployed', pc'[w], job'[w], todo'[w], held'[w])
  <2>1. todo'[w] = left
    BY DEF IInv, Control
  <2> QED
    BY <1>2, <2>1 DEF RunOK
<1>4. deployed' \in Versions /\ deployed <= deployed'
  BY RatesAssumption DEF IInv, Histories
<1>5. \A v \in Workers \ {w} : /\ pc'[v] = pc[v] /\ job'[v] = job[v]
                               /\ todo'[v] = todo[v] /\ held'[v] = held[v]
  BY DEF IInv, Control
<1> QED
  BY <1>1, <1>3, <1>4, <1>5, OthersStand

\* The next era is one of the currency's.
LEMMA NextEraKeeps ==
  ASSUME IInv, NEW w \in Workers, pc[w] \in {"fetch", "add"}, NextEra(w),
         UNCHANGED <<made, deployed>>
  PROVE  Control' /\ Jobs'
<1> DEFINE n == Len(Eras[job[w].currency])
<1>1. CASE job[w].era = n
  BY <1>1, EndKeeps DEF NextEra, Ends
<1>2. CASE job[w].era # n
  <2>1. /\ pc' = [pc EXCEPT ![w] = "fetch"]
        /\ job' = [job EXCEPT ![w].era = @ + 1]
        /\ todo' = [todo EXCEPT ![w] = {}]
        /\ UNCHANGED <<held, outcome>>
    BY <1>2 DEF NextEra
  <2>2. Control'
    BY <2>1 DEF IInv, Control, Steps
  <2>3. RunOK(deployed, pc[w], job[w], todo[w], held[w])
    BY DEF IInv, Jobs, JobOK
  <2>4. /\ job[w].currency \in Currencies /\ job[w].as_of \in FetchedTo
        /\ job[w].era \in 1..n
    BY <2>3 DEF RunOK
  <2>5. n \in Nat
    BY <2>4, RatesAssumption
  <2>6. job[w].era + 1 \in 1..n
    BY <1>2, <2>4, <2>5
  <2>7. pc'[w] = "fetch" /\ job'[w] = [job[w] EXCEPT !.era = @ + 1]
    BY <2>1 DEF IInv, Control
  <2>8. /\ job'[w].currency = job[w].currency /\ job'[w].as_of = job[w].as_of
        /\ job'[w].era \in 1..n
    BY <2>4, <2>6, <2>7
  <2>9. RunOK(deployed', pc'[w], job'[w], todo'[w], held'[w])
    BY <2>4, <2>7, <2>8 DEF RunOK
  <2>10. deployed' \in Versions /\ deployed <= deployed'
    BY RatesAssumption DEF IInv, Histories
  <2>11. \A v \in Workers \ {w} : /\ pc'[v] = pc[v] /\ job'[v] = job[v]
                                  /\ todo'[v] = todo[v] /\ held'[v] = held[v]
    BY <2>1 DEF IInv, Control
  <2> QED
    BY <2>2, <2>9, <2>10, <2>11, OthersStand
<1> QED
  BY <1>1, <1>2

\* A run that starts well leaves everything right.
LEMMA StartKeeps ==
  ASSUME IInv, NEW w \in Workers, NEW step \in Steps \cup {"over"}, NEW run, NEW writes,
         Start(w, step, run, writes), run.version \in Versions, deployed <= run.version,
         step # "over" => RunOK(run.version, step, run, writes, held[w])
  PROVE  IInv'
<1>1. deployed' = run.version /\ UNCHANGED <<history, warrant, acknowledged, answer, held>>
  BY DEF Start
<1>2. Histories' /\ Acknowledged' /\ AnswerOK'
  BY <1>1, HistoriesStand, ReportsStand, AnswerStands DEF IInv
<1>3. made' \in 0..MaxRuns
  BY RatesAssumption DEF Start, IInv, Control
<1>4. Control'
  <2>1. CASE step = "over"
    BY <1>3, <2>1 DEF Start, IInv, Control, Ends
  <2>2. CASE step # "over"
    BY <1>1, <1>3, <2>2 DEF Start, IInv, Control, Ends
  <2> QED
    BY <2>1, <2>2
<1>5. RunOK(deployed', pc'[w], job'[w], todo'[w], held'[w])
  <2>1. CASE step = "over"
    <3>1. pc'[w] = "idle"
      BY <2>1 DEF Start
    <3> QED
      BY <3>1 DEF RunOK
  <2>2. CASE step # "over"
    <3>1. pc'[w] = step /\ job'[w] = run /\ todo'[w] = writes /\ held'[w] = held[w]
      BY <1>1, <2>2 DEF Start, IInv, Control
    <3> QED
      BY <1>1, <2>2, <3>1
  <2> QED
    BY <2>1, <2>2
<1>6. \A v \in Workers \ {w} : /\ pc'[v] = pc[v] /\ job'[v] = job[v]
                               /\ todo'[v] = todo[v] /\ held'[v] = held[v]
  BY DEF Start, IInv, Control
<1>7. Jobs'
  BY <1>1, <1>5, <1>6, OthersStand
<1> QED
  BY <1>2, <1>4, <1>7 DEF IInv

-----------------------------------------------------------------------------
(* BackfillPolicyRateHistory.                                              *)

\* A backfill begins with the currency's first era.
LEMMA StartBackfillKeeps ==
  ASSUME IInv, NEW w \in Workers, StartBackfill(w)
  PROVE  IInv'
<1>1. PICK c \in Currencies, t \in FetchedTo :
        Start(w, "fetch", [version |-> deployed, currency |-> c, as_of |-> t, era |-> 1], {})
  BY DEF StartBackfill
<1> DEFINE run == [version |-> deployed, currency |-> c, as_of |-> t, era |-> 1]
<1>2. run.version \in Versions /\ deployed <= run.version
  BY RatesAssumption DEF IInv, Histories
<1>3. 1 \in 1..Len(Eras[c])
  BY RatesAssumption
<1>4. RunOK(run.version, "fetch", run, {}, held[w])
  BY <1>3 DEF RunOK
<1> HIDE DEF run
<1> QED
  BY <1>1, <1>2, <1>4, StartKeeps DEF Steps, run

\* Change points are numbers under dates a decision is stored under.
LEMMA ChangesAreNumbers ==
  ASSUME NEW c \in Currencies, NEW k \in 1..Len(Eras[c]), NEW t \in FetchedTo, NEW got,
         DOMAIN got = DOMAIN Eras[c][k].series,
         \A n \in DOMAIN got : \E data \in Publications[Eras[c][k].series[n]] :
            got[n] = Fetched(Eras[c][k], data, t)
  PROVE  Changes(Eras[c][k], got) \subseteq Change
<1> DEFINE era == Eras[c][k]
<1>1. \A n \in DOMAIN got : \A o \in got[n] : o.date \in Periods /\ o.value \in Int
  <2>1. \A n \in DOMAIN era.series : \A data \in Publications[era.series[n]] :
          \A o \in Fetched(era, data, t) : o.date \in Periods /\ o.value \in Int
    BY PublicationsAssumption, Zenon
  <2>2. \A n \in DOMAIN got : \E data \in Publications[era.series[n]] :
          got[n] = Fetched(era, data, t)
    OBVIOUS
  <2> HIDE DEF era
  <2> QED
    BY <2>1, <2>2 DEF era
<1>2. DOMAIN era.series = IF era.transformation = "IDENTITY" THEN 1..1 ELSE 1..2
  BY PublicationsAssumption, Zenon
<1>3. 1 \in DOMAIN got /\ (era.transformation # "IDENTITY" => 2 \in DOMAIN got)
  BY <1>2
<1>4. \A d \in Complete(got) : d \in Periods /\ \A n \in DOMAIN got : ValueOn(got[n], d) \in Int
  <2>1. SUFFICES ASSUME NEW d \in Complete(got)
                 PROVE  d \in Periods /\ \A n \in DOMAIN got : ValueOn(got[n], d) \in Int
    OBVIOUS
  <2>2. \A n \in DOMAIN got : \E o \in got[n] : o.date = d
    BY DEF Complete
  <2>3. d \in Periods
    BY <1>1, <1>3, <2>2
  <2>4. \A n \in DOMAIN got : \E o \in got[n] : ValueOn(got[n], d) = o.value
    BY <2>2 DEF ValueOn
  <2> QED
    BY <1>1, <2>3, <2>4
<1>5. \A d \in Complete(got) : Canonical(era, got, d) \in Int
  <2>1. SUFFICES ASSUME NEW d \in Complete(got) PROVE Canonical(era, got, d) \in Int
    OBVIOUS
  <2>2. CASE era.transformation = "IDENTITY"
    BY <1>3, <1>4, <2>2 DEF Canonical
  <2>3. CASE era.transformation # "IDENTITY"
    <3>1. ValueOn(got[1], d) \in Int /\ ValueOn(got[2], d) \in Int
      BY <1>3, <1>4, <2>3
    <3>2. (ValueOn(got[1], d) + ValueOn(got[2], d)) \div 2 \in Int
      BY <3>1
    <3> QED
      BY <2>3, <3>2 DEF Canonical
  <2> QED
    BY <2>2, <2>3
<1> HIDE DEF era
<1>6. Changes(era, got) \subseteq Change
  <2>1. \A i \in Changes(era, got) :
          \E d \in Complete(got) : i = [period |-> d, value |-> Canonical(era, got, d)]
    BY DEF Changes
  <2> QED
    BY <1>4, <1>5, <2>1 DEF Change
<1> QED
  BY <1>6 DEF era

\* What a fetched era leaves to write are numbers under dates decisions have.
LEMMA FetchEraKeeps ==
  ASSUME IInv, NEW w \in Workers, FetchEra(w)
  PROVE  IInv'
<1> DEFINE era == EraOf(w)
<1>1. pc[w] = "fetch" /\ UNCHANGED <<history, made, deployed, acknowledged, warrant, answer>>
  BY DEF FetchEra
<1>2. deployed' \in Versions /\ deployed <= deployed'
  BY <1>1, RatesAssumption DEF IInv, Histories
<1>3. Histories' /\ Acknowledged' /\ AnswerOK'
  BY <1>1, <1>2, HistoriesStand, ReportsStand, AnswerStands DEF IInv
<1>4. /\ job[w].currency \in Currencies /\ job[w].as_of \in FetchedTo
      /\ job[w].era \in 1..Len(Eras[job[w].currency])
  BY <1>1 DEF IInv, Jobs, JobOK, RunOK
<1>5. CASE NextEra(w)
  BY <1>1, <1>3, <1>5, NextEraKeeps DEF IInv
<1>6. ASSUME NEW raw \in [DOMAIN era.series ->
                            UNION {Publications[era.series[n]] : n \in DOMAIN era.series}],
             NEW got, got = [n \in DOMAIN raw |-> Fetched(era, raw[n], job[w].as_of)],
             \A n \in DOMAIN raw : raw[n] \in Publications[era.series[n]],
             Changes(era, got) # {}, pc' = [pc EXCEPT ![w] = "add"],
             todo' = [todo EXCEPT ![w] = Changes(era, got)], UNCHANGED <<job, held, outcome>>
      PROVE  IInv'
  <2>1. Changes(era, got) \subseteq Change
    <3>1. DOMAIN got = DOMAIN era.series
      BY <1>6
    <3>2. \A n \in DOMAIN got : \E data \in Publications[era.series[n]] :
            got[n] = Fetched(era, data, job[w].as_of)
      BY <1>6
    <3> QED
      BY <1>4, <3>1, <3>2, ChangesAreNumbers DEF EraOf
  <2>2. Control'
    BY <1>1, <1>6 DEF IInv, Control, Steps
  <2>3. pc'[w] = "add" /\ job'[w] = job[w] /\ todo'[w] = Changes(era, got)
    BY <1>6 DEF IInv, Control
  <2> HIDE DEF era
  <2>4. RunOK(deployed', pc'[w], job'[w], todo'[w], held'[w])
    BY <1>4, <2>1, <2>3 DEF RunOK
  <2>5. \A v \in Workers \ {w} : /\ pc'[v] = pc[v] /\ job'[v] = job[v]
                                 /\ todo'[v] = todo[v] /\ held'[v] = held[v]
    BY <1>6 DEF IInv, Control
  <2>6. Jobs'
    BY <1>2, <2>4, <2>5, OthersStand
  <2> QED
    BY <1>3, <2>2, <2>6 DEF IInv
<1>7. ASSUME End(w, "INVERTED_RANGE") PROVE IInv'
  BY <1>1, <1>3, <1>7, EndKeeps DEF IInv, Ends
<1>8. \/ NextEra(w)
      \/ End(w, "INVERTED_RANGE")
      \/ \E raw \in [DOMAIN era.series ->
                       UNION {Publications[era.series[n]] : n \in DOMAIN era.series}] :
           LET got == [n \in DOMAIN raw |-> Fetched(era, raw[n], job[w].as_of)]
           IN /\ \A n \in DOMAIN raw : raw[n] \in Publications[era.series[n]]
              /\ Changes(era, got) # {} /\ pc' = [pc EXCEPT ![w] = "add"]
              /\ todo' = [todo EXCEPT ![w] = Changes(era, got)] /\ UNCHANGED <<job, held, outcome>>
  BY DEF FetchEra
<1> HIDE DEF era
<1> QED
  BY <1>5, <1>6, <1>7, <1>8

\* A row for a period that has none.
LEMMA HistoryGrows ==
  ASSUME Histories, NEW c \in Currencies, NEW row, RowOK(c, row), ~Safe(row),
         \A r \in history[c] : r.period # row.period,
         history' = [history EXCEPT ![c] = @ \cup {row}], UNCHANGED <<warrant, deployed>>
  PROVE  Histories'
<1>1. history'[c] = history[c] \cup {row} /\ \A d \in Currencies \ {c} : history'[d] = history[d]
  BY DEF Histories
<1>2. row \in Rows
  BY DEF RowOK
<1>3. history' \in [Currencies -> SUBSET Rows]
  BY <1>2 DEF Histories
<1>4. HistoryOK(c, history'[c])
  <2>1. IsFiniteSet(history[c]) /\ \A r \in history[c] : RowOK(c, r)
    BY DEF Histories, HistoryOK
  <2>2. IsFiniteSet(history'[c])
    BY <1>1, <2>1, FS_AddElement
  <2> QED
    BY <1>1, <2>1, <2>2 DEF HistoryOK
<1>5. Warranted(c)'
  BY <1>1 DEF Histories, Warranted
<1>6. \A d \in Currencies \ {c} : HistoryOK(d, history'[d]) /\ Warranted(d)'
  BY <1>1 DEF Histories, Warranted
<1> QED
  BY <1>3, <1>4, <1>5, <1>6 DEF Histories

\* add_vintage reports what it inserts, or what it finds to be the same.
LEMMA AddVintageKeeps ==
  ASSUME IInv, NEW w \in Workers, AddVintage(w)
  PROVE  IInv'
<1> DEFINE c == job[w].currency
<1>1. PICK i \in todo[w] :
        LET row == [period |-> i.period, revision |-> 0, value |-> i.value,
                    released |-> i.period, effective |-> {}, verified |-> FALSE, bound |-> FALSE]
            there == At(c, i.period, 0)
        IN /\ history' = IF there = {} THEN [history EXCEPT ![c] = @ \cup {row}] ELSE history
           /\ acknowledged' =
                IF \A x \in there : SamePayload(x, row)
                THEN acknowledged \cup {[currency |-> c, period |-> i.period, value |-> i.value]}
                ELSE acknowledged
           /\ IF todo[w] = {i} THEN NextEra(w)
              ELSE todo' = [todo EXCEPT ![w] = @ \ {i}] /\ UNCHANGED <<pc, job, held, outcome>>
  BY DEF AddVintage, Earliest
<1> DEFINE row == [period |-> i.period, revision |-> 0, value |-> i.value, released |-> i.period,
                   effective |-> {}, verified |-> FALSE, bound |-> FALSE]
           there == At(c, i.period, 0)
           report == [currency |-> c, period |-> i.period, value |-> i.value]
<1>2. pc[w] = "add" /\ UNCHANGED <<made, deployed, warrant, answer>>
  BY DEF AddVintage
<1>3. c \in Currencies /\ i.period \in Periods /\ i.value \in Int
  <2>1. RunOK(deployed, pc[w], job[w], todo[w], held[w])
    BY DEF IInv, Jobs, JobOK
  <2> QED
    BY <1>1, <1>2, <2>1 DEF RunOK, Change
<1>4. /\ history' = IF there = {} THEN [history EXCEPT ![c] = @ \cup {row}] ELSE history
      /\ acknowledged' = IF \A x \in there : SamePayload(x, row) THEN acknowledged \cup {report}
                         ELSE acknowledged
      /\ IF todo[w] = {i} THEN NextEra(w)
         ELSE todo' = [todo EXCEPT ![w] = @ \ {i}] /\ UNCHANGED <<pc, job, held, outcome>>
  BY <1>1
<1>5. row.period = i.period /\ row.value = i.value /\ RowOK(c, row) /\ ~Safe(row)
  <2>1. row \in Rows
    BY <1>3, RatesAssumption DEF Rows
  <2> QED
    BY <2>1 DEF RowOK, Safe
<1>6. \A r \in history[c] : r.period = i.period => r \in there
  BY <1>3 DEF At, IInv, Histories, HistoryOK, RowOK, Rows
<1>7. there \subseteq history[c]
  BY DEF At
<1>8. report.currency = c /\ report.period = i.period /\ report.value = i.value
  OBVIOUS
<1> HIDE DEF c, row, there, report
<1>9. Histories'
  <2>1. CASE there = {}
    BY <1>2, <1>3, <1>4, <1>5, <1>6, <2>1, HistoryGrows DEF IInv
  <2>2. CASE there # {}
    BY <1>2, <1>4, <2>2, RatesAssumption, HistoriesStand DEF IInv, Histories
  <2> QED
    BY <2>1, <2>2
<1>10. \A d \in Currencies : history[d] \subseteq history'[d]
  BY <1>4 DEF IInv, Histories
<1>11. (\A x \in there : SamePayload(x, row)) =>
         \E r \in history'[c] : r.period = i.period /\ r.value = i.value
  <2>1. CASE there = {}
    <3>1. row \in history'[c]
      BY <1>3, <1>4, <2>1 DEF IInv, Histories
    <3> QED
      BY <1>5, <3>1
  <2>2. CASE there # {}
    BY <1>3, <1>5, <1>7, <1>10, <2>2 DEF SamePayload
  <2> QED
    BY <2>1, <2>2
<1>12. Acknowledged'
  <2>1. \A a \in acknowledged' : a \in acknowledged
          \/ (a = report /\ \A x \in there : SamePayload(x, row))
    BY <1>4
  <2> QED
    BY <1>3, <1>8, <1>10, <1>11, <2>1 DEF IInv, Acknowledged, AcknowledgedIsStored
<1>13. AnswerOK'
  BY <1>2, AnswerStands DEF IInv
<1>14. Control' /\ Jobs'
  <2>1. CASE todo[w] = {i}
    BY <1>2, <1>4, <2>1, NextEraKeeps
  <2>2. CASE todo[w] # {i}
    BY <1>2, <1>4, <2>2, LessToWrite DEF IInv, Control
  <2> QED
    BY <2>1, <2>2
<1> QED
  BY <1>9, <1>12, <1>13, <1>14 DEF IInv

-----------------------------------------------------------------------------
(* VerifyPolicyRateReleaseTiming and RemediateReleaseTiming.               *)

\* What a version resolves a stored row to is a write for that row.
LEMMA ResolvedIsPending ==
  ASSUME Histories, NEW c \in Currencies, NEW v \in Versions, NEW u \in Resolved(c, v)
  PROVE  /\ u.read \in history[c] /\ u.period = u.read.period /\ RowOK(c, u.read)
         /\ u.period \in Periods /\ u.read.revision = 0
         /\ u.resolution \in Registries[v][c][u.period]
<1>1. PICK r \in history[c] : \E x \in Registries[v][c][r.period] :
        u = [period |-> r.period, read |-> r, resolution |-> x]
  BY DEF Resolved
<1>2. RowOK(c, r)
  BY DEF Histories, HistoryOK
<1> QED
  BY <1>1, <1>2 DEF RowOK, Rows

\* Verification begins with a write for every unclassified row its version resolves.
LEMMA StartVerificationKeeps ==
  ASSUME IInv, NEW w \in Workers, StartVerification(w)
  PROVE  IInv'
<1>1. PICK c \in Currencies, v \in Deployable :
        Start(w, IF ToReplace(c, v) = {} THEN "over" ELSE "replace",
              [version |-> v, currency |-> c], ToReplace(c, v))
  BY DEF StartVerification
<1> DEFINE run == [version |-> v, currency |-> c]
           writes == ToReplace(c, v)
           step == IF writes = {} THEN "over" ELSE "replace"
<1>2. run.version \in Versions /\ deployed <= run.version
  BY RatesAssumption DEF Deployable, IInv, Histories
<1>3. \A u \in writes : Pending(run, u)
  <2>1. \A u \in writes : u \in Resolved(c, v)
    BY DEF ToReplace
  <2> QED
    BY <1>2, <2>1, ResolvedIsPending DEF Pending, IInv
<1>4. step # "over" => RunOK(run.version, step, run, writes, held[w])
  <2>1. run.version <= run.version
    BY <1>2, VersionsAreNumbers
  <2>2. step # "over" => step = "replace"
    OBVIOUS
  <2>3. run.currency \in Currencies
    OBVIOUS
  <2> HIDE DEF run, writes, step
  <2> QED
    BY <1>2, <1>3, <2>1, <2>2, <2>3 DEF RunOK
<1>5. step \in Steps \cup {"over"}
  BY DEF Steps
<1>6. Start(w, step, run, writes)
  BY <1>1
<1> HIDE DEF run, writes, step
<1> QED
  BY <1>2, <1>4, <1>5, <1>6, StartKeeps

\* A correction is called for by the version that last classified the row.
LEMMA CorrectionsAreCalledFor ==
  ASSUME Histories, NEW c \in Currencies, NEW v \in Versions, deployed <= v,
         NEW u \in ToCorrect(c, v)
  PROVE  Corrects([version |-> v, currency |-> c], u)
<1> DEFINE n == warrant[c][u.period]
<1>1. u \in Resolved(c, v) /\ u.resolution.exact /\ u.read.verified
      /\ ~SameTiming(u.read, u.resolution)
  BY DEF ToCorrect, SameTiming
<1>2. u.read \in history[c] /\ u.period = u.read.period /\ u.period \in Periods
  BY <1>1, ResolvedIsPending
<1>3. n \in Versions /\ Classified(c, u.read, n) /\ n <= deployed
  BY <1>1, <1>2 DEF Histories, Warranted, Safe
<1>4. n <= v
  <2>1. deployed \in Versions
    BY DEF Histories
  <2> HIDE DEF n
  <2> QED
    BY <1>3, <2>1, VersionsAreNumbers
<1>5. PICK x \in Registries[n][c][u.period] : SameTiming(u.read, x) /\ u.read.verified = x.exact
  BY <1>2, <1>3 DEF Classified
<1>6. x.exact
  BY <1>1, <1>5
<1> HIDE DEF n
<1> QED
  BY <1>1, <1>3, <1>4, <1>5, <1>6 DEF Corrects

\* Remediation begins with a correction for every row its version resolves otherwise.
LEMMA StartRemediationKeeps ==
  ASSUME IInv, NEW w \in Workers, StartRemediation(w)
  PROVE  IInv'
<1>1. PICK c \in Currencies, v \in Deployable :
        Start(w, IF ToCorrect(c, v) = {} THEN "over" ELSE "correct",
              [version |-> v, currency |-> c], ToCorrect(c, v))
  BY DEF StartRemediation
<1> DEFINE run == [version |-> v, currency |-> c]
           writes == ToCorrect(c, v)
           step == IF writes = {} THEN "over" ELSE "correct"
<1>2. run.version \in Versions /\ deployed <= run.version
  BY RatesAssumption DEF Deployable, IInv, Histories
<1>3. \A u \in writes : Pending(run, u) /\ Corrects(run, u)
  <2>1. \A u \in writes : u \in Resolved(c, v)
    BY DEF ToCorrect
  <2>2. \A u \in writes : Pending(run, u)
    BY <1>2, <2>1, ResolvedIsPending DEF Pending, IInv
  <2>3. \A u \in writes : Corrects(run, u)
    BY <1>2, CorrectionsAreCalledFor DEF IInv
  <2> QED
    BY <2>2, <2>3
<1>4. step # "over" => RunOK(run.version, step, run, writes, held[w])
  <2>1. run.version <= run.version
    BY <1>2, VersionsAreNumbers
  <2>2. step # "over" => step = "correct"
    OBVIOUS
  <2>3. run.currency \in Currencies
    OBVIOUS
  <2> HIDE DEF run, writes, step
  <2> QED
    BY <1>2, <1>3, <2>1, <2>2, <2>3 DEF RunOK
<1>5. step \in Steps \cup {"over"}
  BY DEF Steps
<1>6. Start(w, step, run, writes)
  BY <1>1
<1> HIDE DEF run, writes, step
<1> QED
  BY <1>2, <1>4, <1>5, <1>6, StartKeeps

\* A row whose timing becomes what a version resolved, under that version's warrant.
LEMMA Reclassified ==
  ASSUME Histories, NEW c \in Currencies, NEW old \in history[c], NEW new, RowOK(c, new),
         new.period = old.period, Safe(new), NEW v \in Versions, v <= deployed,
         Classified(c, new, v), history' = [history EXCEPT ![c] = (@ \ {old}) \cup {new}],
         warrant' = [warrant EXCEPT ![c][old.period] = v], deployed' = deployed
  PROVE  Histories'
<1> DEFINE p == old.period
<1>1. /\ history'[c] = (history[c] \ {old}) \cup {new}
      /\ \A d \in Currencies \ {c} : history'[d] = history[d]
  BY DEF Histories
<1>2. new \in Rows /\ p \in Periods
  BY DEF RowOK, Rows
<1>3. /\ warrant'[c][p] = v
      /\ \A q \in Periods \ {p} : warrant'[c][q] = warrant[c][q]
      /\ \A d \in Currencies \ {c} : warrant'[d] = warrant[d]
  BY <1>2 DEF Histories
<1>4. history' \in [Currencies -> SUBSET Rows]
  BY <1>2 DEF Histories
<1>5. warrant' \in [Currencies -> [Periods -> {0} \cup Versions]]
  BY <1>2 DEF Histories
<1>6. HistoryOK(c, history'[c])
  <2>1. IsFiniteSet(history[c]) /\ \A r \in history[c] : RowOK(c, r)
    BY DEF Histories, HistoryOK
  <2>2. IsFiniteSet(history[c] \ {old})
    BY <2>1, FS_RemoveElement
  <2>3. IsFiniteSet(history'[c])
    BY <1>1, <2>2, FS_AddElement
  <2> QED
    BY <1>1, <2>1, <2>3 DEF HistoryOK
<1>7. \A r \in history'[c] : r = new \/ (r \in history[c] /\ r.period # p)
  BY <1>1 DEF Histories, Warranted
<1>8. \A r \in history[c] : r.period # p => r \in history'[c]
  BY <1>1
<1>9. \A r \in history[c] : r.period \in Periods
  BY DEF Histories, Rows
<1>10. new \in history'[c] /\ new.period = p
  BY <1>1
<1>11. Warranted(c)
  BY DEF Histories
<1> HIDE DEF p
<1>12. Warranted(c)'
  <2>1. \A r, x \in history'[c] : r.period = x.period => r = x
    BY <1>7, <1>10, <1>11 DEF Warranted
  <2>2. ASSUME NEW q \in Periods
        PROVE  /\ warrant'[c][q] # 0 => \E r \in history'[c] : r.period = q /\ Safe(r)
               /\ warrant'[c][q] <= deployed
    <3>1. CASE q = p
      BY <1>3, <1>10, <3>1
    <3>2. CASE q # p
      BY <1>3, <1>8, <1>11, <3>2 DEF Warranted
    <3> QED
      BY <3>1, <3>2
  <2>3. \A r \in history'[c] : Safe(r) => /\ warrant'[c][r.period] \in Versions
                                          /\ Classified(c, r, warrant'[c][r.period])
    BY <1>3, <1>7, <1>9, <1>10, <1>11 DEF Warranted
  <2> QED
    BY <2>1, <2>2, <2>3 DEF Warranted
<1>13. \A d \in Currencies \ {c} : HistoryOK(d, history'[d]) /\ Warranted(d)'
  BY <1>1, <1>3 DEF Histories, Warranted
<1> QED
  BY <1>4, <1>5, <1>6, <1>12, <1>13 DEF Histories

\* Reports are of periods and values, which no run changes.
LEMMA ReportsOutlastTiming ==
  ASSUME Acknowledged, DOMAIN history = Currencies, NEW c \in Currencies, NEW old, NEW new,
         new.period = old.period, new.value = old.value, acknowledged' = acknowledged,
         history' = [history EXCEPT ![c] = (@ \ {old}) \cup {new}]
  PROVE  Acknowledged'
<1>1. SUFFICES ASSUME NEW a \in acknowledged
               PROVE  \E r \in history'[a.currency] : r.period = a.period /\ r.value = a.value
  BY DEF Acknowledged, AcknowledgedIsStored
<1>2. a.currency \in Currencies
  BY DEF Acknowledged
<1>3. PICK r \in history[a.currency] : r.period = a.period /\ r.value = a.value
  BY DEF Acknowledged, AcknowledgedIsStored
<1>4. CASE a.currency = c
  <2>1. history'[c] = (history[c] \ {old}) \cup {new}
    OBVIOUS
  <2> QED
    BY <1>3, <1>4, <2>1
<1>5. CASE a.currency # c
  BY <1>2, <1>3, <1>5
<1> QED
  BY <1>4, <1>5

\* The rewriting of a row, and the end of the run if it was the last.
LEMMA RewriteKeeps ==
  ASSUME IInv, NEW w \in Workers, pc[w] \in {"replace", "correct"}, NEW u \in todo[w],
         NEW old \in history[job[w].currency], old.period = u.period,
         NEW new, new.period = old.period, new.value = old.value, Safe(new),
         RowOK(job[w].currency, new), Classified(job[w].currency, new, job[w].version),
         Rewrite(w, u, old, new), UNCHANGED <<made, deployed, acknowledged, answer>>
  PROVE  IInv'
<1>1. job[w].currency \in Currencies /\ job[w].version \in Versions /\ job[w].version <= deployed
  BY DEF IInv, Jobs, JobOK, RunOK
<1>2. /\ history' = [history EXCEPT ![job[w].currency] = (@ \ {old}) \cup {new}]
      /\ warrant' = [warrant EXCEPT ![job[w].currency][old.period] = job[w].version]
  BY DEF Rewrite
<1>3. Histories'
  BY <1>1, <1>2, Reclassified DEF IInv
<1>4. Acknowledged'
  BY <1>1, <1>2, ReportsOutlastTiming DEF IInv, Histories
<1>5. AnswerOK'
  BY AnswerStands DEF IInv
<1>6. Control' /\ Jobs'
  <2>1. CASE End(w, "DONE")
    BY <2>1, EndKeeps DEF Ends
  <2>2. CASE todo' = [todo EXCEPT ![w] = todo[w] \ {u}] /\ UNCHANGED <<pc, job, held, outcome>>
    BY <2>2, LessToWrite
  <2> QED
    BY <2>1, <2>2 DEF Rewrite
<1> QED
  BY <1>3, <1>4, <1>5, <1>6 DEF IInv

\* A refused update changes no row.
LEMMA RefuseKeeps ==
  ASSUME IInv, NEW w \in Workers, NEW error \in Ends, Refuse(w, error),
         UNCHANGED <<made, deployed, acknowledged, answer>>
  PROVE  IInv'
<1>1. End(w, error) /\ UNCHANGED <<history, warrant>>
  BY DEF Refuse
<1>2. deployed' \in Versions /\ deployed <= deployed'
  BY VersionsAreNumbers DEF IInv, Histories
<1>3. Histories' /\ Acknowledged' /\ AnswerOK'
  BY <1>1, <1>2, HistoriesStand, ReportsStand, AnswerStands DEF IInv
<1>4. Control' /\ Jobs'
  BY <1>1, EndKeeps
<1> QED
  BY <1>3, <1>4 DEF IInv

\* The row a run is about to write, and the resolution it has for it.
LEMMA WritesArePending ==
  ASSUME IInv, NEW w \in Workers, pc[w] \in {"replace", "correct"}, NEW u \in todo[w]
  PROVE  /\ job[w].currency \in Currencies /\ job[w].version \in Versions
         /\ u.period \in Periods /\ u.read.revision = 0
         /\ u.resolution \in Registries[job[w].version][job[w].currency][u.period]
         /\ u.resolution.exact \in BOOLEAN /\ u.resolution.released \in Int
         /\ u.resolution.effective \subseteq Int
         /\ pc[w] = "correct" => Corrects(job[w], u)
<1>1. RunOK(deployed, pc[w], job[w], todo[w], held[w])
  BY DEF IInv, Jobs, JobOK
<1>2. /\ job[w].currency \in Currencies /\ job[w].version \in Versions /\ Pending(job[w], u)
      /\ pc[w] = "correct" => Corrects(job[w], u)
  BY <1>1 DEF RunOK
<1>3. /\ u.period \in Periods /\ u.read.revision = 0
      /\ u.resolution \in Registries[job[w].version][job[w].currency][u.period]
  BY <1>2 DEF Pending
<1>4. u.resolution \in Resolutions(job[w].currency, u.period)
  BY <1>2, <1>3 DEF Resolutions
<1>5. /\ u.resolution.exact \in BOOLEAN /\ u.resolution.released \in Int
      /\ u.resolution.effective \subseteq Int
  BY <1>2, <1>3, <1>4, TimingAssumption
<1> QED
  BY <1>2, <1>3, <1>5

\* Replaced timing is what the run's version resolved.
LEMMA ReplaceTimingKeeps ==
  ASSUME IInv, NEW w \in Workers, ReplaceTiming(w)
  PROVE  IInv'
<1> DEFINE c == job[w].currency
<1>1. pc[w] = "replace" /\ UNCHANGED <<made, deployed, acknowledged, answer>>
  BY DEF ReplaceTiming
<1>2. PICK u \in todo[w], old \in history[c] :
        \/ /\ old.period = u.period /\ ~Safe(old)
           /\ Rewrite(w, u, old, [old EXCEPT !.released = u.resolution.released,
                                             !.effective = u.resolution.effective,
                                             !.verified = u.resolution.exact,
                                             !.bound = ~u.resolution.exact])
        \/ Refuse(w, "ALREADY_CLASSIFIED")
  BY DEF ReplaceTiming, Earliest, At
<1>3. CASE Refuse(w, "ALREADY_CLASSIFIED")
  BY <1>1, <1>3, RefuseKeeps DEF Ends
<1> DEFINE x == u.resolution
           new == [old EXCEPT !.released = x.released, !.effective = x.effective,
                              !.verified = x.exact, !.bound = ~x.exact]
<1>4. CASE old.period = u.period /\ Rewrite(w, u, old, new)
  <2>1. /\ c \in Currencies /\ job[w].version \in Versions
        /\ x \in Registries[job[w].version][c][u.period]
        /\ x.exact \in BOOLEAN /\ x.released \in Int /\ x.effective \subseteq Int
    BY <1>1, WritesArePending
  <2>2. old \in history[c] /\ old.period = u.period
    BY <1>4
  <2>3. old \in Rows
    BY <2>1, <2>2 DEF IInv, Histories
  <2>4. /\ new \in Rows /\ new.period = old.period /\ new.value = old.value
        /\ new.released = x.released /\ new.effective = x.effective
        /\ new.verified = x.exact /\ new.bound = ~x.exact
    BY <2>1, <2>3 DEF Rows
  <2> HIDE DEF c, x, new
  <2>5. Safe(new) /\ ~(new.verified /\ new.bound)
    BY <2>1, <2>4 DEF Safe
  <2>6. Classified(c, new, job[w].version)
    BY <2>1, <2>2, <2>4 DEF Classified, SameTiming
  <2>7. RowOK(c, new)
    BY <2>1, <2>4, <2>5, <2>6 DEF RowOK
  <2> QED
    BY <1>1, <1>4, <2>2, <2>4, <2>5, <2>6, <2>7, RewriteKeeps DEF c
<1> QED
  BY <1>2, <1>3, <1>4

\* Corrected timing is what the run's version resolved.
LEMMA CorrectTimingKeeps ==
  ASSUME IInv, NEW w \in Workers, CorrectTiming(w)
  PROVE  IInv'
<1> DEFINE c == job[w].currency
<1>1. pc[w] = "correct" /\ UNCHANGED <<made, deployed, acknowledged, answer>>
  BY DEF CorrectTiming
<1>2. PICK u \in todo[w], old \in history[c] :
        \/ /\ old.period = u.period /\ AsRead(old, u.read)
           /\ Rewrite(w, u, old, [old EXCEPT !.released = u.resolution.released,
                                             !.effective = u.resolution.effective])
        \/ Refuse(w, "STALE_CORRECTION")
  BY DEF CorrectTiming, Earliest, At
<1>3. CASE Refuse(w, "STALE_CORRECTION")
  BY <1>1, <1>3, RefuseKeeps DEF Ends
<1> DEFINE x == u.resolution
           new == [old EXCEPT !.released = x.released, !.effective = x.effective]
<1>4. CASE old.period = u.period /\ AsRead(old, u.read) /\ Rewrite(w, u, old, new)
  <2>1. /\ c \in Currencies /\ job[w].version \in Versions
        /\ x \in Registries[job[w].version][c][u.period]
        /\ x.released \in Int /\ x.effective \subseteq Int /\ x.exact
    BY <1>1, WritesArePending DEF Corrects
  <2>2. old \in history[c] /\ old.period = u.period /\ old.verified
    BY <1>4 DEF AsRead
  <2>3. old \in Rows /\ ~(old.verified /\ old.bound)
    BY <2>1, <2>2 DEF IInv, Histories, HistoryOK, RowOK
  <2>4. /\ new \in Rows /\ new.period = old.period /\ new.value = old.value
        /\ new.released = x.released /\ new.effective = x.effective
        /\ new.verified = old.verified /\ new.bound = old.bound
    BY <2>1, <2>3 DEF Rows
  <2>5. old.verified \in BOOLEAN /\ x.exact \in BOOLEAN
    BY <1>1, <2>3, WritesArePending DEF Rows
  <2> HIDE DEF c, x, new
  <2>6. Safe(new) /\ ~(new.verified /\ new.bound)
    BY <2>2, <2>3, <2>4 DEF Safe
  <2>7. Classified(c, new, job[w].version)
    BY <2>1, <2>2, <2>4, <2>5 DEF Classified, SameTiming
  <2>8. RowOK(c, new)
    BY <2>1, <2>4, <2>6, <2>7 DEF RowOK
  <2>9. Rewrite(w, u, old, new)
    BY <1>4
  <2> QED
    BY <1>1, <2>2, <2>4, <2>6, <2>7, <2>8, <2>9, RewriteKeeps DEF c
<1> QED
  BY <1>2, <1>3, <1>4

-----------------------------------------------------------------------------
(* ComputePolicyRateDifferential.                                          *)

\* Research begins with a pair of currencies and an instant.
LEMMA StartResearchKeeps ==
  ASSUME IInv, NEW w \in Workers, StartResearch(w)
  PROVE  IInv'
<1>1. PICK pair \in Pairs, t \in ResearchedAt, s \in {"ANNOUNCED", "EFFECTIVE"} :
        Start(w, "base", [version |-> deployed, base |-> pair[1], quote |-> pair[2],
                          as_of |-> t, semantics |-> s], {})
  BY DEF StartResearch
<1> DEFINE run == [version |-> deployed, base |-> pair[1], quote |-> pair[2],
                   as_of |-> t, semantics |-> s]
<1>2. run.version \in Versions /\ deployed <= run.version
  BY VersionsAreNumbers DEF IInv, Histories
<1>3. pair[1] \in Currencies /\ pair[2] \in Currencies /\ t \in Int
  BY RatesAssumption
<1>4. RunOK(run.version, "base", run, {}, held[w])
  BY <1>3 DEF RunOK
<1> HIDE DEF run
<1> QED
  BY <1>1, <1>2, <1>4, StartKeeps DEF Steps, run

\* A history read is one that was stored.
LEMMA ReadBaseKeeps ==
  ASSUME IInv, NEW w \in Workers, ReadBase(w)
  PROVE  IInv'
<1>1. /\ pc[w] = "base" /\ held' = [held EXCEPT ![w] = history[job[w].base]]
      /\ pc' = [pc EXCEPT ![w] = "quote"]
      /\ UNCHANGED <<history, job, todo, outcome, made, deployed, acknowledged, warrant, answer>>
  BY DEF ReadBase
<1>2. deployed' \in Versions /\ deployed <= deployed'
  BY <1>1, VersionsAreNumbers DEF IInv, Histories
<1>3. Histories' /\ Acknowledged' /\ AnswerOK'
  BY <1>1, <1>2, HistoriesStand, ReportsStand, AnswerStands DEF IInv
<1>4. Control'
  BY <1>1 DEF IInv, Control, Steps
<1>5. RunOK(deployed, pc[w], job[w], todo[w], held[w])
  BY DEF IInv, Jobs, JobOK
<1>6. pc'[w] = "quote" /\ held'[w] = history[job[w].base] /\ job'[w] = job[w]
  BY <1>1 DEF IInv, Control
<1>7. HistoryOK(job[w].base, held'[w])
  BY <1>1, <1>5, <1>6 DEF RunOK, IInv, Histories
<1>8. RunOK(deployed', pc'[w], job'[w], todo'[w], held'[w])
  BY <1>1, <1>5, <1>6, <1>7 DEF RunOK
<1>9. \A v \in Workers \ {w} : /\ pc'[v] = pc[v] /\ job'[v] = job[v]
                               /\ todo'[v] = todo[v] /\ held'[v] = held[v]
  BY <1>1 DEF IInv, Control
<1>10. Jobs'
  BY <1>2, <1>8, <1>9, OthersStand
<1> QED
  BY <1>3, <1>4, <1>10 DEF IInv

\* A feature is made of histories that are ready.
LEMMA FeaturesAreReady ==
  ASSUME NEW s, NEW base, NEW quote, NEW t, Feature(s, base, quote, t).kind = "FEATURE"
  PROVE  Ready(base, Window(s, base, t)) /\ Ready(quote, Window(s, quote, t))
<1>1. ASSUME \E rows \in {base, quote} : ~Ready(rows, Window(s, rows, t)) PROVE FALSE
  <2>1. Feature(s, base, quote, t) = [kind |-> "NOT_READY"]
    BY <1>1 DEF Feature
  <2> QED
    BY <2>1
<1> QED
  BY <1>1

\* The answer is about the history held and the one read now.
LEMMA ReadQuoteKeeps ==
  ASSUME IInv, NEW w \in Workers, ReadQuote(w)
  PROVE  IInv'
<1> DEFINE j == job[w]
           quote == history[j.quote]
           result == Feature(j.semantics, held[w], quote, j.as_of)
<1>1. /\ pc[w] = "quote" /\ End(w, "DONE")
      /\ UNCHANGED <<history, made, deployed, acknowledged, warrant>>
      /\ answer' = IF result.kind # "FEATURE" THEN result
                   ELSE [kind |-> "FEATURE", feature |-> result, asked |-> j,
                         base |-> held[w], quote |-> quote]
  BY DEF ReadQuote
<1>2. deployed' \in Versions /\ deployed <= deployed'
  BY <1>1, VersionsAreNumbers DEF IInv, Histories
<1>3. Histories' /\ Acknowledged'
  BY <1>1, <1>2, HistoriesStand, ReportsStand DEF IInv
<1>4. Control' /\ Jobs'
  BY <1>1, EndKeeps DEF Ends
<1>5. AnswerOK'
  <2>1. CASE result.kind # "FEATURE"
    <3>1. ~Certified'
      BY <1>1, <2>1 DEF Certified
    <3> QED
      BY <3>1 DEF AnswerOK
  <2>2. CASE result.kind = "FEATURE"
    <3>1. /\ j.base \in Currencies /\ j.quote \in Currencies /\ j.as_of \in Int
          /\ j.semantics \in {"ANNOUNCED", "EFFECTIVE"} /\ HistoryOK(j.base, held[w])
      BY <1>1 DEF IInv, Jobs, JobOK, RunOK
    <3>2. HistoryOK(j.quote, quote)
      BY <3>1 DEF IInv, Histories
    <3>3. /\ Ready(held[w], Window(j.semantics, held[w], j.as_of))
          /\ Ready(quote, Window(j.semantics, quote, j.as_of))
      BY <2>2, FeaturesAreReady
    <3>4. /\ answer'.asked = j /\ answer'.base = held[w] /\ answer'.quote = quote
      BY <1>1, <2>2
    <3> HIDE DEF j, quote, result
    <3>5. Legs' = {[currency |-> j.base, rows |-> held[w]], [currency |-> j.quote, rows |-> quote]}
      BY <3>4 DEF Legs
    <3> QED
      BY <3>1, <3>2, <3>3, <3>4, <3>5 DEF AnswerOK
  <2> QED
    BY <2>1, <2>2
<1> QED
  BY <1>3, <1>4, <1>5 DEF IInv

-----------------------------------------------------------------------------
(* The invariant.                                                          *)

\* Nothing is stored, classified, reported or answered at first.
LEMMA InitHolds == Init => IInv
<1> SUFFICES ASSUME Init PROVE IInv
  OBVIOUS
<1>1. Control
  BY RatesAssumption DEF Init, Control, Steps, Ends
<1>2. Jobs
  BY DEF Init, Jobs, JobOK, RunOK
<1>3. Histories
  <2>1. \A c \in Currencies : history[c] = {} /\ \A p \in Periods : warrant[c][p] = 0
    BY DEF Init
  <2>2. deployed \in Versions /\ deployed = 1
    BY RatesAssumption DEF Init
  <2>3. \A c \in Currencies : HistoryOK(c, history[c]) /\ Warranted(c)
    BY <2>1, <2>2, FS_EmptySet DEF HistoryOK, Warranted
  <2>4. history \in [Currencies -> SUBSET Rows]
        /\ warrant \in [Currencies -> [Periods -> {0} \cup Versions]]
    BY DEF Init
  <2> QED
    BY <2>2, <2>3, <2>4 DEF Histories
<1>4. Acknowledged /\ AnswerOK
  BY DEF Init, Acknowledged, AcknowledgedIsStored, AnswerOK, Certified
<1> QED
  BY <1>1, <1>2, <1>3, <1>4 DEF IInv

\* Steps of the rest of the system change none of it.
LEMMA StutterKeeps == IInv /\ UNCHANGED vars => IInv'
<1> SUFFICES ASSUME IInv, UNCHANGED vars PROVE IInv'
  OBVIOUS
<1>1. Control' /\ Jobs'
  BY DEF IInv, Control, Jobs, JobOK, vars
<1>2. deployed' \in Versions /\ deployed <= deployed'
  BY VersionsAreNumbers DEF IInv, Histories, vars
<1>3. Histories' /\ Acknowledged' /\ AnswerOK'
  BY <1>2, HistoriesStand, ReportsStand, AnswerStands DEF IInv, vars
<1> QED
  BY <1>1, <1>3 DEF IInv

\* Every step of every script keeps the invariant.
LEMMA StepHolds ==
  ASSUME IInv, NEW w \in Workers, Step(w)
  PROVE  IInv'
<1>1. CASE StartBackfill(w)
  BY <1>1, StartBackfillKeeps
<1>2. CASE FetchEra(w)
  BY <1>2, FetchEraKeeps
<1>3. CASE AddVintage(w)
  BY <1>3, AddVintageKeeps
<1>4. CASE StartVerification(w)
  BY <1>4, StartVerificationKeeps
<1>5. CASE ReplaceTiming(w)
  BY <1>5, ReplaceTimingKeeps
<1>6. CASE StartRemediation(w)
  BY <1>6, StartRemediationKeeps
<1>7. CASE CorrectTiming(w)
  BY <1>7, CorrectTimingKeeps
<1>8. CASE StartResearch(w)
  BY <1>8, StartResearchKeeps
<1>9. CASE ReadBase(w)
  BY <1>9, ReadBaseKeeps
<1>10. CASE ReadQuote(w)
  BY <1>10, ReadQuoteKeeps
<1> QED
  BY <1>1, <1>2, <1>3, <1>4, <1>5, <1>6, <1>7, <1>8, <1>9, <1>10 DEF Step

\* The invariant holds of every behaviour.
LEMMA InvariantHolds == Spec => []IInv
<1>1. IInv /\ [Next]_vars => IInv'
  BY StepHolds, StutterKeeps DEF Next
<1> QED
  BY <1>1, InitHolds, PTL DEF Spec

-----------------------------------------------------------------------------
(* Theorems.                                                               *)

\* Histories and the control of their scripts stay well formed: one row of a
\* period, its timing verified or bounded or neither, by a known version.
THEOREM TypeCorrect == Spec => []TypeOK
<1>1. IInv => TypeOK
  <2> SUFFICES ASSUME IInv PROVE TypeOK
    OBVIOUS
  <2>1. ASSUME NEW c \in Currencies, NEW r \in history[c], NEW x \in history[c]
        PROVE  ~(r.verified /\ r.bound) /\ (r.period = x.period => r = x)
    BY DEF IInv, Histories, HistoryOK, RowOK, Warranted
  <2>2. /\ history \in [Currencies -> SUBSET Rows] /\ deployed \in Versions
        /\ warrant \in [Currencies -> [Periods -> {0} \cup Versions]]
    BY DEF IInv, Histories
  <2> QED
    BY <2>1, <2>2 DEF IInv, Control, TypeOK
<1> QED
  BY <1>1, InvariantHolds, PTL

\* What a backfill has reported stays stored with that value, whatever is published
\* and classified afterwards (add_vintage, and the updates of the two timing scripts).
THEOREM ReportsAreKept == Spec => []AcknowledgedIsStored
<1>1. IInv => AcknowledgedIsStored
  BY DEF IInv, Acknowledged
<1> QED
  BY <1>1, InvariantHolds, PTL

\* A differential is computed only from decisions that were public at the instant
\* each is used for (ComputePolicyRateDifferential).  It rests on Truthful: no version
\* times a decision before its announcement, or beyond the margin of the window.
THEOREM NothingForeseen == Spec => []NoLookAhead
<1>1. IInv => NoLookAhead
  <2> SUFFICES ASSUME IInv, Certified PROVE NoLookAhead
    BY DEF NoLookAhead
  <2> DEFINE t == answer.asked.as_of
             s == answer.asked.semantics
  <2>1. t \in Int /\ s \in {"ANNOUNCED", "EFFECTIVE"}
    BY DEF IInv, AnswerOK
  <2>2. \A leg \in Legs : /\ leg.currency \in Currencies /\ HistoryOK(leg.currency, leg.rows)
                          /\ Ready(leg.rows, Window(s, leg.rows, t))
    BY DEF IInv, AnswerOK
  <2> HIDE DEF t, s
  <2>3. ASSUME NEW leg \in Legs
        PROVE  /\ \A r \in Previous(s, leg.rows, t) : AnnouncedAt[leg.currency][r.period] <= t
               /\ \A u \in {t, t - ThreeMonths, t - SixMonths} :
                    \A r \in State(s, leg.rows, u) : AnnouncedAt[leg.currency][r.period] <= u
    BY <2>1, <2>2, NothingAhead
  <2> QED
    BY <2>3 DEF NoLookAhead, t, s
<1> QED
  BY <1>1, InvariantHolds, PTL

\* A feature passes over a decision that was public and newer only if that decision
\* is classified as released later, or is stored beyond the instant and the margin
\* (research_readiness on _readiness_window).
THEOREM NothingPassedOverUnexamined == Spec => []NothingNewerUnexamined
<1>1. IInv => NothingNewerUnexamined
  <2> SUFFICES ASSUME IInv, Certified, answer.asked.semantics = "ANNOUNCED"
               PROVE  NothingNewerUnexamined
    BY DEF NothingNewerUnexamined
  <2> DEFINE t == answer.asked.as_of
  <2>1. t \in Int
    BY DEF IInv, AnswerOK
  <2>2. \A leg \in Legs : /\ HistoryOK(leg.currency, leg.rows)
                          /\ Ready(leg.rows, Window("ANNOUNCED", leg.rows, t))
    BY DEF IInv, AnswerOK
  <2> HIDE DEF t
  <2>3. ASSUME NEW leg \in Legs, NEW n \in Announced(leg.rows, t), NEW r \in leg.rows,
               r.period > n.period
        PROVE  \/ Safe(r) /\ r.released > t
               \/ ~Safe(r) /\ r.period > t /\ r.period > n.period + AxisSafetyMargin
    BY <2>1, <2>2, <2>3, NothingPassedOver
  <2> QED
    BY <2>3 DEF NothingNewerUnexamined, t
<1> QED
  BY <1>1, InvariantHolds, PTL

\* A row is replaced only while no version has classified it.
LEMMA ReplacedIsUnclassified ==
  ASSUME Histories, NEW c \in Currencies, NEW old \in history[c], ~Safe(old)
  PROVE  warrant[c][old.period] = 0
<1>1. old.period \in Periods
  BY DEF Histories, Rows
<1> QED
  BY <1>1 DEF Histories, Warranted

\* A row is corrected only by the version that last classified it, or a newer one.
LEMMA CorrectedIsNotNewer ==
  ASSUME Histories, NEW c \in Currencies, NEW old \in history[c],
         NEW j, j.currency = c, j.version \in Versions,
         NEW u, u.period = old.period, Corrects(j, u), AsRead(old, u.read),
         u.resolution \in Registries[j.version][c][u.period]
  PROVE  warrant[c][u.period] <= j.version
<1> DEFINE n == warrant[c][u.period]
<1>1. old.verified /\ SameTiming(old, u.read)
  BY DEF AsRead, SameTiming
<1>2. n \in Versions /\ Classified(c, old, n)
  BY <1>1 DEF Histories, Warranted, Safe
<1>3. PICK z \in Registries[n][c][u.period] : SameTiming(old, z) /\ old.verified = z.exact
  BY <1>2 DEF Classified
<1>4. PICK v \in Versions : v <= j.version /\ \E x \in Registries[v][c][u.period] :
                                                 x.exact /\ SameTiming(u.read, x)
  BY DEF Corrects
<1>5. PICK x \in Registries[v][c][u.period] : x.exact /\ SameTiming(u.read, x)
  BY <1>4
<1>6. /\ SameTiming(x, z) /\ ~SameTiming(x, u.resolution)
      /\ x.exact /\ u.resolution.exact /\ z.exact
  BY <1>1, <1>3, <1>5 DEF Corrects, SameTiming
<1>7. u.period \in Periods
  BY DEF Histories, Rows
<1> HIDE DEF n
<1>8. ~(j.version <= n)
  BY <1>2, <1>3, <1>4, <1>5, <1>6, <1>7, TimingAssumption DEF NeverReverts
<1> QED
  BY <1>2, <1>8, VersionsAreNumbers DEF n

\* Timing evidence is never replaced by an older version's, however the timing
\* scripts interleave (the predicates of replace_provisional_release_timing and
\* correct_verified_release_timing).  It rests on NeverReverts: the predicate of a
\* correction compares the timing read, which says nothing of what came between.
THEOREM NewerEvidenceIsKept == Spec => NewerEvidenceStands
<1> DEFINE Grows == \A c \in Currencies, p \in Periods : warrant'[c][p] >= warrant[c][p]
<1>1. ASSUME IInv, NEW w \in Workers, NEW u \in todo[w], pc[w] \in {"replace", "correct"},
             NEW old, NEW new, Rewrite(w, u, old, new),
             warrant[job[w].currency][u.period] <= job[w].version
      PROVE  Grows
  <2>1. job[w].currency \in Currencies /\ u.period \in Periods /\ job[w].version \in Versions
    BY <1>1, WritesArePending
  <2>2. warrant' = [warrant EXCEPT ![job[w].currency][u.period] = job[w].version]
    BY <1>1 DEF Rewrite
  <2>3. \A c \in Currencies, p \in Periods : warrant[c][p] \in Nat
    BY <1>1, VersionsAreNumbers DEF IInv, Histories
  <2>4. job[w].version \in Nat
    BY <2>1, VersionsAreNumbers
  <2>5. \A c \in Currencies, p \in Periods :
          warrant'[c][p] = IF c = job[w].currency /\ p = u.period THEN job[w].version
                           ELSE warrant[c][p]
    BY <1>1, <2>1, <2>2 DEF IInv, Histories
  <2> QED
    BY <1>1, <2>3, <2>4, <2>5
<1>2. ASSUME IInv, warrant' = warrant PROVE Grows
  BY <1>2, VersionsAreNumbers DEF IInv, Histories
<1>3. ASSUME IInv, NEW w \in Workers, ReplaceTiming(w) PROVE Grows
  <2>1. PICK u \in todo[w], old \in history[job[w].currency] :
          \/ old.period = u.period /\ ~Safe(old) /\ \E new : Rewrite(w, u, old, new)
          \/ warrant' = warrant
    BY <1>3 DEF ReplaceTiming, Earliest, At, Refuse
  <2>2. pc[w] = "replace"
    BY <1>3 DEF ReplaceTiming
  <2>3. job[w].currency \in Currencies /\ job[w].version \in Nat
    BY <1>3, <2>2, WritesArePending, VersionsAreNumbers
  <2>4. ASSUME old.period = u.period, ~Safe(old), NEW new, Rewrite(w, u, old, new) PROVE Grows
    <3>1. warrant[job[w].currency][u.period] = 0
      BY <1>3, <2>3, <2>4, ReplacedIsUnclassified DEF IInv
    <3> QED
      BY <1>1, <1>3, <2>2, <2>3, <2>4, <3>1
  <2> QED
    BY <1>2, <1>3, <2>1, <2>4
<1>4. ASSUME IInv, NEW w \in Workers, CorrectTiming(w) PROVE Grows
  <2>1. PICK u \in todo[w], old \in history[job[w].currency] :
          \/ old.period = u.period /\ AsRead(old, u.read) /\ \E new : Rewrite(w, u, old, new)
          \/ warrant' = warrant
    BY <1>4 DEF CorrectTiming, Earliest, At, Refuse
  <2>2. pc[w] = "correct"
    BY <1>4 DEF CorrectTiming
  <2>3. /\ job[w].currency \in Currencies /\ job[w].version \in Versions
        /\ u.resolution \in Registries[job[w].version][job[w].currency][u.period]
        /\ Corrects(job[w], u)
    BY <1>4, <2>2, WritesArePending
  <2>4. ASSUME old.period = u.period, AsRead(old, u.read), NEW new, Rewrite(w, u, old, new)
        PROVE  Grows
    <3>1. warrant[job[w].currency][u.period] <= job[w].version
      BY <1>4, <2>3, <2>4, CorrectedIsNotNewer DEF IInv
    <3> QED
      BY <1>1, <1>4, <2>2, <2>4, <3>1
  <2> QED
    BY <1>2, <1>4, <2>1, <2>4
<1>5. IInv /\ [Next]_vars => [Grows]_vars
  <2> SUFFICES ASSUME IInv, NEW w \in Workers, Step(w) PROVE Grows
    BY DEF Next
  <2>1. ReplaceTiming(w) \/ CorrectTiming(w) \/ warrant' = warrant
    BY DEF Step, StartBackfill, FetchEra, AddVintage, StartVerification, StartRemediation,
           StartResearch, ReadBase, ReadQuote, Start
  <2> QED
    BY <1>2, <1>3, <1>4, <2>1
<1> QED
  BY <1>5, InvariantHolds, PTL DEF Spec, NewerEvidenceStands
=============================================================================

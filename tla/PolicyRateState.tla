--------------------------- MODULE PolicyRateState ---------------------------
(***************************************************************************)
(* What a stored policy-rate history says about an instant, and whether it *)
(* may be trusted: policy_rate_state, research_readiness and the feature   *)
(* ComputePolicyRateDifferential makes of two currencies' histories.       *)
(*                                                                         *)
(* A history is a set of vintages                                          *)
(*   [period, revision, value, released, effective, verified, bound];      *)
(* effective is {} where the code has None.  The states below are sets of  *)
(* at most one vintage, {} again standing for None.                        *)
(***************************************************************************)
EXTENDS Integers, FiniteSets, FiniteSetsExt

CONSTANTS ThreeMonths, SixMonths,
          AxisSafetyMargin    \* pads the window the readiness check examines

-----------------------------------------------------------------------------
(* policy_rate_state.                                                      *)

ReleasedBy(rows, t) == {r \in rows : r.released <= t}

\* The latest period, by its latest admissible revision.
LatestObservation(rows) ==
    {r \in rows : \A x \in rows :
        \/ x.period < r.period
        \/ /\ x.period = r.period
           /\ \/ x.released < r.released
              \/ x.released = r.released /\ x.revision <= r.revision}

LatestEffective(rows) ==
    {r \in rows : \A x \in rows : \A e \in r.effective, f \in x.effective :
        \/ f < e
        \/ f = e /\ x.revision <= r.revision}

\* A decision among later, or a correction of c itself among known, is out
\* whose effective date is not established.
Unresolved(c, later, known) ==
    \/ \E v \in later : v.effective = {} /\ v.period > c.period
    \/ \E v \in known : v.effective = {} /\ v.period = c.period /\ v.revision > c.revision

Announced(rows, t) == LatestObservation(ReleasedBy(rows, t))

Effective(rows, t) ==
    LET known == ReleasedBy(rows, t)
    IN {c \in LatestEffective({r \in known : \E e \in r.effective : e <= t}) :
          ~Unresolved(c, known, known)}

PreviousAnnounced(rows, current, t) ==
    LatestObservation({r \in ReleasedBy(rows, t) : r.period < current.period})

PreviousEffective(rows, current, t) ==
    LET known == ReleasedBy(rows, t)
    IN {c \in LatestEffective({r \in known :
                \E e \in r.effective, f \in current.effective : e < f}) :
          ~Unresolved(c, {v \in known : v.period < current.period}, known)}

State(semantics, rows, t) ==
    IF semantics = "ANNOUNCED" THEN Announced(rows, t) ELSE Effective(rows, t)

Previous(semantics, rows, t) ==
    UNION {IF semantics = "ANNOUNCED" THEN PreviousAnnounced(rows, c, t)
           ELSE PreviousEffective(rows, c, t) : c \in State(semantics, rows, t)}

-----------------------------------------------------------------------------
(* research_readiness.                                                     *)

Safe(r) == r.verified \/ r.bound

\* The vintage in force when the window opens, and every one within it.
Candidates(rows, window) ==
    LET before == {r \in rows : r.period <= window.from}
    IN {r \in before : \A x \in before : \/ x.period < r.period
                                         \/ x.period = r.period /\ x.revision <= r.revision}
       \cup {r \in rows : window.from <= r.period /\ r.period <= window.to}

Ready(rows, window) ==
    /\ Candidates(rows, window) # {}
    /\ \A r \in Candidates(rows, window) : Safe(r)

\* Mutant: the lookbacks are not part of the window.
NoLookback(semantics, rows, t) ==
    LET periods == {r.period : r \in State(semantics, rows, t)}
    IN [from |-> t, to |-> Max({t} \cup {p + AxisSafetyMargin : p \in periods})]

\* Mutant: nothing behind the instant is examined.
NoPadding(semantics, rows, t) ==
    LET periods == {r.period : r \in State(semantics, rows, t) \cup Previous(semantics, rows, t)}
    IN [from |-> Min({t - SixMonths - AxisSafetyMargin} \cup {p - AxisSafetyMargin : p \in periods}),
        to |-> t]

\* _readiness_window, its end included.
Window(semantics, rows, t) ==
    LET current == {r.period : r \in State(semantics, rows, t)}
        reached == current \cup {r.period : r \in Previous(semantics, rows, t)}
    IN [from |-> Min({t - SixMonths - AxisSafetyMargin} \cup {p - AxisSafetyMargin : p \in reached}),
        to   |-> Max({t} \cup {p + AxisSafetyMargin : p \in current})]

-----------------------------------------------------------------------------
(* ComputePolicyRateDifferential.                                          *)

Difference(base, quote) == {b.value - q.value : b \in base, q \in quote}

\* When a leg's state took hold.
Since(semantics, r) == IF semantics = "ANNOUNCED" THEN {r.released} ELSE r.effective

\* The differential before the leg that moved last moved, or both at once.
DifferenceBefore(semantics, base, quote, t) ==
    LET b == CHOOSE r \in State(semantics, base, t) : TRUE
        q == CHOOSE r \in State(semantics, quote, t) : TRUE
        earlier(r, x) == \E m \in Since(semantics, r), n \in Since(semantics, x) : m < n
    IN Difference(IF earlier(b, q) THEN {b} ELSE Previous(semantics, base, t),
                  IF earlier(q, b) THEN {q} ELSE Previous(semantics, quote, t))

\* The outcome for a pair: raised, returned as unavailable, or a feature, whose
\* changes are {} where they cannot be computed.
Feature(semantics, base, quote, t) ==
    LET then(s) == Difference(State(semantics, base, s), State(semantics, quote, s))
        change(from) == {n - f : n \in then(t), f \in from}
    IN IF \E rows \in {base, quote} : ~Ready(rows, Window(semantics, rows, t))
       THEN [kind |-> "NOT_READY"]
       ELSE IF then(t) = {} THEN [kind |-> "UNAVAILABLE"]
       ELSE [kind |-> "FEATURE",
             differential |-> then(t),
             since_previous |-> change(DifferenceBefore(semantics, base, quote, t)),
             change_3m |-> change(then(t - ThreeMonths)),
             change_6m |-> change(then(t - SixMonths))]
=============================================================================

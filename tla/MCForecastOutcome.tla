-------------------------- MODULE MCForecastOutcome --------------------------
(* A small instance of ForecastOutcome for TLC. *)
EXTENDS ForecastOutcome

CONSTANTS k1, k2

Report(i, b, p, m) == [identity |-> i, basis |-> b, payload |-> p, provenance |-> m]

\* One basis read three ways and another basis, of one identity; another identity.
First  == Report("i1", "b1", "p1", "production")
Other  == Report("i1", "b1", "p2", "production")
Recast == Report("i1", "b1", "p1", "retrospective")
Second == Report("i1", "b2", "p2", "production")
Alien  == Report("i2", "b1", "p1", "production")

MCReports == {First, Other, Recast, Second, Alien}

Given(k, t, r, eligible, dry) ==
    [key |-> k, availability |-> t, says |-> r, eligible |-> eligible, dry |-> dry]

MCSubmissions ==
    {Given(k1, t, r, TRUE, FALSE) : t \in {0, 1}, r \in {First, Other, Second}}
    \cup {Given(k1, 1, Recast, TRUE, FALSE), Given(k1, 0, Alien, TRUE, FALSE),
          Given(k2, 0, First, TRUE, FALSE), Given(k2, 1, Alien, TRUE, TRUE),
          Given(k1, 1, First, TRUE, TRUE), Given(k1, 0, First, FALSE, FALSE)}
=============================================================================

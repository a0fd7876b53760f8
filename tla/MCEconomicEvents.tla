-------------------------- MODULE MCEconomicEvents --------------------------
(* An instance of EconomicEvents: a package of two indicators, once read as  *)
(* one, and a rate decision announced by a calendar, which may list it       *)
(* twice, and by a feed of press releases.                                   *)
EXTENDS EconomicEvents, TLC

Symmetric == Permutations(Workers)

Observed(i, indicators, fact) == [item |-> i, indicators |-> indicators, fact |-> fact]
Scheduled(d, h, s) == [date |-> d, time |-> h, status |-> s]
Released(d, h) == [date |-> d, time |-> h]

MCSchedules ==
    {<<Observed("jobs", <<"payrolls">>, Scheduled(1, {1}, "SCHEDULED"))>>,
     <<Observed("jobs", <<"payrolls", "unemployment", "hours">>, Scheduled(1, {1}, "SCHEDULED"))>>,
     <<Observed("ics", <<"rate">>, Scheduled(0, {}, "SCHEDULED"))>>,
     <<Observed("ics", <<"rate">>, Scheduled(0, {}, "CANCELLED")),
       Observed("ics2", <<"rate">>, Scheduled(0, {}, "SCHEDULED"))>>}

MCReleases == {<<Observed("rss", <<"rate">>, Released(0, {0}))>>}
=============================================================================

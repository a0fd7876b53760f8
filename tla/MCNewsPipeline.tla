--------------------------- MODULE MCNewsPipeline ---------------------------
(* A small instance of SourceRegistry, and with it of NewsPipeline, for TLC. *)
EXTENDS SourceRegistry, TLC

Content(u, b, c) ==
    [url |-> u, body |-> b, currencies |-> c, active |-> TRUE, eligible |-> TRUE,
     backfill |-> FALSE, corrects |-> FALSE, published |-> {0}]

Wire    == Content("u", "b", {"EUR"})
Copy    == [Content("u", "b", {"USD"}) EXCEPT !.published = {1}]
Digest  == [Content("none", "b", {"EUR", "USD"}) EXCEPT !.published = {}]
Pulled  == [Wire EXCEPT !.active = FALSE]
Suspect == [Copy EXCEPT !.eligible = FALSE, !.corrects = TRUE]

Response(observations) == [foreign |-> FALSE, observations |-> observations]
Seen(i, c) == [item |-> i, content |-> c]

MCChannelOrder == <<"press", "speeches">>
MCFeeds ==
    [press |-> {Response(<<Seen(1, Wire), Seen(2, Copy), Seen(1, Wire)>>),
                Response(<<Seen(1, Pulled), Seen(2, Suspect)>>),
                Response(<<Seen(1, Wire), Seen(1, Pulled)>>)},
     speeches |-> {Response(<<Seen(3, Digest), Seen(2, Copy)>>),
                   [foreign |-> TRUE, observations |-> <<Seen(3, Digest)>>]}]

MCReleases == {[version |-> "v1", overlooks |-> {}], [version |-> "v1", overlooks |-> {"USD"}]}

Verdict(i, j, k) == [left |-> i, right |-> j, kind |-> k]
MCVerdicts == {Verdict(1, 2, "NOT_SAME_STORY"), Verdict(1, 2, "SAME_STORY")}

Mapping(f, o, n) ==
    [feed |-> f, feedName |-> f, organization |-> o, organizationName |-> n]
Registry(m) == [policy |-> "fx62_v1", mappings |-> <<m>>]
MCRegistries ==
    {Registry(Mapping("FED", "BOARD", "Board")), Registry(Mapping("FED", "BOARD", "Renamed")),
     Registry(Mapping("FED", "FOMC", "Committee")), Registry(Mapping("BOARD", "FOMC", "Committee"))}

Reacts(s) == [kind |-> "RESPONSE", status |-> {s}]
MCReplies == {Reacts(200), Reacts(404), Reacts(503), [kind |-> "TIMEOUT", status |-> {}]}

Stored(contents) ==
    {[item |-> i, revision |-> 0, availability |-> 0, content |-> contents[i],
      channels |-> {"press"}] : i \in 1..Len(contents)}

Plan(together, most, tries, contents) ==
    [passes |-> together, runs |-> most, attempts |-> tries, stored |-> Stored(contents)]

MCPlans ==
    {Plan({"ingestion", "canonicalization", "review", "classification"}, 2, 0, <<Wire, Copy>>),
     Plan({"canonicalization", "review", "classification"}, 3, 0, <<Wire, Copy, Digest>>),
     Plan({"ingestion", "canonicalization"}, 3, 0, <<>>),
     Plan({"bootstrap"}, 3, 0, <<Wire, Suspect>>),
     Plan({"ingestion", "bootstrap"}, 2, 0, <<Wire, Suspect>>),
     Plan({"ingestion"}, 1, 2, <<>>)}

Symmetric == Permutations(Workers)
=============================================================================

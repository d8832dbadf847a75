---------------------------- MODULE MCDraftMonth ----------------------------
(* Small instances of DraftMonth for TLC. *)
EXTENDS DraftMonth

MCPillars == <<"A", "B", "General">>

\* A post of the month as its assembly or an earlier sentence left it.
Post(day, basis, pos) ==
  [day |-> day, format |-> IF pos = 1 THEN "reel" ELSE "single", pillar |-> IF pos = 1 THEN "A" ELSE "B",
   basis |-> basis, posts |-> IF basis = "observed" THEN 75 ELSE 0,
   avg |-> IF basis = "observed" THEN pos ELSE 0, touched |-> FALSE, own |-> FALSE,
   series |-> FALSE, pos |-> pos, subject |-> Unsaid, label |-> Unsaid]

Variants(pos) ==
  {Post(1, "template", pos), Post(6, "observed", pos), [Post(7, "observed", pos) EXCEPT !.series = TRUE],
   [Post(6, "client_input", pos) EXCEPT !.subject = "x"], [Post(2, "observed", pos) EXCEPT !.touched = TRUE],
   [Post(6, "observed", pos) EXCEPT !.own = TRUE]}

\* None yet; a post of any kind and one that is theirs or not; a launch with a post of the very same title after it.
MCMonths ==
  {<<>>} \cup {<<p, q>> : p \in Variants(1), q \in {Post(1, "template", 2), [Post(6, "observed", 2) EXCEPT !.touched = TRUE]}}
  \cup {<<[Post(2, "client_input", 1) EXCEPT !.subject = "x", !.label = "Tease"],
          [Post(7, "client_input", 2) EXCEPT !.subject = "x", !.label = "Launch"],
          [Post(day, "client_input", 3) EXCEPT !.subject = "x"]>> : day \in {2, 5, 9}}

Given(launch, tease, followUp) == [launch |-> launch, tease |-> tease, followUp |-> followUp]

MCSentences ==
  {[kind |-> "launch", subject |-> "x", day |-> day, given |-> given] :
     day \in {1, 4, 11}, given \in {Given(0, 0, 0), Given(0, 8, 2)}}
  \cup {[kind |-> "launch", subject |-> "x", day |-> 0, given |-> Given(launch, 3, 0)] : launch \in {0, 5}}
  \cup {[kind |-> "event", subject |-> "y", day |-> day] : day \in {0, 2, 12}}
  \cup {[kind |-> "series", subject |-> "x", listed |-> listed, day |-> 3, interval |-> 3, count |-> 3, until |-> until] :
          listed \in {<<>>, <<2, 2, 11>>}, until \in {0, 5}}
  \cup {[kind |-> "beat_spec", subject |-> "y", day |-> 4, format |-> "reel"],
        [kind |-> "beat_spec", subject |-> "y", day |-> -1, format |-> Unsaid],
        [kind |-> "beat_spec", subject |-> "y", day |-> 0, format |-> Unsaid]}
  \cup {[kind |-> "cadence", perWeek |-> 3, perMonth |-> n] : n \in {0, 6}}
  \cup {[kind |-> "cadence", perWeek |-> 0, perMonth |-> 2]}
  \cup {[kind |-> "emphasis", pillar |-> "A", format |-> Unsaid, ambiguous |-> FALSE],
        [kind |-> "emphasis", pillar |-> Unsaid, format |-> "reel", ambiguous |-> FALSE],
        [kind |-> "emphasis", pillar |-> Unsaid, format |-> Unsaid, ambiguous |-> FALSE],
        [kind |-> "emphasis", pillar |-> Unsaid, format |-> Unsaid, ambiguous |-> TRUE]}
  \cup {[kind |-> "beat_edit", edit |-> "drop", refDay |-> 0, refFormat |-> "reel", day |-> 0, format |-> Unsaid],
        [kind |-> "beat_edit", edit |-> "move", refDay |-> 6, refFormat |-> Unsaid, day |-> 12, format |-> Unsaid],
        [kind |-> "beat_edit", edit |-> "swap_format", refDay |-> 1, refFormat |-> "single", day |-> 0, format |-> "carousel"]}
  \cup {[kind |-> "correction", subject |-> "x", refDay |-> 6, day |-> 8, format |-> Unsaid, count |-> n] : n \in 0..2}
  \cup {[kind |-> "correction", subject |-> Unsaid, refDay |-> 6, day |-> 2, format |-> Unsaid, count |-> 1],
        [kind |-> "correction", subject |-> "x", refDay |-> 0, day |-> 0, format |-> "carousel", count |-> 0]}

SeriesOn(weekday, format) == [weekday |-> weekday, format |-> format]
Shares(reel, single) == [f \in {"reel", "single"} |-> IF f = "reel" THEN reel ELSE single]

\* What the client's files hold: no history or an uneven one, series on one weekday, on two
\* and by the month, ideas of every maturity.
Client(thin, rate, weekdays, series, ideas) ==
  [thin |-> thin, rate |-> rate, config |-> 0, weekdays |-> weekdays, floor |-> NoFloor,
   formats |-> Shares([share |-> 75, engagement |-> 1], [share |-> 25, engagement |-> 9]),
   pillars |-> [p \in {"A", "B"} |-> IF p = "A" THEN 2 ELSE 1], series |-> series, ideas |-> ideas, stale |-> 2]

MCOrders ==
  {Client(rate = 0, rate, <<2, 4>>, series, ideas) :
     rate \in {0, 1, 4},
     series \in {<<>>, <<SeriesOn(2, "reel"), SeriesOn(Monthly, Unsaid)>>,
                 <<SeriesOn(Monthly, Unsaid), SeriesOn(2, Unsaid), SeriesOn(2, "reel"), SeriesOn(Monthly, "single")>>},
     ideas \in {<<>>, <<"used", "declined", "candidate">>}}
  \cup {[Client(FALSE, 0, <<>>, <<SeriesOn(5, Unsaid)>>, <<"proven", "stale">>) EXCEPT !.config = 2, !.pillars = <<>>]}

=============================================================================

--------------------------- MODULE DraftAssembly ---------------------------
(***************************************************************************)
(* How a month's draft is assembled from what is known of the client: the  *)
(* skeleton of days, formats and pillars, the recurring series that claim  *)
(* slots, the ideas that take a share of the others, the products that     *)
(* have gone unmentioned.                                                  *)
(*                                                                         *)
(* An order is the assembly's input.  Slots are numbered from 1; a series  *)
(* has a weekday 0..6, or 7 when it is monthly; ideas and products are     *)
(* numbers, and a smaller idea comes first by its id.                      *)
(***************************************************************************)
EXTENDS MonthShape

CONSTANTS
  FirstWeekday,   \* the weekday of day 1, Sunday being 0
  Temperature     \* DRAFT_DEFAULT_TEMPERATURE, in percent (20 in the code)

ASSUME WeekdayAssumption == FirstWeekday \in 0..6 /\ Temperature \in 0..100

WeekdayOf(day) == (FirstWeekday + day - 1) % 7
Monthly == 7

Floors == [perWeek : Nat, perMonth : Nat]

\* thin: fewer than DRAFT_MIN_POSTS in the history.  rate, weekdays, formats: what it shows
\* (observeCadence, observeFormats), the weekdays by frequency, a format by its share and
\* its engagement.  config: client_channels.posts_per_week.  floor: the cadence the client
\* stated.  pillars: the configured share of each name, empty when none is configured.
\* series: in the order of names.  ideas: plan_inputs.lifecycle by id; all are the client's
\* (draft-plan.ts passes no other origin).  stale: how many
\* products were not mentioned for PRODUCT_STALE_DAYS, the longest unmentioned first.
IsOrder(o) ==
  /\ o \in [thin : BOOLEAN, rate : Nat, config : Nat, weekdays : Seq(0..6), floor : Floors,
            formats : {o.formats}, pillars : {o.pillars}, ideas : Seq(STRING), stale : Nat,
            series : Seq([weekday : 0..Monthly, format : Formats \cup {Unsaid}])]
  /\ DOMAIN o.formats \subseteq Formats /\ o.formats \in [DOMAIN o.formats -> [share : Nat, engagement : Nat]]
  /\ DOMAIN o.pillars \subseteq ToSet(PillarNames) /\ o.pillars \in [DOMAIN o.pillars -> Nat]

---------------------------------------------------------------------------
(* The skeleton.                                                           *)

IsTemplate(o) == o.thin \/ o.pillars = <<>>

PostsPerWeek(o) == IF ~o.thin /\ o.rate > 0 THEN o.rate ELSE IF o.config > 0 THEN o.config ELSE 3

SlotCountUnfloored(o) == SlotCountFor(PostsPerWeek(o))   \* mutant: the client's floor is not read back

\* The floor raises the count and never lowers it.
SlotCount(o) ==
  LET floor == CadenceFloorSlots(o.floor.perWeek, o.floor.perMonth) IN
  IF SlotCountFor(PostsPerWeek(o)) > floor THEN SlotCountFor(PostsPerWeek(o)) ELSE floor

\* The days of the most usual weekdays, as many of these as the count calls for.
UsualDays(n, weekdays) ==
  LET preferred == IF weekdays = <<>> THEN <<1, 3, 5>> ELSE weekdays
      needed == IF (7 * n) % LastDay = 0 THEN (7 * n) \div LastDay ELSE (7 * n) \div LastDay + 1
      chosen == {preferred[k] : k \in (1..needed) \cap DOMAIN preferred}
  IN {d \in Days : WeekdayOf(d) \in chosen}

PickEvenly(days, n) ==
  LET list == Sorted(days) IN [i \in 1..n |-> list[((i - 1) * Len(list)) \div n + 1]]

SpreadDates(n, weekdays) ==
  PickEvenly(IF Cardinality(UsualDays(n, weekdays)) < n THEN Days ELSE UsualDays(n, weekdays), n)

\* spreadFormats: each format by its share, tilted between half and double by how its
\* engagement compares to the mean; the template's shares without a history.
SpreadFormats(formats, n) ==
  LET engagement(f) == IF f \in DOMAIN formats THEN formats[f].engagement ELSE 0
      all == Total([k \in DOMAIN FormatNames |-> engagement(FormatNames[k])])
      times == Cardinality(DOMAIN formats)
      tilt(f) == LET t == 2 * formats[f].engagement * times IN
                 IF all = 0 THEN 1 ELSE IF t < all THEN all ELSE IF t > 4 * all THEN 4 * all ELSE t
      share == [f \in Formats |-> IF f \in DOMAIN formats THEN formats[f].share * tilt(f) ELSE 0]
      template == [f \in Formats |-> IF f = "reel" THEN 20 ELSE 40]
  IN Spread(FormatNames, IF DOMAIN formats = {} THEN template ELSE share, n)

\* resolvePillarWeights, spreadPillars: equal parts when no share is configured.
SpreadOverPillars(pillars, n) ==
  LET bare == \A p \in DOMAIN pillars : pillars[p] = 0
      weight == [p \in ToSet(PillarNames) |-> IF p \notin DOMAIN pillars THEN 0 ELSE IF bare THEN 1 ELSE pillars[p]]
  IN IF pillars = <<>> THEN [i \in 1..n |-> "General"] ELSE Spread(PillarNames, weight, n)

---------------------------------------------------------------------------
(* Who takes which slot.  A claim is a series by its number, an experiment *)
(* an idea, by slot.                                                       *)

NoOne == 0

Dates(o) == SpreadDates(SlotCount(o), IF IsTemplate(o) THEN <<>> ELSE o.weekdays)

\* A weekly series claims every slot on its weekday, before any that come after its name.
WeeklyClaims(dates, series) ==
  [i \in DOMAIN dates |->
     LET mine == {k \in DOMAIN series : series[k].weekday = WeekdayOf(dates[i])} IN
     IF mine = {} THEN NoOne ELSE CHOOSE k \in mine : \A l \in mine : k <= l]

\* The slots where n of m things stand when spread evenly over a list: each in the middle of
\* its part.
Middles(list, m) == [n \in 1..m |-> list[((2 * n - 1) * Len(list)) \div (2 * m) + 1]]

FreeOfAnything(weekly) == Sorted(DOMAIN weekly)   \* mutant: claimed slots are counted in

FreeOfWeekly(weekly) == Sorted({i \in DOMAIN weekly : weekly[i] = NoOne})

\* claimSeriesSlots: then the monthly ones, one slot each, among the slots left.
Claims(dates, series) ==
  LET weekly == WeeklyClaims(dates, series)
      monthly == Sorted({k \in DOMAIN series : series[k].weekday = Monthly})
      free == FreeOfWeekly(weekly)
      at == IF free = <<>> THEN <<>> ELSE Middles(free, Len(monthly))
  IN [i \in DOMAIN dates |->
        IF weekly[i] # NoOne THEN weekly[i]
        ELSE IF \A n \in DOMAIN at : at[n] # i THEN NoOne
        ELSE monthly[CHOOSE n \in DOMAIN at : at[n] = i /\ \A m \in 1..(n - 1) : at[m] # i]]

\* rankCandidates: never a refused idea; the raw ones before the proven, the used ones last.
RefusedIdeas == {"declined", "stale"}

RankCandidates(ideas) ==
  LET rank(id) == CASE ideas[id] = "candidate" -> 0 [] ideas[id] = "proven" -> 1
                    [] ideas[id] = "measured" -> 2 [] OTHER -> 3 IN
  InOrder([id \in {id \in DOMAIN ideas : ideas[id] \notin RefusedIdeas} |-> <<rank(id), id>>])

FreeOfNothing(claims) == Sorted(DOMAIN claims)   \* mutant: nothing is reserved

FreeOfSeries(claims) == Sorted({i \in DOMAIN claims : claims[i] = NoOne})

\* allocateSlots: the temperature's share of the month, at most one slot per idea.
Experiments(claims, ideas) ==
  LET ranked == RankCandidates(ideas)
      free == FreeOfSeries(claims)
      wanted == (2 * Temperature * Len(claims) + 100) \div 200
      count == CHOOSE n \in {wanted, Len(ranked), Len(free)} :
                 \A m \in {wanted, Len(ranked), Len(free)} : n <= m
      at == Middles(free, count)
  IN [i \in DOMAIN claims |-> IF \E n \in 1..count : at[n] = i
                              THEN ranked[CHOOSE n \in 1..count : at[n] = i] ELSE NoOne]

\* assignCoverage: a third of the month may name a product, series slots first.
Products(claims, idea, stale) ==
  LET plain == {i \in DOMAIN claims : idea[i] = NoOne}
      eligible == InOrder([i \in plain |-> <<IF claims[i] # NoOne THEN 0 ELSE 1, i>>])
      cap == IF Len(claims) < 3 THEN 1 ELSE Len(claims) \div 3
  IN [i \in DOMAIN claims |-> IF \E n \in DOMAIN eligible : n <= cap /\ n <= stale /\ eligible[n] = i
                              THEN CHOOSE n \in DOMAIN eligible : eligible[n] = i ELSE NoOne]

\* assembleDraft: the rows it proposes, by slot.
Assembled(o) ==
  LET dates == Dates(o)
      n == Len(dates)
      formats == SpreadFormats(IF IsTemplate(o) THEN <<>> ELSE o.formats, n)
      pillars == SpreadOverPillars(o.pillars, n)
      claims == Claims(dates, o.series)
      idea == Experiments(claims, o.ideas)
      format(i) == IF claims[i] # NoOne /\ o.series[claims[i]].format # Unsaid THEN o.series[claims[i]].format
                   ELSE IF i \in DOMAIN formats THEN formats[i] ELSE "single"
      pillar(i) == IF i \in DOMAIN pillars THEN pillars[i] ELSE "General"
      shown(i) == ~IsTemplate(o) /\ format(i) \in DOMAIN o.formats
  IN [i \in 1..n |->
        [day |-> dates[i], format |-> format(i), pillar |-> pillar(i),
         basis |-> IF IsTemplate(o) THEN "template" ELSE "observed",
         posts |-> IF shown(i) THEN o.formats[format(i)].share ELSE 0,
         avg |-> IF shown(i) THEN o.formats[format(i)].engagement ELSE 0,
         touched |-> FALSE, own |-> idea[i] # NoOne /\ ~IsTemplate(o), series |-> claims[i] # NoOne,
         pos |-> i - 1, subject |-> Unsaid, label |-> Unsaid]]

=============================================================================

----------------------------- MODULE DraftMonth -----------------------------
(***************************************************************************)
(* The draft month over its life: assembled, reshaped sentence by          *)
(* sentence, assembled again at the next touch.  What survives an assembly *)
(* is what the client stated about the month, not its rows.                *)
(***************************************************************************)
EXTENDS Transforms, DraftAssembly

CONSTANT Orders   \* what assemblies may find, their floor being filled in here

ASSUME OrdersAssumption == \A o \in Orders : IsOrder(o)

VARIABLES
  stated,   \* intake_json.cadenceFloor
  order     \* the order of the assembly just made, or Nothing

draftVars == <<reshapeVars, stated, order>>

NoFloor == [perWeek |-> 0, perMonth |-> 0]

DraftTypeOK ==
  /\ ReshapeTypeOK
  /\ stated \in Floors
  /\ order # Nothing => IsOrder(order)

DraftInit == ReshapeInit /\ stated = NoFloor /\ order = Nothing

\* persistCadenceFloor: the last cadence stated, whole.
Floor(i) == IF i.kind = "cadence" THEN [perWeek |-> i.perWeek, perMonth |-> i.perMonth] ELSE stated

Hears(i) == Sentence(i) /\ stated' = Floor(i) /\ order' = Nothing

\* A cadence is recorded first.  With no draft yet that is all; a request that breaks off there
\* leaves the draft as it was.
HearsCadence(i) ==
  /\ said < MaxSaid /\ i.kind = "cadence"
  /\ stated' = Floor(i) /\ said' = said + 1 /\ last' = i
  /\ went' = IF plan = <<>> THEN "well" ELSE "broken"
  /\ filed' = {} /\ noted' = FALSE /\ counted' = FALSE /\ order' = Nothing
  /\ UNCHANGED plan

\* assembleAndPersistDraft: every draft row is retired and the new ones inserted.
Assembles(o) ==
  LET now == [o EXCEPT !.floor = stated] IN
  /\ said < MaxSaid /\ SlotCount(now) <= MaxBeats
  /\ plan' = Assembled(now)
  /\ order' = now /\ said' = said + 1
  /\ last' = Nothing /\ filed' = {} /\ noted' = FALSE /\ went' = "well" /\ counted' = FALSE
  /\ UNCHANGED stated

DraftNext ==
  \/ \E i \in Sentences : Hears(i) \/ HearsCadence(i)
  \/ \E o \in Orders : Assembles(o)

DraftSpec == DraftInit /\ [][DraftNext]_draftVars

---------------------------------------------------------------------------
(* Properties.                                                             *)

Assembly == order' # Nothing

\* An assembly spreads its posts over different days, and keeps the cadence the client
\* stated, whichever sentence or assembly came between and however the one that stated it went.
FloorOutlivesAssembly ==
  [][Assembly =>
       /\ Cardinality(DOMAIN plan') >= CadenceFloorSlots(stated.perWeek, stated.perMonth)
       /\ \A x, y \in DOMAIN plan' : x # y => plan'[x].day # plan'[y].day]_draftVars

\* A standing series sits on its own weekday, and is left out only when the month has no
\* slot there, a monthly one only when there are too few slots for all of them.
SeriesSitOrAreMissed ==
  [][Assembly =>
       LET dates == [x \in DOMAIN plan' |-> plan'[x].day]
           weekly == WeeklyClaims(dates, order'.series)
           claims == Claims(dates, order'.series)
           monthly == {k \in DOMAIN order'.series : order'.series[k].weekday = Monthly}
       IN \A k \in DOMAIN order'.series :
            LET mine == {x \in DOMAIN plan' : claims[x] = k}
                day == order'.series[k].weekday
            IN /\ \A x \in mine : plan'[x].series /\ (k \notin monthly => WeekdayOf(plan'[x].day) = day)
               /\ mine = {} => IF k \in monthly
                               THEN Cardinality({x \in DOMAIN plan' : weekly[x] = NoOne}) < Cardinality(monthly)
                               ELSE \A x \in DOMAIN plan' : WeekdayOf(plan'[x].day) = day => claims[x] # NoOne]_draftVars

\* The client's ideas take their share of the month and no more, each at most once, none
\* that was refused, and none in a slot that a series or a product already speaks for.
IdeasDisplaceNothing ==
  [][Assembly =>
       LET claims == Claims([x \in DOMAIN plan' |-> plan'[x].day], order'.series)
           idea == Experiments(claims, order'.ideas)
           product == Products(claims, idea, order'.stale)
           used == {x \in DOMAIN plan' : idea[x] # NoOne}
           fresh == {n \in DOMAIN order'.ideas : order'.ideas[n] \notin RefusedIdeas}
       IN /\ \A x \in used : idea[x] \in fresh /\ ~plan'[x].series /\ product[x] = NoOne
          /\ \A x, y \in used : idea[x] = idea[y] => x = y
          /\ 100 * Cardinality(used) <= Temperature * Len(plan') + 50
          /\ Cardinality(used) < Cardinality(fresh) /\ 100 * (Cardinality(used) + 1) <= Temperature * Len(plan') =>
               \A x \in DOMAIN plan' \ used : plan'[x].series]_draftVars

=============================================================================

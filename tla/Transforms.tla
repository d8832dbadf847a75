----------------------------- MODULE Transforms -----------------------------
(***************************************************************************)
(* What one sentence does to a draft month (draft-transforms.ts), and the  *)
(* month after several of them.                                            *)
(*                                                                         *)
(* Days are numbers: 1 is the first of the planned month and LastDay its   *)
(* last; days outside 1..LastDay belong to its neighbours.  Words are what *)
(* they resolve to: a subject, a part's label, a pillar, a format.         *)
(***************************************************************************)
EXTENDS MonthShape

CONSTANTS
  Today,         \* the client's day
  Subjects,      \* what a post is about
  Sentences,     \* the intents the classifier returns
  Months,        \* the months a draft assembly may leave
  MaxBeats,      \* bound: row ids
  MaxSaid        \* bound: sentences

ASSUME ReshapeAssumption == MaxBeats \in Nat /\ MaxSaid \in Nat

VARIABLES
  plan,    \* the draft rows: a function from their ids
  filed,   \* what the last sentence left among the ideas: its text, or days it deferred
  noted,   \* the last sentence went to the month's notes
  said,    \* how many sentences so far
  last,    \* the last of them
  went,    \* how its request went after the rows: "well", the insert of the days "refused", "broken" off
  counted  \* its receipt counts deferred days (deferredCount)

reshapeVars == <<plan, filed, noted, said, last, went, counted>>

Ids == 1..MaxBeats
FormatOrder == <<"reel", "carousel", "single">>    \* the order ties of the commonest fall in
Pillars == ToSet(PillarNames) \cup {Unsaid}
Labels == {Unsaid, "Tease", "Launch", "Follow-up", "dated"}
Bases == {"template", "observed", "client_input", "client_added", "emphasis_reweight"}

\* posts, avg: the sample behind the evidence and its engagement.  touched: clientTouched.  own: the client's
\* experiment.  series: seriesDue.  pos: the row's position, which orders applications.
Beat == [day : Days, format : Formats, pillar : Pillars, basis : Bases, posts : Nat, avg : Nat, touched : BOOLEAN,
         own : BOOLEAN, series : BOOLEAN, pos : Nat, subject : Subjects \cup {Unsaid}, label : Labels]

Nothing == [kind |-> "nothing"]

IsMonth(m) ==
  /\ DOMAIN m \subseteq Ids /\ \A id \in DOMAIN m : m[id] \in Beat
  /\ \A x, y \in DOMAIN m : x # y => m[x].pos # m[y].pos

\* What classifyIntake hands on, by kind.  given: the dates a brief gives an arc's parts.  A
\* day 0 was not said, or could not be read.
IsIntent(i) ==
  /\ i.kind \in {"launch", "event", "series", "beat_spec", "cadence", "emphasis", "beat_edit", "correction"}
  /\ i.kind \in {"launch", "event", "series", "beat_spec"} => i.subject \in Subjects /\ i.day \in Int
  /\ i.kind = "launch" => i.given \in [launch : Int, tease : Int, followUp : Int]
  /\ i.kind = "series" => i.listed \in Seq(Int) /\ i.interval \in Int /\ i.count \in Nat /\ i.until \in Int
  /\ i.kind = "beat_spec" => i.format \in Formats \cup {Unsaid}
  /\ i.kind = "cadence" => i.perWeek \in Nat /\ i.perMonth \in Nat
  /\ i.kind = "emphasis" => i.pillar \in Pillars /\ i.format \in Formats \cup {Unsaid} /\ i.ambiguous \in BOOLEAN
  /\ i.kind = "beat_edit" => i.edit \in {"drop", "move", "swap_format"} /\ i.day \in Int
  /\ i.kind = "beat_edit" /\ i.edit = "swap_format" => i.format \in Formats
  /\ i.kind = "correction" => i.format \in Formats \cup {Unsaid} /\ i.day \in Int /\ i.count \in Nat

ASSUME IntentAssumption == \A i \in Sentences : IsIntent(i)
ASSUME MonthsAssumption == \A m \in Months : IsMonth(m)

ReshapeTypeOK ==
  /\ IsMonth(plan) /\ filed \subseteq Int
  /\ noted \in BOOLEAN /\ said \in 0..MaxSaid /\ last \in Sentences \cup {Nothing}
  /\ went \in {"well", "refused", "broken"} /\ counted \in BOOLEAN

---------------------------------------------------------------------------
(* Whose post is it, and which goes first.                                 *)

RemovalProtectionBySeries(b) == b.touched \/ b.basis = "client_added" \/ b.own   \* mutant: a series is fair game

\* removalProtection is not null.
RemovalProtection(b) == b.touched \/ b.basis = "client_added" \/ b.own \/ b.series

Spared == 3   \* null: never replaceable

\* replacementTier: the client's hand outranks the machine, newer words outrank older ones.
ReplacementTier(b) ==
  CASE b.touched \/ b.basis = "client_added" \/ b.own -> Spared
    [] b.basis = "client_input" /\ ~b.touched /\ ~b.own -> 2
    [] b.basis = "template" /\ ~b.touched /\ ~b.own -> 0
    [] OTHER -> 1

\* byWeakestEvidence.
Evidence(id, b) == <<IF b.basis = "template" THEN 0 ELSE 1, b.posts, b.avg, b.day, id>>

WeakestFirst(month, ids) ==
  InOrder([id \in ids |-> Evidence(id, month[id])])

\* replacementCandidates: tier, then the oldest application, then the weakest.
ReplacementCandidates(month) ==
  LET fair == {id \in DOMAIN month : ReplacementTier(month[id]) # Spared /\ ~RemovalProtection(month[id])}
      age(b) == IF ReplacementTier(b) = 2 THEN b.pos ELSE 0
  IN InOrder([id \in fair |-> <<ReplacementTier(month[id]), age(month[id])>> \o Evidence(id, month[id])])

---------------------------------------------------------------------------
(* The month's habits.                                                     *)

FormatCount(month) == [f \in Formats |-> Cardinality({id \in DOMAIN month : month[id].format = f})]
PillarCount(month) == [p \in ToSet(PillarNames) |-> Cardinality({id \in DOMAIN month : month[id].pillar = p})]
DayCount(month) == [d \in Days |-> Cardinality({id \in DOMAIN month : month[id].day = d})]

\* The first in the given order of those no other outnumbers.
MostOf(names, count) == names[InOrder([k \in DOMAIN names |-> <<-count[names[k]], k>>])[1]]

CommonestFormat(month) == IF month = <<>> THEN "single" ELSE MostOf(FormatOrder, FormatCount(month))

CommonestPillar(month) ==
  IF \A id \in DOMAIN month : month[id].pillar = Unsaid THEN Unsaid ELSE MostOf(PillarNames, PillarCount(month))

\* The emptiest day, of these the one farthest from an occupied one, of these the first.
ThinnestDay(count) ==
  LET far(d) == LET gaps == {IF e < d THEN d - e ELSE e - d : e \in {e \in Days \ {d} : count[e] > 0}} IN
                CHOOSE g \in gaps \cup {LastDay} : \A h \in gaps \cup {LastDay} : g <= h
      best(d) == <<count[d], -far(d), d>>
  IN CHOOSE d \in Days : \A e \in Days \ {d} : Before(best(d), best(e))

\* thinnestDays: each choice counts for the next; the answer comes in the order of days.
ThinnestDaysOfOneLook(month, n) ==   \* mutant: a choice does not count for the next
  LET day == ThinnestDay(DayCount(month)) IN [k \in 1..n |-> day]

ThinnestDays(month, n) ==
  LET start == DayCount(month)
      counts[k \in 0..n] == IF k = 0 THEN start
                            ELSE LET count == counts[k - 1] IN [count EXCEPT ![ThinnestDay(count)] = @ + 1]
      after == counts[n]
      picks == {p \in Days \X (1..n) : p[2] <= after[p[1]] - start[p[1]]}
      order == InOrder([p \in picks |-> p])
  IN [k \in DOMAIN order |-> order[k][1]]

---------------------------------------------------------------------------
(* Results: rows to remove, rows to add, rows to change, what is deferred. *)

ClampToMonth(day) == IF day < 1 THEN 1 ELSE IF day > LastDay THEN LastDay ELSE day

NoChange == [gone |-> {}, add |-> <<>>, change |-> <<>>, later |-> {}, context |-> FALSE]

\* clientInputMeta: the client's words, and nothing else behind them.
NewBeat(day, format, pillar, subject, label) ==
  [day |-> day, format |-> format, pillar |-> pillar, basis |-> "client_input", posts |-> 0, avg |-> 0, touched |-> FALSE,
   own |-> FALSE, series |-> FALSE, pos |-> 0, subject |-> subject, label |-> label]

PlaceOnOne(parts, subject, month) ==   \* mutant: the victim found is not marked used
  LET pool == ReplacementCandidates(month) IN
  [NoChange EXCEPT
    !.gone = IF pool = <<>> THEN {} ELSE {pool[1]},
    !.add = [k \in DOMAIN parts |->
      IF pool # <<>> THEN NewBeat(parts[k].day, month[pool[1]].format, month[pool[1]].pillar, subject, parts[k].label)
      ELSE NewBeat(parts[k].day, CommonestFormat(month), CommonestPillar(month), subject, parts[k].label)]]

\* Each part takes a victim's slot, its pillar and (unless it has its own) its format; with
\* the pool used up the month grows instead.
Place(parts, subject, month) ==
  LET pool == ReplacementCandidates(month)
      format(k, other) == IF parts[k].format = Unsaid THEN other ELSE parts[k].format
  IN [NoChange EXCEPT
       !.gone = {pool[k] : k \in DOMAIN parts \cap DOMAIN pool},
       !.add = [k \in DOMAIN parts |->
         IF k \in DOMAIN pool
         THEN NewBeat(parts[k].day, format(k, month[pool[k]].format), month[pool[k]].pillar, subject, parts[k].label)
         ELSE NewBeat(parts[k].day, format(k, CommonestFormat(month)), CommonestPillar(month), subject, parts[k].label)]]

\* arcDates.  A part is dated by the brief (0 is undated) or by its offset; one that does
\* not fall on its side of the launch moves next to it, and is dropped at the month's edge.
TeaseDay(at, given) ==
  LET launch == ClampToMonth(at)
      wanted == IF given.tease # 0 THEN ClampToMonth(given.tease) ELSE ClampToMonth(at - 5)
  IN IF wanted < launch THEN wanted ELSE launch - 1

FollowUpDayClamped(at, given) ==   \* mutant: the clamp alone
  IF given.followUp # 0 THEN ClampToMonth(given.followUp) ELSE ClampToMonth(at + 3)

FollowUpDay(at, given) ==
  LET launch == ClampToMonth(at)
      wanted == IF given.followUp # 0 THEN ClampToMonth(given.followUp) ELSE ClampToMonth(at + 3)
  IN IF wanted > launch THEN wanted ELSE launch + 1

ArcDates(at, given) ==
  LET part(day, label, format) == IF day \in Days THEN <<[day |-> day, label |-> label, format |-> format]>> ELSE <<>>
  IN part(TeaseDay(at, given), "Tease", "single")
     \o part(ClampToMonth(at), "Launch", "reel")
     \o part(FollowUpDay(at, given), "Follow-up", "carousel")

\* A launch the brief dates is taken from there (draft-apply).
LaunchDay(i) == IF i.given.launch # 0 THEN i.given.launch ELSE i.day

\* What nobody dated has no place: applyLaunchArc, applyEvent and applyBeatSpec leave it.
ApplyLaunchArc(i, month) ==
  IF LaunchDay(i) = 0 THEN NoChange ELSE Place(ArcDates(LaunchDay(i), i.given), i.subject, month)

ApplyEvent(i, month) ==
  IF i.day = 0 THEN NoChange
  ELSE Place(<<[day |-> ClampToMonth(i.day), label |-> Unsaid, format |-> Unsaid]>>, i.subject, month)

\* expandSeries: listed days, in their order, outrank a rule, which stops at the month's end.
ExpandSeries(i) ==
  LET byDay == InOrder([k \in DOMAIN i.listed |-> <<i.listed[k], k>>])
      end == IF i.until # 0 /\ i.until < LastDay THEN i.until ELSE LastDay
      day(n) == i.day + (n - 1) * i.interval
      turns == {n \in 1..i.count : \A m \in 1..n : day(m) <= end}
  IN IF i.listed # <<>> THEN [n \in DOMAIN byDay |-> i.listed[byDay[n]]]
     ELSE [n \in 1..Cardinality(turns) |-> day(n)]

LaterForgotten(days) == {}   \* mutant: what does not fit is not handed back

Later(days) == ToSet(days) \ Days

ApplySeries(i, month) ==
  LET all == ExpandSeries(i)
      within == Sorted({k \in DOMAIN all : all[k] \in Days})
      parts == [k \in DOMAIN within |-> [day |-> all[within[k]], label |-> "dated", format |-> Unsaid]]
  IN [Place(parts, i.subject, month) EXCEPT !.later = Later(all)]

\* applyBeatSpec: a dated, titled post is the client's own and displaces nothing.
ApplyBeatSpec(i, month) ==
  IF i.day = 0 THEN NoChange ELSE
  [NoChange EXCEPT !.add = <<[NewBeat(ClampToMonth(i.day), IF i.format # Unsaid THEN i.format ELSE CommonestFormat(month), Unsaid, i.subject, Unsaid)
                           EXCEPT !.basis = "client_added", !.touched = TRUE]>>]

ApplyCadence(i, month) ==
  LET gap == CadenceFloorSlots(i.perWeek, i.perMonth) - Cardinality(DOMAIN month)
      days == ThinnestDays(month, gap)
      formats == Spread(FormatNames, FormatCount(month), gap)
      pillars == Spread(PillarNames, PillarCount(month), gap)
      or(names, k, other) == IF k \in DOMAIN names THEN names[k] ELSE other
  IN IF gap <= 0 THEN NoChange
     ELSE [NoChange EXCEPT !.add = [k \in DOMAIN days |->
            NewBeat(days[k], or(formats, k, CommonestFormat(month)), or(pillars, k, Unsaid), Unsaid, Unsaid)]]

\* reweighted: the metrics go, a standing series stays one.
Reweighted(b) == [b EXCEPT !.basis = "emphasis_reweight", !.posts = 0, !.avg = 0]

Eligible(month, i) ==
  {id \in DOMAIN month : month[id].day >= Today /\ ReplacementTier(month[id]) \in {0, 1}
                         /\ IF i.format # Unsaid THEN month[id].format # i.format ELSE month[id].pillar # i.pillar}

\* applyEmphasis: a third of the eligible posts, at least one, leans to the pillar or the
\* format; a phrase that names neither is context, one that names several is not clear.
ApplyEmphasis(i, month) ==
  LET weakest == WeakestFirst(month, Eligible(month, i))
      third == IF Len(weakest) >= 3 THEN Len(weakest) \div 3 ELSE 1
      leant == {weakest[k] : k \in 1..third}
  IN IF i.pillar = Unsaid /\ i.format = Unsaid THEN [NoChange EXCEPT !.context = ~i.ambiguous]
     ELSE IF weakest = <<>> THEN NoChange
     ELSE [NoChange EXCEPT !.change = [id \in leant |->
            IF i.format # Unsaid THEN [Reweighted(month[id]) EXCEPT !.format = i.format]
            ELSE [Reweighted(month[id]) EXCEPT !.pillar = i.pillar]]]

\* resolveBeatRef: "the Friday reel", "the 12th"; a day 0 is left open.
ResolveBeatRef(i, month) ==
  {id \in DOMAIN month : (i.refDay # 0 => month[id].day = i.refDay) /\ (i.refFormat # Unsaid => month[id].format = i.refFormat)}

\* applyBeatEdit: exactly one post, or none.
ApplyBeatEdit(i, month) ==
  LET matches == ResolveBeatRef(i, month)
      id == CHOOSE id \in matches : TRUE
  IN IF Cardinality(matches) # 1 THEN NoChange
     ELSE CASE i.edit = "drop" -> IF RemovalProtection(month[id]) THEN NoChange ELSE [NoChange EXCEPT !.gone = {id}]
            [] i.edit = "swap_format" -> [NoChange EXCEPT !.change = [x \in {id} |-> [month[x] EXCEPT !.format = i.format]]]
            [] i.edit = "move" -> IF i.day = 0 THEN NoChange ELSE [NoChange EXCEPT !.change = [x \in {id} |-> [month[x] EXCEPT !.day = ClampToMonth(i.day)]]]

\* Subject first, then the date it names (resolveBeatSubject, beatsOnNamedDate).
Named(i, month) ==
  LET bySubject == {id \in DOMAIN month : i.subject # Unsaid /\ month[id].subject = i.subject} IN
  IF bySubject # {} THEN bySubject ELSE {id \in DOMAIN month : i.refDay # 0 /\ month[id].day = i.refDay}

\* requestedCount, rankForNarrowing: a number the client said takes the exact title first;
\* 0 is no number.
Chosen(i, month) ==
  LET named == Named(i, month)
      narrows == i.count # 0 /\ i.count < Cardinality(named)
      exact(b) == narrows /\ b.subject = i.subject /\ b.label = Unsaid
      ranked == InOrder([id \in named |-> <<IF exact(month[id]) THEN 0 ELSE 1, month[id].day, month[id].pos, id>>])
  IN IF narrows THEN SubSeq(ranked, 1, i.count) ELSE ranked

AnchorOfAll(i, month) ==   \* mutant: the earliest match, chosen or not
  LET named == Named(i, month) IN
  CHOOSE d \in {month[id].day : id \in named} : \A id \in named : d <= month[id].day

Anchor(i, month) == month[Chosen(i, month)[1]].day

\* applyCorrection: the posts named move together, the first of them to the date said.
ApplyCorrection(i, month) ==
  LET named == Named(i, month) IN
  CASE named = {} \/ (i.format = Unsaid /\ i.day = 0) -> NoChange
    [] named # {} /\ i.format # Unsaid ->
         IF Cardinality(named) > 1 THEN NoChange
         ELSE [NoChange EXCEPT !.change = [id \in named |-> [month[id] EXCEPT !.format = i.format]]]
    [] OTHER -> [NoChange EXCEPT !.change = [id \in ToSet(Chosen(i, month)) |->
                  [month[id] EXCEPT !.day = ClampToMonth(i.day + month[id].day - Anchor(i, month))]]]

ApplyIntent(i, month) ==
  CASE i.kind = "launch"     -> ApplyLaunchArc(i, month)
    [] i.kind = "event"      -> ApplyEvent(i, month)
    [] i.kind = "series"     -> ApplySeries(i, month)
    [] i.kind = "beat_spec"  -> ApplyBeatSpec(i, month)
    [] i.kind = "cadence"    -> ApplyCadence(i, month)
    [] i.kind = "emphasis"   -> ApplyEmphasis(i, month)
    [] i.kind = "beat_edit"  -> ApplyBeatEdit(i, month)
    [] i.kind = "correction" -> ApplyCorrection(i, month)

---------------------------------------------------------------------------
(* A sentence after the other.                                             *)

\* partitionRemovals and writeOps: a protected row is kept whatever was asked, changed rows
\* keep their ids, new rows take the next positions.
WriteOps(month, r) ==
  LET gone == {id \in r.gone : ~RemovalProtection(month[id])}
      top == CHOOSE p \in {0} \cup {month[id].pos : id \in DOMAIN month} : \A id \in DOMAIN month : month[id].pos <= p
      free == Sorted(Ids \ DOMAIN month)
      fresh(id) == CHOOSE k \in DOMAIN r.add : free[k] = id
  IN [id \in (DOMAIN month \ gone) \cup {free[k] : k \in DOMAIN r.add} |->
        IF id \notin DOMAIN month THEN [r.add[fresh(id)] EXCEPT !.pos = top + fresh(id)]
        ELSE IF id \in DOMAIN r.change THEN r.change[id] ELSE month[id]]

HasOps(r) == r.gone # {} \/ r.add # <<>> \/ DOMAIN r.change # {}

ReshapeInit ==
  /\ plan \in Months
  /\ filed = {} /\ noted = FALSE /\ said = 0 /\ last = Nothing /\ went = "well" /\ counted = FALSE

\* A sentence that changes nothing is filed whole.
Whole(i, r) == IF HasOps(r) \/ r.context \/ i.kind = "cadence" THEN {} ELSE {0}

\* saveDeferredInstances files the deferred days in one insert after the rows are committed and
\* swallows its refusal.  A request that breaks off has no receipt and files no more; one with
\* nothing left to file loses only its receipt, which is not told apart here.
Files(i, r) ==
  \/ went' = "well" /\ filed' = r.later \cup Whole(i, r) /\ counted' = (r.later # {})
  \/ r.later # {} /\ went' = "refused" /\ filed' = Whole(i, r) /\ counted' = FALSE
  \/ r.later # {} /\ went' = "broken" /\ filed' \in {{}, r.later} /\ counted' = FALSE

\* applyIntakeToDraft for a sentence about the month: the rows first, or the month's notes for
\* context, then what is to be filed.
Sentence(i) ==
  LET r == ApplyIntent(i, plan) IN
  /\ said < MaxSaid /\ plan # <<>>
  /\ Len(r.add) <= MaxBeats - Cardinality(DOMAIN plan)
  /\ plan' = IF HasOps(r) THEN WriteOps(plan, r) ELSE plan
  /\ noted' = r.context
  /\ Files(i, r)
  /\ said' = said + 1 /\ last' = i

ReshapeNext == \E i \in Sentences : Sentence(i)

ReshapeSpec == ReshapeInit /\ [][ReshapeNext]_reshapeVars

---------------------------------------------------------------------------
(* Properties.                                                             *)

Says(kind) == said' # said /\ last'.kind = kind
Added == DOMAIN plan' \ DOMAIN plan

Theirs(b) == b.touched \/ b.own \/ b.basis = "client_added"

\* No sequence of sentences removes a post the client made theirs or a standing series, none
\* strips it of what protects it, and an emphasis leans only posts the machine chose.
TheirsStays ==
  [][last' # Nothing => \A id \in DOMAIN plan :
       /\ Theirs(plan[id]) => id \in DOMAIN plan' /\ Theirs(plan'[id])
       /\ plan[id].series => id \in DOMAIN plan' /\ plan'[id].series
       /\ Says("emphasis") /\ (Theirs(plan[id]) \/ plan[id].basis = "client_input") => plan'[id] = plan[id]]_reshapeVars

\* A launch is an arc wherever it falls and whoever dated its parts: tease, launch and
\* follow-up on ascending days of the month, one left out only at the month's edge.
ArcIsAnArc ==
  [][Says("launch") /\ LaunchDay(last') # 0 =>
       LET on(label) == {plan'[id].day : id \in {id \in Added : plan'[id].label = label}} IN
       \E launch \in Days :
         /\ on("Launch") = {launch}
         /\ \/ \E d \in 1..(launch - 1) : on("Tease") = {d}
            \/ launch = 1 /\ on("Tease") = {}
         /\ \/ \E d \in (launch + 1)..LastDay : on("Follow-up") = {d}
            \/ launch = LastDay /\ on("Follow-up") = {}]_reshapeVars

\* A sentence that places posts grows the month only when nothing replaceable is left, and
\* one that edits posts never loses any but the one it drops.
MonthKeepsItsSize ==
  [][said' # said /\ last' # Nothing =>
       /\ last'.kind \in {"launch", "event", "series"} /\ Cardinality(DOMAIN plan') > Cardinality(DOMAIN plan) =>
            \A id \in DOMAIN plan \cap DOMAIN plan' : ReplacementTier(plan[id]) = Spared \/ RemovalProtection(plan[id])
       /\ Cardinality(DOMAIN plan') < Cardinality(DOMAIN plan) =>
            last'.kind = "beat_edit" /\ Cardinality(DOMAIN plan \ DOMAIN plan') = 1]_reshapeVars

\* A cadence stated of a draft is reached and not passed, unless the request broke off before the
\* rows, and no day is given a second post while another has none.
CadenceIsReachedThinly ==
  [][Says("cadence") /\ plan # <<>> /\ went' # "broken" =>
       LET floor == CadenceFloorSlots(last'.perWeek, last'.perMonth)
           on(month, d) == {id \in DOMAIN month : month[id].day = d} IN
       /\ Cardinality(DOMAIN plan') = IF Cardinality(DOMAIN plan) >= floor THEN Cardinality(DOMAIN plan) ELSE floor
       /\ \A d, e \in Days : on(plan', d) # on(plan, d) /\ Cardinality(on(plan', d)) > 1 => on(plan', e) # {}]_reshapeVars

\* Posts that are corrected together keep their order, and one of them lands on the date
\* the client named.
CorrectionLandsOnTheDate ==
  [][Says("correction") =>
       LET moved == {id \in DOMAIN plan : plan'[id].day # plan[id].day} IN
       /\ \A x, y \in moved : plan[x].day <= plan[y].day => plan'[x].day <= plan'[y].day
       /\ moved # {} => \E id \in Named(last', plan) : plan'[id].day = ClampToMonth(last'.day)]_reshapeVars

\* Every listed date inside the month gets its post, whatever fails after the rows.  Those outside
\* it are counted by the receipt unless their insert was refused or the request broke off, and
\* where they are counted each of them is among the ideas.
SeriesIsAccounted ==
  [][Says("series") =>
       \A d \in ToSet(last'.listed) :
         /\ d \in Days => \E id \in Added : plan'[id].day = d
         /\ d \notin Days => (went' = "well" => counted') /\ (counted' => d \in filed')]_reshapeVars

=============================================================================

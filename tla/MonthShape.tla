----------------------------- MODULE MonthShape -----------------------------
(* The days of the planned month, and how shares become slots.             *)
EXTENDS Integers, FiniteSets, Sequences, SequencesExt

CONSTANTS
  LastDay,       \* the number of days of the month
  PillarNames    \* the client's content pillars and General, in the order of their names

ASSUME MonthAssumption == LastDay \in Nat \ {0} /\ PillarNames \in Seq(STRING) /\ "General" \in ToSet(PillarNames)

Days == 1..LastDay
FormatNames == <<"carousel", "reel", "single">>    \* in the order of their names
Formats == ToSet(FormatNames)
Unsaid == ""    \* no word: null, or nothing the client said

\* a comes before b: the first number that differs decides.
Before(a, b) == \E n \in DOMAIN a : a[n] < b[n] /\ \A m \in 1..(n - 1) : a[m] = b[m]

\* The members of key's domain, the smallest key first.
InOrder(key) ==
  [n \in 1..Cardinality(DOMAIN key) |->
     CHOOSE x \in DOMAIN key : Cardinality({y \in DOMAIN key : Before(key[y], key[x])}) = n - 1]

\* Numbers, the smallest first.
Sorted(S) == InOrder([x \in S |-> <<x>>])

Total(numbers) == FoldLeft(LAMBDA sum, n : sum + n, 0, numbers)

\* spreadPillars: each name's part of n by the largest remainder, ties going to the first
\* name, then round after round in the order of the names.
Spread(names, count, n) ==
  LET part == [k \in DOMAIN names |-> count[names[k]]]
      total == Total(part)
      floor == [k \in DOMAIN names |-> (part[k] * n) \div total]
      rest == [k \in DOMAIN names |-> (part[k] * n) % total]
      short == n - Total(floor)
      ahead(k) == {m \in DOMAIN names : part[m] > 0 /\ (rest[m] > rest[k] \/ (rest[m] = rest[k] /\ m < k))}
      quota == [k \in DOMAIN names |-> floor[k] + IF part[k] > 0 /\ Cardinality(ahead(k)) < short THEN 1 ELSE 0]
      turns == {t \in (1..n) \X DOMAIN names : t[1] <= quota[t[2]]}
      order == InOrder([t \in turns |-> t])
  IN IF total = 0 \/ n <= 0 THEN <<>> ELSE [k \in DOMAIN order |-> names[order[k][2]]]

\* slotCountFor (Math.round: halves go up) and cadenceFloorSlots; 0 is nothing stated.
SlotCountFor(perWeek) ==
  LET n == (2 * perWeek * LastDay + 7) \div 14 IN
  IF n > LastDay THEN LastDay ELSE IF n < 1 THEN 1 ELSE n

CadenceFloorSlots(perWeek, perMonth) ==
  LET week == IF perWeek > 0 THEN SlotCountFor(perWeek) ELSE 0
      most == IF week > perMonth THEN week ELSE perMonth
  IN IF most > LastDay THEN LastDay ELSE most

=============================================================================

--------------------------- MODULE LegacyRanking ---------------------------
(***************************************************************************)
(* TimetableRanker as the ranking route uses it: the stored candidates are *)
(* filtered by the hard conditions once more, scored with the weights of a *)
(* template and sorted.  A template is always given, so the components of  *)
(* the template are always scored.  Scores are in 120ths of a point: half  *)
(* points and means over up to six days are whole numbers.                 *)
(***************************************************************************)
EXTENDS LegacyGeneration

CONSTANTS
  Wishes,     \* soft conditions, a set of records [freeDays, firstClass, latestEnd,
              \* freeRanges, preferred, avoided, areas, compact]
  Templates   \* the templates asked for

VARIABLES
  wish, template,
  ranked      \* None, or the candidates, best first

legacyRankVars == <<legacyVars, wish, template, ranked>>

-----------------------------------------------------------------------------
(* TEMPLATE_WEIGHT_PROFILES; pairs are what a met and an unmet wish adds,  *)
(* the other tuples go from the best case to the worst.                    *)

Point == 120

Profiles ==
  [BALANCED |->
     [freeDay |-> <<8, -5>>, freeRange |-> <<3, -2>>, preferred |-> <<8, -2>>, avoided |-> <<2, -8>>,
      area |-> <<6, -2>>, chain |-> <<5, -3>>, idle |-> <<4, 2, -2>>, days |-> <<6, 2, -4>>, start |-> <<6, 3, -4>>],
   FREE_DAY_PRIORITY |->
     [freeDay |-> <<14, -11>>, freeRange |-> <<8, -7>>, preferred |-> <<4, -1>>, avoided |-> <<1, -4>>,
      area |-> <<4, -1>>, chain |-> <<3, -2>>, idle |-> <<5, 3, -3>>, days |-> <<8, 4, -6>>, start |-> <<2, 1, -1>>],
   NO_MORNING_PRIORITY |->
     [freeDay |-> <<5, -3>>, freeRange |-> <<3, -2>>, preferred |-> <<4, -1>>, avoided |-> <<1, -4>>,
      area |-> <<4, -1>>, chain |-> <<4, -3>>, idle |-> <<4, 2, -3>>, days |-> <<5, 3, -4>>, start |-> <<14, 8, -11>>],
   COMPACT_SCHEDULE |->
     [freeDay |-> <<5, -3>>, freeRange |-> <<3, -2>>, preferred |-> <<4, -1>>, avoided |-> <<1, -4>>,
      area |-> <<4, -1>>, chain |-> <<5, -4>>, idle |-> <<14, 8, -11>>, days |-> <<6, 4, -5>>, start |-> <<2, 1, -1>>]]

ASSUME WishesAreTyped ==
  /\ Templates \subseteq DOMAIN Profiles
  /\ \A w \in Wishes :
       /\ IsFiniteSet(w.freeDays) /\ IsFiniteSet(w.freeRanges)
       /\ IsFiniteSet(w.preferred) /\ IsFiniteSet(w.avoided) /\ IsFiniteSet(w.areas)
       /\ {w.firstClass, w.latestEnd} \subseteq Nat \cup {None}

(* The three weights with half points are kept doubled above.              *)
Halved == {"preferred", "avoided", "area"}
Weight(kind, i) ==
  (IF kind \in Halved THEN Point \div 2 ELSE Point) * Profiles[template][kind][i]

-----------------------------------------------------------------------------
(* Measures of a timetable *)

DayMeets(S, d) == {m \in Meets(S) : m.day = d}
AttendanceDays(S) == {m.day : m \in Meets(S)}
FirstMinute(M) == Min({m.start : m \in M})

Gap(p) == PositivePart(BreakOf(p))
IdleMinutes(S) == SumFunction([p \in Neighbours(S) |-> Gap(p)])
ShortGapCount(S) == Cardinality({p \in Neighbours(S) : Gap(p) <= 30})
ConsecutiveCount(S) == Cardinality({p \in Neighbours(S) : BreakOf(p) = 0})
MorningEnd == 600
MorningClasses(S) == Cardinality({m \in Meets(S) : m.start < MorningEnd})

LateStartValue(minute) ==
  IF minute >= 660 THEN Weight("start", 1)
  ELSE IF minute >= MorningEnd THEN Weight("start", 2)
  ELSE IF minute < 540 THEN Weight("start", 3)
  ELSE 0

-----------------------------------------------------------------------------
(* Components *)

(* So much for every wish that is met, so much for every other one.        *)
MetAndUnmet(kind, met, unmet) ==
  Weight(kind, 1) * Cardinality(met) + Weight(kind, 2) * Cardinality(unmet)

FreeDayValue(S) ==
  MetAndUnmet("freeDay", wish.freeDays \ AttendanceDays(S), wish.freeDays \cap AttendanceDays(S))

FreeRangeValue(S) ==
  LET busy == {g \in wish.freeRanges : \E m \in Meets(S) : InRange(m, g)} IN
  MetAndUnmet("freeRange", wish.freeRanges \ busy, busy)

PreferredValue(S) ==
  LET ids == Normalized(wish.preferred, S) IN
  MetAndUnmet("preferred", ids \cap CoursesOf(S), ids \ CoursesOf(S))

AvoidedValue(S) ==
  LET ids == Normalized(wish.avoided, S) IN
  MetAndUnmet("avoided", ids \ CoursesOf(S), ids \cap CoursesOf(S))

AreaValue(S) ==
  LET areas == {Catalog[s].area : s \in ElectivesIn(S, order)} IN
  MetAndUnmet("area", wish.areas \cap areas, wish.areas \ areas)

\* Wrong variant: the difference the other way round.
FirstClassValueReversed(S) ==
  LET first == FirstMinute(Meets(S)) IN
  IF first >= wish.firstClass THEN LateStartValue(first)
  ELSE LateStartValue(wish.firstClass) - LateStartValue(first)

FirstClassValue(S) ==
  LET first == FirstMinute(Meets(S)) IN
  IF first >= wish.firstClass THEN LateStartValue(first)
  ELSE LateStartValue(first) - LateStartValue(wish.firstClass)

LatestEndValue(S) ==
  LET late == Max({m.end : m \in Meets(S)}) - wish.latestEnd IN
  IF late <= 0 THEN Weight("idle", 1)
  ELSE IF late <= 60 THEN 0
  ELSE IF late <= 180 THEN Weight("idle", 3)
  ELSE 2 * Weight("idle", 3)

AttendanceValue(S) ==
  Weight("days", CASE Cardinality(AttendanceDays(S)) <= 3 -> 1
                   [] Cardinality(AttendanceDays(S)) = 4 -> 2
                   [] OTHER -> 3)

(* The ranker of the service has no movement checker: every pair counts.   *)
ConsecutiveValue(S) ==
  IF ConsecutiveCount(S) = 0 THEN Weight("chain", 1) ELSE Weight("chain", 2) * ConsecutiveCount(S)

CompactValue(S) ==
  IF wish.compact = "FALSE"
    THEN IF ShortGapCount(S) = 0 THEN Weight("idle", 1) ELSE Weight("idle", 3) * ShortGapCount(S)
  ELSE IF \A d \in AttendanceDays(S) : Cardinality(DayMeets(S, d)) < 2 THEN 0
  ELSE Weight("idle", IF IdleMinutes(S) <= 60 THEN 1 ELSE IF IdleMinutes(S) <= 180 THEN 2 ELSE 3)

DailyStartValue(S) ==
  LET sum == SumFunction([d \in AttendanceDays(S) |-> LateStartValue(FirstMinute(DayMeets(S, d)))]) IN
  IF template = "NO_MORNING_PRIORITY" THEN sum ELSE sum \div Cardinality(AttendanceDays(S))

RawScore(S) ==
  70 * Point + FreeDayValue(S) + FreeRangeValue(S) + PreferredValue(S) + AvoidedValue(S) + AreaValue(S)
    + (IF wish.firstClass # None THEN FirstClassValue(S) ELSE 0)
    + (IF wish.latestEnd # None THEN LatestEndValue(S) ELSE 0)
    + AttendanceValue(S) + ConsecutiveValue(S) + CompactValue(S) + DailyStartValue(S)

-----------------------------------------------------------------------------

\* Wrong variant: the score decides before the targets.
LegacyKeyByScore(S) ==
  <<-RawScore(S), -Cardinality(RequiredIn(S, order)), ElectiveGap(S, order), CreditGap(S, order),
    IdleMinutes(S), Cardinality(AttendanceDays(S)), MorningClasses(S)>>

(* The targets come first, then the score, then four ways to break a tie.  *)
LegacyKey(S) ==
  <<-Cardinality(RequiredIn(S, order)), ElectiveGap(S, order), CreditGap(S, order), -RawScore(S),
    IdleMinutes(S), Cardinality(AttendanceDays(S)), MorningClasses(S)>>

(* The sorted ids of A come before those of B: at the first difference the *)
(* smaller id decides, and a part that ends there comes first.             *)
IdsBefore(A, B) ==
  A # B /\ LET first == Min((A \ B) \cup (B \ A)) IN
            IF first \in A THEN \E b \in B : b > first ELSE \A a \in A : a < first

SortedForWishes(list) ==
  LET kept == {i \in DOMAIN list : ~ViolatesHardConditions(list[i], order.hard)} IN
  SortedPart(list, kept, LAMBDA S : <<LegacyKey(S), S>>,
             LAMBDA k, l : KeyLess(k[1], l[1]) \/ (k[1] = l[1] /\ IdsBefore(k[2], l[2])))

ChooseRanking ==
  /\ phase = "done" /\ found # <<>> /\ wish = None
  /\ wish' \in Wishes /\ template' \in Templates
  /\ UNCHANGED <<legacyVars, ranked>>

LegacyRank ==
  /\ wish # None /\ ranked = None
  /\ LET sorted == SortedForWishes(found) IN
     \E n \in {1, Len(found)} : ranked' = SubSeq(sorted, 1, Min({n, Len(sorted)}))
  /\ UNCHANGED <<legacyVars, wish, template>>

LegacyRankInit == LegacyInit /\ wish = None /\ template = None /\ ranked = None
LegacyRankNext ==
  \/ LegacyNext /\ UNCHANGED <<wish, template, ranked>>
  \/ ChooseRanking \/ LegacyRank
LegacyRankSpec ==
  LegacyRankInit /\ [][LegacyRankNext]_legacyRankVars
    /\ WF_legacyVars(LegacyNext /\ UNCHANGED <<wish, template, ranked>>)

=============================================================================

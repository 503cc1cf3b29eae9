-------------------------- MODULE LegacyGeneration --------------------------
(***************************************************************************)
(* TimetableGenerator.generate_detailed, the generator behind the          *)
(* recommendation route: every choice of required courses, the largest     *)
(* first, is checked alone and then filled with every choice of electives. *)
(* A step is one pass of one of the two loops.                             *)
(*                                                                         *)
(* The sections of a pool are numbered in the order of its list, and so    *)
(* are the courses.  Credits are whole numbers.                            *)
(***************************************************************************)
EXTENDS TimetableRules

CONSTANT Orders   \* what may be asked for, a set of records

(* A recommendation needs confirmed majors (FIXED_MAJOR_NOT_FOUND) and a   *)
(* positive limit; a bound that is not given counts as inclusive.          *)
ASSUME OrdersAreTyped ==
  \A r \in Orders :
    /\ r.fixed # {} /\ r.fixed \cup r.required \cup r.electives \subseteq Sections
    /\ {r.target, r.count, r.min, r.max} \subseteq Nat \cup {None}
    /\ {r.minInclusive, r.maxInclusive} \subseteq BOOLEAN
    /\ (r.min = None => r.minInclusive) /\ (r.max = None => r.maxInclusive)
    /\ r.limit \in Nat \ {0}
    /\ IsFiniteSet(r.hard.required)
    /\ {r.hard.earliest, r.hard.latest, r.hard.maxChain} \subseteq Nat \cup {None}
    /\ \A g \in r.hard.excludedRanges : g.start \in Nat /\ g.end \in Nat

VARIABLES
  order,
  phase,          \* "start", "required", "electives", "done"
  choices,        \* the required choices that are still to be examined
  chosen,         \* the required choice whose electives are being tried
  groups,         \* the elective choices that are still to be tried for it
  found,          \* candidates, in the order of generation, sorted at the end
  stats,          \* the codes that were counted at least once
  truncated,
  diagnostics

legacyVars == <<order, phase, choices, chosen, groups, found, stats, truncated, diagnostics>>

-----------------------------------------------------------------------------
(* Hard conditions (TimetableRanker.apply_hard_filters) *)

\* Wrong variant: only classes that are in the range as a whole.
WhollyInRange(m, range) == m.day = range.day /\ range.start <= m.start /\ m.end <= range.end

InRange(m, range) == m.day = range.day /\ m.start < range.end /\ range.start < m.end

(* The classes of m's day that lead to m without a break.                  *)
RowUpTo(M, m) ==
  {c \in M : /\ c.day = m.day /\ ~Precedes(m, c)
             /\ \A d \in M : d.day = m.day /\ Precedes(c, d) /\ ~Precedes(m, d) =>
                  \E e \in M : Neighbour(e, d, M) /\ e.end = d.start}
LongestChain(S) == Max({1} \cup {Cardinality(RowUpTo(Meets(S), m)) : m \in Meets(S)})

ViolatesHardConditions(S, hard) ==
  \/ \E m \in Meets(S) :
       \/ m.day \in hard.excludedDays \cup hard.freeDays
       \/ hard.earliest # None /\ m.start < hard.earliest
       \/ hard.latest # None /\ m.end > hard.latest
       \/ \E range \in hard.excludedRanges : InRange(m, range)
  \/ ~(Normalized(hard.required, S) \subseteq CoursesOf(S))
  \/ Normalized(hard.excluded, S) \cap CoursesOf(S) # {}
  \/ \E s \in S : Catalog[s].professor \in hard.excludedProfessors
  \/ hard.maxChain # None /\ LongestChain(S) > hard.maxChain

-----------------------------------------------------------------------------
(* Bounds *)

CreditCeiling(r) ==
  LET limits == {r.target, r.max} \ {None} IN IF limits = {} THEN None ELSE Min(limits)

ExceedsTarget(credits, r) == r.target # None /\ credits > r.target

DuplicateCourse(S) == \E s, t \in S : s # t /\ CourseOf(s) = CourseOf(t)

(* data.general_elective_candidates without the excluded areas.            *)
ElectivesOf(r) == {s \in r.electives : Catalog[s].area \notin r.excludedAreas}

RoundedUp(a, b) == (a + b - 1) \div b
RoundedDown(a, b) == a \div b
PositivePart(x) == IF x > 0 THEN x ELSE 0

(* _elective_sizes: the largest number of electives worth trying.  With a  *)
(* minimum that is not reached yet, the target is not looked at.           *)
MostElectives(r, base) ==
  LET least == Min({CreditOf(s) : s \in ElectivesOf(r)})
      asked == IF r.count = None THEN 0 ELSE r.count
      boundary == RoundedUp(r.min - base, least)
      wanted ==
        IF r.min # None /\ base < r.min
          THEN IF ~r.minInclusive /\ base + boundary * least = r.min THEN boundary + 1 ELSE boundary
        ELSE IF r.target # None THEN RoundedDown(PositivePart(r.target - base), least)
        ELSE 0
      ceiling == CreditCeiling(r)
      room == RoundedDown(PositivePart(ceiling - base), least)
      allowed == IF ~r.maxInclusive /\ base + room * least = ceiling THEN PositivePart(room - 1) ELSE room
      most == Max({asked, wanted})
  IN IF ElectivesOf(r) = {} THEN 0
     ELSE Min({IF ceiling = None THEN most ELSE Min({most, allowed}), Cardinality(ElectivesOf(r))})

-----------------------------------------------------------------------------
(* Order of enumeration: itertools.combinations and product *)

Earlier(A, B) == A # B /\ Min((A \ B) \cup (B \ A)) \in A

ChoiceBefore(A, B) ==
  \/ Cardinality(A) > Cardinality(B)
  \/ /\ Cardinality(A) = Cardinality(B)
     /\ IF CoursesOf(A) = CoursesOf(B) THEN Earlier(A, B) ELSE Earlier(CoursesOf(A), CoursesOf(B))

\* Wrong variant: a course is judged by its most expensive section.
Dearest(r, c) == Max({CreditOf(s) : s \in {t \in r.required : CourseOf(t) = c}})

Cheapest(r, c) == Min({CreditOf(s) : s \in {t \in r.required : CourseOf(t) = c}})

(* _required_group_combinations: at most one section of a course; a choice *)
(* of courses is left out when even their cheapest sections are too much.  *)
Affordable(r, R) ==
  CreditCeiling(r) # None =>
    Credits(r.fixed) + SumFunction([c \in CoursesOf(R) |-> Cheapest(r, c)]) <= CreditCeiling(r)
RequiredChoices(r) ==
  Ordered({R \in SUBSET r.required : ~DuplicateCourse(R) /\ Affordable(r, R)}, ChoiceBefore)

ElectiveBefore(A, B) ==
  Cardinality(A) > Cardinality(B) \/ (Cardinality(A) = Cardinality(B) /\ Earlier(A, B))
ElectiveChoices(r, most) ==
  Ordered({E \in SUBSET ElectivesOf(r) : Cardinality(E) <= most}, ElectiveBefore)

-----------------------------------------------------------------------------

FixedCredits == Credits(order.fixed)

(* validator.validate, each of its issues under its own code.              *)
IssueCodes(S, min) ==
  {c \in {"TIME_CONFLICT", "TRAVEL_NOT_POSSIBLE", "CREDIT_BELOW_MINIMUM", "CREDIT_ABOVE_MAXIMUM"} :
     \/ c = "TIME_CONFLICT" /\ \E s, t \in S : s # t /\ ConflictsWith(s, t)
     \/ c = "TRAVEL_NOT_POSSIBLE" /\ TravelIssue(S, None)
     \/ c = "CREDIT_BELOW_MINIMUM" /\ BelowMinimum(Credits(S), min, order.minInclusive)
     \/ c = "CREDIT_ABOVE_MAXIMUM" /\ AboveMaximum(Credits(S), CreditCeiling(order), order.maxInclusive)}

RejectionOf(S, min) ==
  IF DuplicateCourse(S) THEN {"DUPLICATE_LOGICAL_COURSE"}
  ELSE IF ExceedsTarget(Credits(S), order) THEN {"CREDIT_ABOVE_TARGET"}
  ELSE IssueCodes(S, min)

LegacyRefuse(code) ==
  phase' = "done" /\ diagnostics' = {code} /\ UNCHANGED choices

LegacyStart ==
  LET sound == Valid(order.fixed, None, None, TRUE, order.max, order.maxInclusive) IN
  /\ phase = "start"
  /\ \/ ~sound /\ LegacyRefuse("FIXED_MAJOR_INTEGRITY_ERROR")
     \/ sound /\ ExceedsTarget(FixedCredits, order) /\ LegacyRefuse("MAJOR_CREDITS_EXCEED_TARGET")
     \/ /\ sound /\ ~ExceedsTarget(FixedCredits, order)
        /\ phase' = "required" /\ choices' = RequiredChoices(order)
        /\ diagnostics' =
             (IF order.required = {} THEN {"NO_REQUIRED_GENERAL_CANDIDATE"} ELSE {})
             \cup (IF order.count \notin {None, 0} /\ ElectivesOf(order) = {}
                     THEN {"INSUFFICIENT_ELECTIVE_CANDIDATES"} ELSE {})
  /\ UNCHANGED <<order, chosen, groups, found, stats, truncated>>

(* The outer loop.                                                         *)
NextRequired ==
  /\ phase = "required" /\ choices # <<>>
  /\ choices' = Tail(choices)
  /\ LET rejection == RejectionOf(order.fixed \cup Head(choices), None) IN
     IF rejection # {}
       THEN stats' = stats \cup rejection /\ UNCHANGED <<phase, chosen, groups>>
       ELSE /\ phase' = "electives" /\ chosen' = Head(choices)
            /\ \E most \in {MostElectives(order, Credits(order.fixed \cup Head(choices)))} :
                 groups' = ElectiveChoices(order, most)
            /\ UNCHANGED stats
  /\ UNCHANGED <<order, found, truncated, diagnostics>>

\* Wrong variant: the last candidate is not waited for.
LimitAlmostReached(list) == Len(list) + 1 >= order.limit

LimitReached(list) == Len(list) >= order.limit

(* The inner loop.                                                         *)
NextElectives ==
  /\ phase = "electives" /\ groups # <<>> /\ ~truncated
  /\ groups' = Tail(groups)
  /\ LET S == order.fixed \cup chosen \cup Head(groups)
         codes == IF RejectionOf(S, order.min) # {} THEN RejectionOf(S, order.min)
                  ELSE IF ViolatesHardConditions(S, order.hard) THEN {"HARD_CONDITION_FAILED"}
                  ELSE IF Contains(found, S) THEN {"DUPLICATE_TIMETABLE"} ELSE {}
     IN /\ stats' = stats \cup {"COMBINATIONS_EVALUATED"} \cup codes
        /\ found' = IF codes = {} THEN Append(found, S) ELSE found
  /\ truncated' = LimitReached(found')
  /\ UNCHANGED <<order, phase, choices, chosen, diagnostics>>

NoElectivesLeft ==
  /\ phase = "electives" /\ groups = <<>> /\ ~truncated
  /\ phase' = "required"
  /\ UNCHANGED <<order, choices, chosen, groups, found, stats, truncated, diagnostics>>

-----------------------------------------------------------------------------
(* _load_satisfaction, _objective_key and the diagnostics *)

RequiredIn(S, r) == S \cap r.required
ElectivesIn(S, r) == S \cap r.electives
ElectiveGap(S, r) ==
  IF r.count = None THEN 0 ELSE PositivePart(r.count - Cardinality(ElectivesIn(S, r)))
CreditGap(S, r) == IF r.target = None THEN 0 ELSE r.target - Credits(S)

ObjectiveKey(S, r) ==
  <<Cardinality(RequiredIn(S, r)), Credits(RequiredIn(S, r)), -ElectiveGap(S, r), -CreditGap(S, r)>>

\* Wrong variant: only what was counted on the way.
FinalDiagnosticsOfRejections ==
  stats \cap {"TIME_CONFLICT", "TRAVEL_NOT_POSSIBLE", "HARD_CONDITION_FAILED",
              "CREDIT_ABOVE_TARGET", "DUPLICATE_LOGICAL_COURSE"}

FinalDiagnostics ==
  LET S == ToSet(found) IN
  (stats \cap {"TIME_CONFLICT", "TRAVEL_NOT_POSSIBLE", "HARD_CONDITION_FAILED",
               "CREDIT_ABOVE_TARGET", "DUPLICATE_LOGICAL_COURSE"})
  \cup {c \in {"NO_VALID_TIMETABLE", "ELECTIVE_TARGET_NOT_MET", "CREDIT_TARGET_NOT_REACHED",
               "GENERATION_TRUNCATED"} :
     \/ c = "NO_VALID_TIMETABLE" /\ S = {} /\ "COMBINATIONS_EVALUATED" \in stats
     \/ c = "ELECTIVE_TARGET_NOT_MET" /\ S # {} /\ \A T \in S : ElectiveGap(T, order) > 0
     \/ c = "CREDIT_TARGET_NOT_REACHED" /\ S # {} /\ \A T \in S : CreditGap(T, order) > 0
     \/ c = "GENERATION_TRUNCATED" /\ truncated}

LegacyFinish ==
  /\ \/ phase = "required" /\ choices = <<>>
     \/ phase = "electives" /\ truncated
  /\ phase' = "done"
  /\ found' = SortedBy(found, LAMBDA S : ObjectiveKey(S, order), LAMBDA k, l : KeyLess(l, k))
  /\ diagnostics' = diagnostics \cup FinalDiagnostics
  /\ UNCHANGED <<order, choices, chosen, groups, stats, truncated>>

LegacyInit ==
  /\ order \in Orders
  /\ phase = "start" /\ choices = <<>> /\ chosen = {} /\ groups = <<>>
  /\ found = <<>> /\ stats = {} /\ truncated = FALSE /\ diagnostics = {}

LegacyNext == LegacyStart \/ NextRequired \/ NextElectives \/ NoElectivesLeft \/ LegacyFinish

(* One synchronous call, run until it returns.                             *)
LegacySpec == LegacyInit /\ [][LegacyNext]_legacyVars /\ WF_legacyVars(LegacyNext)

=============================================================================

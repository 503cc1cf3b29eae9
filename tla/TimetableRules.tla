--------------------------- MODULE TimetableRules ---------------------------
(***************************************************************************)
(* The hard rules a set of sections is judged by: time conflicts, travel   *)
(* between buildings and credit bounds (TimetableValidator, shared by both *)
(* generators), and the wider list the agent's TimetableValidationService  *)
(* builds on them.  Catalog gives what a section is, as a record           *)
(*   [course, credit, area, meets],                                        *)
(* meets being a set of [day, start, end, room, no]: minutes after         *)
(* midnight, the first digit of the building code, and the place in the    *)
(* section's list of class times.  The hard conditions of the              *)
(* recommendation route also look at a professor.                          *)
(***************************************************************************)
EXTENDS Integers, FiniteSets, Sequences, FiniteSetsExt, SequencesExt, TLC

CONSTANTS
  Sections,
  Catalog,          \* [Sections -> the record above]
  Departments,
  Barred,           \* [Sections -> SUBSET Departments] the restriction policy
  NoRoom,           \* the room of a building code without a digit
  None              \* an optional field that is not given

(* A section has a course and some credits, and meets at least once.       *)
ASSUME CatalogIsTyped ==
  /\ IsFiniteSet(Sections) /\ Sections \subseteq Nat
  /\ \A s \in Sections :
       /\ Catalog[s].course \in Nat /\ Catalog[s].credit \in Nat \ {0}
       /\ Catalog[s].meets # {} /\ IsFiniteSet(Catalog[s].meets)
       /\ \A m \in Catalog[s].meets :
             m.day \in Nat /\ m.start \in Nat /\ m.end \in Nat /\ m.no \in Nat
       /\ \A m \in Catalog[s].meets : m.start < m.end

(* The class times of a section are a list.  Two of them may overlap: the  *)
(* validator of a course refuses exact repetitions only.                   *)
ASSUME MeetingsAreListed ==
  \A s \in Sections : \A m, n \in Catalog[s].meets : m # n => m.no # n.no

(* A section id is made of the id of its course, a dash and a number.      *)
ASSUME SectionsAreNoCourses == \A s, t \in Sections : s # Catalog[t].course

(* A set as the sequence a strict order gives it (SetToSortSeq, without    *)
(* running through the permutations).                                      *)
Ordered(S, Before(_, _)) ==
  [i \in 1..Cardinality(S) |-> CHOOSE x \in S : Cardinality({y \in S : Before(y, x)}) = i - 1]

(* The kept items of a list, given by their positions, sorted by a key;     *)
(* equal keys keep their order (list.sort).                                *)
SortedPart(list, kept, Key(_), Less(_, _)) ==
  LET keyed == {<<Key(list[i]), i>> : i \in kept}
      before(a, b) == Less(a[1], b[1]) \/ (~Less(b[1], a[1]) /\ a[2] < b[2])
      sorted == Ordered(keyed, before)
  IN [k \in 1..Cardinality(kept) |-> list[sorted[k][2]]]
SortedBy(list, Key(_), Less(_, _)) == SortedPart(list, DOMAIN list, Key, Less)

KeyLess(k, l) == \E i \in DOMAIN k : k[i] < l[i] /\ \A j \in 1..(i - 1) : k[j] = l[j]

CourseOf(s) == Catalog[s].course
Meets(S) == UNION {Catalog[s].meets : s \in S}
CreditOf(s) == Catalog[s].credit
Credits(S) == MapThenSumSet(CreditOf, S)
CoursesOf(S) == {CourseOf(s) : s \in S}

Overlaps(a, b) == a.day = b.day /\ a.start < b.end /\ b.start < a.end

ConflictsWith(s, t) ==
  \E a \in Catalog[s].meets, b \in Catalog[t].meets : Overlaps(a, b)

(* No rules file is loaded, so every trip takes default_travel_minutes, 0, *)
(* and the distance between the first digits of the two buildings decides. *)
CanTravel(from, to) ==
  from = NoRoom \/ to = NoRoom \/ (from - to < 3 /\ to - from < 3)

(* The classes of a day are sorted by their start, and those of a section  *)
(* that start together stay in the order of its list.  Sections that start *)
(* together conflict, and are refused whatever their order.                *)
Precedes(a, b) == a.start < b.start \/ (a.start = b.start /\ a.no < b.no)

(* Only a day's neighbours count: any class between two uses up the gap.   *)
Neighbour(a, b, M) ==
  /\ a.day = b.day /\ Precedes(a, b)
  /\ ~\E c \in M : c.day = a.day /\ Precedes(a, c) /\ Precedes(c, b)
Neighbours(S) ==
  LET M == Meets(S) IN {p \in M \X M : Neighbour(p[1], p[2], M)}
BreakOf(p) == p[2].start - p[1].end

TravelIssue(S, maxGap) ==
  LET M == Meets(S) IN
  \E a, b \in M :
    /\ ~CanTravel(a.room, b.room)
    /\ Neighbour(a, b, M) /\ ~Overlaps(a, b)
    /\ maxGap # None => b.start - a.end <= maxGap

BelowMinimum(credits, bound, inclusive) ==
  bound # None /\ IF inclusive THEN credits < bound ELSE credits <= bound
AboveMaximum(credits, bound, inclusive) ==
  bound # None /\ IF inclusive THEN credits > bound ELSE credits >= bound

(* TimetableValidator.validate, for sections that differ pairwise.         *)
Valid(S, maxGap, min, minInclusive, max, maxInclusive) ==
  /\ \A s, t \in S : s # t => ~ConflictsWith(s, t)
  /\ ~TravelIssue(S, maxGap)
  /\ ~BelowMinimum(Credits(S), min, minInclusive)
  /\ ~AboveMaximum(Credits(S), max, maxInclusive)

(* A request names courses, or sections of them; a name is folded to the   *)
(* course of a section it fits in the given context and kept otherwise.    *)
Normalized(ids, context) ==
  {IF \E s \in context : id \in {s, CourseOf(s)}
     THEN CourseOf(CHOOSE s \in context : id \in {s, CourseOf(s)})
     ELSE id : id \in ids}

(* _single_section_violations and the per-section rules above it.          *)
SectionAllowed(s, req) ==
  /\ Catalog[s].area \notin req.excludedAreas
  /\ \A m \in Catalog[s].meets :
       /\ m.day \notin req.freeDays
       /\ req.earliest # None => m.start >= req.earliest
       /\ req.latest # None => m.end <= req.latest
  /\ req.department # None => req.department \notin Barred[s]

(* What validate_sections asks of S before any credit bound; can_add asks  *)
(* it of a partial timetable, with no required course.                     *)
HardRulesHold(S, required, req) ==
  /\ \A s, t \in S : s # t => CourseOf(s) # CourseOf(t)
  /\ Normalized(required, S) \subseteq CoursesOf(S)
  /\ CoursesOf(S) \cap Normalized(req.excluded, S) = {}
  /\ \A s \in S : SectionAllowed(s, req)

=============================================================================

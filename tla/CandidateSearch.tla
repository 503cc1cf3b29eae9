-------------------------- MODULE CandidateSearch --------------------------
(***************************************************************************)
(* The agent's timetable generation: TimetablePreparationService turns a   *)
(* session summary and the options of one request (an ask) into a          *)
(* generation request, and TimetableCandidateGenerationService searches it *)
(* by backtracking over the courses.  The recursion is an explicit stack   *)
(* with one frame per open call; a step is one visit of a node, one        *)
(* section tried, or one return, so every place where the search looks at  *)
(* its two limits is a state.                                              *)
(*                                                                         *)
(* Courses and sections are numbers: their order is the order of the ids   *)
(* the code sorts by, and days are ranks of the day names.                 *)
(***************************************************************************)
EXTENDS TimetableRules

CONSTANTS
  Courses,          \* course numbers, disjoint from Sections
  Asks,             \* what may be asked for, a set of records (see Prepared)
  MaxGap            \* travel_check_max_gap, 30

(* The request model: both limits are at least one.                        *)
ASSUME AsksHaveLimits ==
  \A a \in Asks : a.maxResults \in Nat \ {0} /\ a.maxNodes \in Nat \ {0}

ASSUME CoursesAreKnown == \A s \in Sections : CourseOf(s) \in Courses

(* A search without an error has none of these codes.                      *)
ASSUME NoneIsNoCode ==
  None \notin {"NOT_READY", "INVALID_GENERATION_REQUEST", "FIXED_TIMETABLE_CONFLICT",
               "REQUIRED_COURSE_UNAVAILABLE"}

VARIABLES
  ask,
  pc,               \* "prepare", "start", "search", "done"
  req,              \* the TimetableGenerationRequest, None before there is one
  plan,             \* ordered_course_ids, unresolved_required and the sections
  stack,            \* the open calls of backtrack
  nodes,
  results,          \* the added sections of each candidate, in order
  reason,           \* termination_reason
  failures,         \* the codes collected
  error

searchVars == <<ask, pc, req, plan, stack, nodes, results, reason, failures, error>>

-----------------------------------------------------------------------------
(* Preparation *)

IsSection(id) == id \notin Courses
FirstOf(seq, n) == SubSeq(seq, 1, IF Len(seq) < n THEN Len(seq) ELSE n)

FixedSources(a) ==
  IF a.fixed # None THEN a.fixed
  ELSE IF a.majorCatalog THEN {id \in a.majors : IsSection(id)} ELSE {}

CandidateSources(a) ==
  IF ~a.candidateCatalog THEN {}
  ELSE UNION {ToSet(FirstOf(c, a.maxSections)) : c \in ToSet(FirstOf(a.discovered, a.maxCourses))}

PreparationIssues(a) ==
  {i \in {"DEPARTMENT", "MAJORS", "CANDIDATES", "TARGET", "UNCONFIRMED", "OVERLAP", "TOO_SMALL"} :
     \/ i = "DEPARTMENT" /\ a.department = None
     \/ i = "MAJORS" /\ (~a.majorCatalog \/ a.majors = {})
     \/ i = "CANDIDATES" /\ (~a.candidateCatalog \/ a.discovered = <<>>)
     \/ i = "TARGET" /\ a.count = None /\ a.credits = None
     \/ i = "UNCONFIRMED" /\ a.fixed = None /\ \E id \in a.majors : ~IsSection(id)
     \/ i = "OVERLAP" /\ (a.required \cup a.onceRequired) \cap (a.excluded \cup a.onceExcluded) # {}
     \/ i = "TOO_SMALL" /\ a.count # None /\ Cardinality(a.onceRequired) > a.count}

Prepared(a) ==
  [fixed |-> FixedSources(a), offered |-> CandidateSources(a),
   required |-> a.required \cup a.onceRequired, excluded |-> a.excluded \cup a.onceExcluded,
   excludedAreas |-> a.excludedAreas, freeDays |-> a.freeDays,
   earliest |-> a.earliest, latest |-> a.latest,
   min |-> a.min, minInclusive |-> a.minInclusive, max |-> a.max, maxInclusive |-> a.maxInclusive,
   department |-> a.department, count |-> a.count, credits |-> a.credits,
   maxResults |-> a.maxResults, maxNodes |-> a.maxNodes]

(* Credits asked for are numbers; None is neither a number nor a request.   *)
ASSUME AsksAreTyped ==
  /\ None \notin Nat
  /\ \A a \in Asks :
       /\ {a.min, a.max, a.credits} \subseteq Nat \cup {None}
       /\ Prepared(a) # None

(* The request model's own validation.                                     *)
WellFormed(r) ==
  /\ r.min # None /\ r.max # None => r.min <= r.max
  /\ r.earliest # None /\ r.latest # None => r.earliest <= r.latest
  /\ r.required \cap r.excluded = {}

Prepare ==
  /\ pc = "prepare"
  /\ IF PreparationIssues(ask) = {} /\ WellFormed(Prepared(ask))
       THEN pc' = "start" /\ req' = Prepared(ask) /\ UNCHANGED error
       ELSE pc' = "done" /\ error' = "NOT_READY" /\ UNCHANGED req
  /\ UNCHANGED <<ask, plan, stack, nodes, results, reason, failures>>

-----------------------------------------------------------------------------
(* Set-up of a search *)

TargetCount(r) == IF r.count = None /\ r.credits = None THEN 1 ELSE r.count

FixedFits(r) ==
  /\ HardRulesHold(r.fixed, {}, r)
  /\ Valid(r.fixed, MaxGap, None, TRUE, r.max, r.maxInclusive)

UnresolvedRequired(r) ==
  Normalized(r.required, r.fixed \cup r.offered) \ CoursesOf(r.fixed)

\* Wrong variant: sections are searched in place of their courses.
SearchedSections(r) ==
  r.offered \ (Normalized(r.excluded, r.offered) \cup CoursesOf(r.fixed))

SearchedCourses(r) ==
  CoursesOf(r.offered) \ (Normalized(r.excluded, r.offered) \cup CoursesOf(r.fixed))

OfferedOf(r, c) == {s \in r.offered : CourseOf(s) = c}

EarliestMeeting(s) ==
  CHOOSE m \in Catalog[s].meets : \A n \in Catalog[s].meets :
    m.day < n.day \/ (m.day = n.day /\ m.start <= n.start)

SectionBefore(s, t) ==
  LET a == EarliestMeeting(s) b == EarliestMeeting(t) IN
  \/ a.day < b.day
  \/ a.day = b.day /\ a.start < b.start
  \/ a.day = b.day /\ a.start = b.start /\ s < t

(* Required courses first, then those with the fewest sections.            *)
CourseBefore(r, c, d) ==
  LET must(x) == x \in UnresolvedRequired(r)
      n(x) == Cardinality(OfferedOf(r, x)) IN
  \/ must(c) /\ ~must(d)
  \/ (must(c) <=> must(d)) /\ (n(c) < n(d) \/ (n(c) = n(d) /\ c < d))

PlanOf(r) ==
  [courses |-> Ordered(SearchedCourses(r), LAMBDA c, d : CourseBefore(r, c, d)),
   required |-> UnresolvedRequired(r),
   sections |-> [c \in SearchedCourses(r) |-> Ordered(OfferedOf(r, c), SectionBefore)]]

Frame(index, selected) ==
  [index |-> index, selected |-> selected, item |-> 0, accepted |-> FALSE]

Refuse(code) ==
  pc' = "done" /\ error' = code /\ failures' = failures \cup {code}

Start ==
  /\ pc = "start"
  /\ \/ /\ ~(req.fixed \cup req.offered \subseteq Sections)
        /\ Refuse("INVALID_GENERATION_REQUEST") /\ UNCHANGED <<plan, stack>>
     \/ /\ req.fixed \cup req.offered \subseteq Sections
        /\ ~FixedFits(req)
        /\ Refuse("FIXED_TIMETABLE_CONFLICT") /\ UNCHANGED <<plan, stack>>
     \/ /\ req.fixed \cup req.offered \subseteq Sections
        /\ FixedFits(req)
        /\ ~(UnresolvedRequired(req) \subseteq CoursesOf(req.offered))
        /\ Refuse("REQUIRED_COURSE_UNAVAILABLE") /\ UNCHANGED <<plan, stack>>
     \/ /\ req.fixed \cup req.offered \subseteq Sections
        /\ FixedFits(req)
        /\ UnresolvedRequired(req) \subseteq CoursesOf(req.offered)
        /\ pc' = "search" /\ plan' = PlanOf(req) /\ stack' = <<Frame(1, {})>>
        /\ failures' = IF TargetCount(req) # None /\ Len(PlanOf(req).courses) < TargetCount(req)
                         THEN {"INSUFFICIENT_CANDIDATE_COURSES"} ELSE {}
        /\ UNCHANGED error
  /\ UNCHANGED <<ask, req, nodes, results, reason>>

-----------------------------------------------------------------------------
(* The search: backtrack(index, selected) *)

Halted == reason # "SEARCH_EXHAUSTED"
Searching == pc = "search" /\ stack # <<>> /\ ~Halted
Top == Last(stack)
Rest == Front(stack)
AtEnd == Top.index > Len(plan.courses)
Course == plan.courses[Top.index]
MustTake == Course \in plan.required
Remaining == {plan.courses[i] : i \in Top.index..Len(plan.courses)}
Missing == plan.required \ CoursesOf(Top.selected)

\* Wrong variant: one section more than the limit.
PastNodeLimit(n) == n > req.maxNodes

AtNodeLimit(n) == n >= req.maxNodes

\* Wrong variant: one target is enough.
TargetCountMet(S) == TargetCount(req) # None => Cardinality(S) = TargetCount(req)

TargetsMet(S) ==
  /\ TargetCount(req) # None => Cardinality(S) = TargetCount(req)
  /\ req.credits # None => Credits(S) >= req.credits

\* Wrong variant: a count that takes every course left is given up.
CountUnreachableEarly ==
  /\ TargetCount(req) # None
  /\ \/ Cardinality(Top.selected) > TargetCount(req)
     \/ Cardinality(Top.selected) + Cardinality(Remaining) <= TargetCount(req)

(* Sections in hand cannot reach the target with the courses that are left. *)
CountUnreachable ==
  /\ TargetCount(req) # None
  /\ \/ Cardinality(Top.selected) > TargetCount(req)
     \/ Cardinality(Top.selected) + Cardinality(Remaining) < TargetCount(req)
CreditsUnreachable ==
  LET largest(c) == Max({Catalog[s].credit : s \in OfferedOf(req, c)}) IN
  req.credits # None
    /\ Credits(Top.selected) + MapThenSumSet(largest, Remaining) < req.credits

\* Wrong variant: what was pruned on the way is not validated as a whole.
OfferedUnvalidated(S) == IF ~Contains(results, S) THEN Append(results, S) ELSE results

(* _append_candidate: validated as a whole, required courses and credit    *)
(* bounds included; a combination met before is not offered again.         *)
Offered(S) ==
  LET all == req.fixed \cup S IN
  IF /\ HardRulesHold(all, req.required, req)
     /\ Valid(all, MaxGap, req.min, req.minInclusive, req.max, req.maxInclusive)
     /\ ~Contains(results, S)
  THEN Append(results, S) ELSE results

CanAdd(S, s) ==
  LET all == req.fixed \cup S \cup {s} IN
  HardRulesHold(all, {}, req) /\ Valid(all, MaxGap, None, TRUE, None, TRUE)

RejectionCodes(S, s) ==
  LET before == req.fixed \cup S IN
  {c \in {"TIME_CONFLICT", "CAMPUS_MOVEMENT_VIOLATION", "SECTION_NOT_ALLOWED"} :
     \/ c = "TIME_CONFLICT" /\ \E t \in before : ConflictsWith(s, t)
     \/ c = "CAMPUS_MOVEMENT_VIOLATION" /\ TravelIssue(before \cup {s}, MaxGap)
     \/ c = "SECTION_NOT_ALLOWED" /\ ~SectionAllowed(s, req)}

StopAtNodeLimit(codes) ==
  /\ reason' = "MAX_SEARCH_NODES_REACHED"
  /\ failures' = failures \cup codes \cup {"SEARCH_LIMIT_REACHED"}
  /\ stack' = Rest

(* A course that is not required is first left out: the call for the next  *)
(* course comes before its own sections are tried.                         *)
Explored ==
  LET tried == Append(Rest, [Top EXCEPT !.item = 1]) IN
  IF MustTake THEN tried ELSE Append(tried, Frame(Top.index + 1, Top.selected))

VisitAtLimit ==
  /\ Searching /\ Top.item = 0 /\ AtNodeLimit(nodes)
  /\ StopAtNodeLimit({})
  /\ UNCHANGED <<nodes, results>>

VisitHopeless ==
  /\ Searching /\ Top.item = 0 /\ ~AtNodeLimit(nodes)
  /\ CountUnreachable \/ CreditsUnreachable
  /\ failures' = failures \cup
       {IF CountUnreachable THEN "TARGET_COURSE_COUNT_UNREACHABLE" ELSE "TARGET_CREDITS_UNREACHABLE"}
  /\ stack' = Rest
  /\ UNCHANGED <<nodes, results, reason>>

VisitComplete ==
  /\ Searching /\ Top.item = 0 /\ ~AtNodeLimit(nodes)
  /\ ~CountUnreachable /\ ~CreditsUnreachable
  /\ Missing = {} /\ TargetsMet(Top.selected)
  /\ results' = Offered(Top.selected)
  /\ IF Len(results') >= req.maxResults
       THEN reason' = "MAX_RESULTS_REACHED" /\ stack' = Rest
       ELSE /\ UNCHANGED reason
            /\ stack' = IF TargetCount(req) # None \/ AtEnd THEN Rest ELSE Explored
  /\ UNCHANGED <<nodes, failures>>

(* At the end only a required course can be missing: an unmet target was   *)
(* unreachable and is cut before.                                          *)
VisitIncomplete ==
  /\ Searching /\ Top.item = 0 /\ ~AtNodeLimit(nodes)
  /\ ~CountUnreachable /\ ~CreditsUnreachable
  /\ ~(Missing = {} /\ TargetsMet(Top.selected))
  /\ IF AtEnd
       THEN /\ stack' = Rest
            /\ failures' = failures \cup {"REQUIRED_COURSE_UNAVAILABLE"}
       ELSE stack' = Explored /\ UNCHANGED failures
  /\ UNCHANGED <<nodes, results, reason>>

Untried == Top.item \in 1..Len(plan.sections[Course])
Section == plan.sections[Course][Top.item]
Advanced == [Top EXCEPT !.item = @ + 1]

TryAtLimit ==
  /\ Searching /\ Top.item > 0 /\ Untried /\ AtNodeLimit(nodes)
  /\ StopAtNodeLimit({})
  /\ UNCHANGED <<nodes, results>>

TryFits ==
  /\ Searching /\ Top.item > 0 /\ Untried /\ ~AtNodeLimit(nodes)
  /\ CanAdd(Top.selected, Section)
  /\ nodes' = nodes + 1
  /\ stack' = Append(Append(Rest, [Advanced EXCEPT !.accepted = TRUE]),
                     Frame(Top.index + 1, Top.selected \cup {Section}))
  /\ UNCHANGED <<results, reason, failures>>

TryRejected ==
  /\ Searching /\ Top.item > 0 /\ Untried /\ ~AtNodeLimit(nodes)
  /\ ~CanAdd(Top.selected, Section)
  /\ nodes' = nodes + 1
  /\ IF AtNodeLimit(nodes')
       THEN StopAtNodeLimit(RejectionCodes(Top.selected, Section))
       ELSE /\ stack' = Append(Rest, Advanced)
            /\ failures' = failures \cup RejectionCodes(Top.selected, Section)
            /\ UNCHANGED reason
  /\ UNCHANGED results

(* No section is left, or a limit was reached further down.                *)
Return ==
  /\ pc = "search" /\ stack # <<>>
  /\ \/ Halted /\ UNCHANGED failures
     \/ /\ ~Halted /\ Top.item > 0 /\ ~Untried
        /\ failures' = IF MustTake /\ ~Top.accepted
                         THEN failures \cup {"REQUIRED_COURSE_UNAVAILABLE"} ELSE failures
  /\ stack' = Rest
  /\ UNCHANGED <<nodes, results, reason>>

\* Wrong variant: no reason when none was collected.
FinishUnexplained ==
  /\ pc = "search" /\ stack = <<>>
  /\ pc' = "done"
  /\ UNCHANGED <<failures, stack, nodes, results, reason>>

Finish ==
  /\ pc = "search" /\ stack = <<>>
  /\ pc' = "done"
  /\ failures' = IF results = <<>> /\ failures = {}
                   THEN {"TARGET_COURSE_COUNT_UNREACHABLE"} ELSE failures
  /\ UNCHANGED <<stack, nodes, results, reason>>

Backtrack ==
  \/ VisitAtLimit \/ VisitHopeless \/ VisitComplete \/ VisitIncomplete
  \/ TryAtLimit \/ TryFits \/ TryRejected \/ Return

SearchInit ==
  /\ ask \in Asks
  /\ pc = "prepare" /\ req = None /\ plan = None /\ stack = <<>>
  /\ nodes = 0 /\ results = <<>> /\ reason = "SEARCH_EXHAUSTED"
  /\ failures = {} /\ error = None

SearchNext ==
  \/ Prepare \/ Start
  \/ Backtrack /\ UNCHANGED <<ask, pc, req, plan, error>>
  \/ Finish /\ UNCHANGED <<ask, req, plan, error>>

(* generate() is one synchronous call: it is run until it returns.         *)
SearchSpec == SearchInit /\ [][SearchNext]_searchVars /\ WF_searchVars(SearchNext)

=============================================================================

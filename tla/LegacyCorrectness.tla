------------------------- MODULE LegacyCorrectness -------------------------
(***************************************************************************)
(* What the generator and the ranking of the recommendation route must get *)
(* right, against a definition of an admissible timetable that does not    *)
(* follow the loops.                                                       *)
(***************************************************************************)
EXTENDS LegacyRanking

(* Every variable has its type.                                            *)
LegacyTypeOK ==
  /\ order \in Orders
  /\ phase \in {"start", "required", "electives", "done"}
  /\ choices \in Seq(SUBSET Sections) /\ groups \in Seq(SUBSET Sections)
  /\ chosen \subseteq Sections
  /\ found \in Seq(SUBSET Sections)
  /\ truncated \in BOOLEAN
  /\ truncated => Len(found) = order.limit
  /\ ranked # None => ToSet(ranked) \subseteq ToSet(found)

-----------------------------------------------------------------------------
(* The reference definition.                                               *)

WithinHours(m, hard) ==
  /\ m.day \notin hard.excludedDays /\ m.day \notin hard.freeDays
  /\ hard.earliest # None => m.start >= hard.earliest
  /\ hard.latest # None => m.end <= hard.latest
  /\ \A g \in hard.excludedRanges : g.day = m.day => m.end <= g.start \/ g.end <= m.start

(* n + 1 classes in a row, each the next of its day and without a break.   *)
RowLongerThan(S, n) ==
  \E row \in [0..n -> Meets(S)] :
    \A i \in 1..n : Neighbour(row[i - 1], row[i], Meets(S)) /\ row[i].start = row[i - 1].end

HardConditionsHold(S, hard) ==
  /\ \A m \in Meets(S) : WithinHours(m, hard)
  /\ \A id \in hard.required : \E s \in S : id \in {s, CourseOf(s)}
  /\ \A s \in S : {s, CourseOf(s)} \cap hard.excluded = {}
  /\ \A s \in S : Catalog[s].professor \notin hard.excludedProfessors
  /\ hard.maxChain # None => ~RowLongerThan(S, hard.maxChain)

CreditsAllowed(r, S) ==
  /\ r.min # None => Credits(S) > r.min \/ (r.minInclusive /\ Credits(S) = r.min)
  /\ r.max # None => Credits(S) < r.max \/ (r.maxInclusive /\ Credits(S) = r.max)
  /\ r.target # None => Credits(S) <= r.target

Recommendable(r, S) ==
  /\ r.fixed \subseteq S /\ S \subseteq r.fixed \cup r.required \cup ElectivesOf(r)
  /\ \A s, t \in S : s # t =>
       CourseOf(s) # CourseOf(t) /\ \A a \in Catalog[s].meets, b \in Catalog[t].meets :
         a.day # b.day \/ a.end <= b.start \/ b.end <= a.start
  /\ ~TravelIssue(S, None)
  /\ CreditsAllowed(r, S)
  /\ HardConditionsHold(S, r.hard)

-----------------------------------------------------------------------------

(* Where the code falls short of the best timetable.  The target is taken  *)
(* for a credit limit, so an exclusive limit excludes the target itself;   *)
(* and _elective_sizes counts electives up to the minimum only, so a       *)
(* target above it, or an exclusive minimum that is already met exactly,   *)
(* gets no more of them; nor does it count the electives that a hard       *)
(* condition names.                                                        *)
TargetAsLimit(r) == r.target # None /\ ~r.maxInclusive /\ r.target < r.max
ElectivesUpToMinimum(r) ==
  r.min # None /\ (r.target # None \/ ~r.minInclusive)

ElectivesByName(r) ==
  {id \in r.hard.required : \E s \in ElectivesOf(r) : id \in {s, CourseOf(s)}}
MoreNamedThanAsked(r) ==
  r.target = None /\ Cardinality(ElectivesByName(r)) > (IF r.count = None THEN 0 ELSE r.count)

(* A generation that was not truncated has found the best there is: no     *)
(* admissible timetable has more required courses, or as many and comes    *)
(* closer to the wanted electives and credits ("the closest candidates     *)
(* within the target are kept").  Left out are requests with one of the    *)
(* shortcomings above, and timetables of which a part is impossible    *)
(* because of a trip that another class of theirs makes unnecessary.       *)
BestIsFound ==
  /\ phase = "done" /\ wish = None /\ ~truncated
  /\ ~TargetAsLimit(order) /\ ~ElectivesUpToMinimum(order) /\ ~MoreNamedThanAsked(order)
  =>
    \A E \in SUBSET (order.required \cup ElectivesOf(order)) :
      LET S == order.fixed \cup E IN
      Recommendable(order, S)
        /\ (\A T \in SUBSET E : ~TravelIssue(order.fixed \cup T, None))
        => found # <<>> /\ ~KeyLess(ObjectiveKey(found[1], order), ObjectiveKey(S, order))

(* An empty answer carries a reason, with one exception: when an exclusive *)
(* limit excludes the target and the majors reach it already.              *)
EmptyRecommendationIsExplained ==
  phase = "done" /\ found = <<>> =>
    \/ diagnostics \ {"NO_REQUIRED_GENERAL_CANDIDATE"} # {}
    \/ TargetAsLimit(order) /\ Credits(order.fixed) = order.target

(* The generator implements a generator's promise: every timetable it      *)
(* offers can be recommended, none is offered twice, the limit holds, and  *)
(* it answers in the end.                                                  *)
LegacyPromise ==
  INSTANCE TimetableOffer WITH
    Admissible <- Recommendable, LimitOf <- LAMBDA r : r.limit,
    request <- order,
    offers <- ToSet(found), answered <- (phase = "done")

LegacyKeepsPromise == LegacyPromise!Spec

(* A wish that is met never scores less than the same wish unmet, for any  *)
(* two of the candidates.  The exception is a first class wished before    *)
(* nine: the wish is met by a class at half past eight, and the early      *)
(* start it costs is not counted against a class that starts too early.    *)
MetWishScoresNoLess ==
  wish # None /\ ranked = None =>
    LET C == ToSet(found)
        NoLess(Value(_), Met(_), Unmet(_)) ==
          \A low \in {Value(S) : S \in {T \in C : Met(T)}} :
            \A high \in {Value(S) : S \in {T \in C : Unmet(T)}} : low >= high
        Early(S) == FirstMinute(Meets(S)) < wish.firstClass
        Late(S) == \E m \in Meets(S) : m.end > wish.latestEnd
        Free(S) == wish.freeDays \cap AttendanceDays(S) = {}
        Has(S, ids) == ids \subseteq S \cup CoursesOf(S)
        Avoids(S) == wish.avoided \cap (S \cup CoursesOf(S)) = {}
        Candidate(S) == TRUE
    IN /\ NoLess(FreeDayValue, Free, Candidate)
       /\ wish.firstClass # None /\ wish.firstClass >= 540 =>
            NoLess(FirstClassValue, LAMBDA S : ~Early(S), Early)
       /\ wish.latestEnd # None => NoLess(LatestEndValue, LAMBDA S : ~Late(S), Late)
       /\ NoLess(PreferredValue, LAMBDA S : Has(S, wish.preferred), Candidate)
       /\ NoLess(AvoidedValue, Avoids, Candidate)

(* What is ranked first is best by the targets, whatever the weights and   *)
(* wishes: no wish makes up for a required course.                         *)
TargetsComeFirst ==
  ranked # None /\ ranked # <<>> =>
    \A S \in ToSet(found) :
      /\ Cardinality(RequiredIn(S, order)) <= Cardinality(RequiredIn(ranked[1], order))
      /\ Cardinality(RequiredIn(S, order)) = Cardinality(RequiredIn(ranked[1], order))
           => ElectiveGap(S, order) >= ElectiveGap(ranked[1], order)

=============================================================================

------------------------ MODULE CandidateCorrectness ------------------------
(***************************************************************************)
(* What the agent's generation and ranking must get right, against a       *)
(* definition of an admissible timetable that does not follow the search.  *)
(***************************************************************************)
EXTENDS CandidateRanking

FrameType ==
  [index : Nat \ {0}, selected : SUBSET Sections, item : Nat, accepted : BOOLEAN]

(* Every variable has its type; a search has a request and a plan.         *)
SearchTypeOK ==
  /\ ask \in Asks
  /\ pc \in {"prepare", "start", "search", "done"}
  /\ pc = "search" =>
       /\ req # None
       /\ plan.courses \in Seq(Courses)
       /\ \A c \in ToSet(plan.courses) : plan.sections[c] \in Seq(Sections)
  /\ stack \in Seq(FrameType)
  /\ nodes \in Nat
  /\ results \in Seq(SUBSET Sections)
  /\ reason \in {"SEARCH_EXHAUSTED", "MAX_RESULTS_REACHED", "MAX_SEARCH_NODES_REACHED"}

-----------------------------------------------------------------------------
(* The reference definition.  A required id may name a course or one of    *)
(* its sections, and then that section is meant; an excluded id excludes   *)
(* the course it belongs to.                                               *)

Named(S) == S \cup CoursesOf(S)

Disjoint(S) ==
  \A s, t \in S : s # t =>
    /\ CourseOf(s) # CourseOf(t)
    /\ \A a \in Catalog[s].meets, b \in Catalog[t].meets :
         a.day # b.day \/ a.end <= b.start \/ b.end <= a.start

InWindow(r, S) ==
  \A s \in S :
    /\ r.department # None => r.department \notin Barred[s]
    /\ Catalog[s].area \notin r.excludedAreas
    /\ \A m \in Catalog[s].meets :
         /\ m.day \notin r.freeDays
         /\ r.earliest # None => m.start >= r.earliest
         /\ r.latest # None => m.end <= r.latest

CreditsWithin(r, S) ==
  /\ r.min # None => Credits(S) > r.min \/ (r.minInclusive /\ Credits(S) = r.min)
  /\ r.max # None => Credits(S) < r.max \/ (r.maxInclusive /\ Credits(S) = r.max)

MeetsTargets(r, S) ==
  /\ r.count # None => Cardinality(S) = r.count
  /\ r.credits # None => Credits(S) >= r.credits
  /\ r.count = None /\ r.credits = None => Cardinality(S) = 1

Admissible(r, S) ==
  LET all == r.fixed \cup S IN
  /\ S \subseteq r.offered /\ S \cap r.fixed = {}
  /\ Disjoint(all) /\ ~TravelIssue(all, MaxGap)
  /\ r.required \subseteq Named(all)
  /\ CoursesOf(S) \cap Normalized(r.excluded, r.offered) = {}
  /\ InWindow(r, all) /\ CreditsWithin(r, all)
  /\ MeetsTargets(r, S)

-----------------------------------------------------------------------------

(* A candidate is a timetable the student can take: no two of its sections *)
(* meet at once, every required course is in it and no excluded one, it    *)
(* keeps the free days, the hours and the credit bounds, and it meets both *)
(* targets ("both hard targets when supplied: a returned candidate must    *)
(* satisfy both").                                                         *)
CandidatesAreAdmissible ==
  \A S \in ToSet(results) : Admissible(req, S)

(* A search that reports SEARCH_EXHAUSTED has left nothing out: every      *)
(* admissible timetable was offered, in spite of the pruning by targets,   *)
(* the order of the courses, the skipped branches and the early returns.   *)
(* Only a timetable with a part that is itself impossible may be missing:  *)
(* the class that uses up the gap between two far buildings may come after *)
(* both of them in the search.                                             *)
ExhaustedSearchIsComplete ==
  pc = "done" /\ error = None /\ reason = "SEARCH_EXHAUSTED" =>
    \A S \in SUBSET req.offered :
      Admissible(req, S) /\ (\A T \in SUBSET S : ~TravelIssue(req.fixed \cup T, MaxGap))
        => S \in ToSet(results)

(* The two limits of a search: it tries no more sections and returns no    *)
(* more candidates than the request allows, and it says it was cut short   *)
(* by a limit only when that limit was reached.                            *)
LimitsAreKept ==
  req # None =>
    /\ nodes <= req.maxNodes
    /\ Len(results) <= req.maxResults
    /\ reason = "MAX_RESULTS_REACHED" <=> Len(results) = req.maxResults
    /\ reason = "MAX_SEARCH_NODES_REACHED" => nodes = req.maxNodes

(* An empty answer says why: the limit that cut the search, or a course or *)
(* target that could not be reached.                                       *)
EmptyAnswerIsExplained ==
  pc = "done" /\ req # None /\ results = <<>> =>
    /\ failures # {}
    /\ reason = "MAX_SEARCH_NODES_REACHED" => "SEARCH_LIMIT_REACHED" \in failures

(* The search implements a generator's promise.                            *)
Promise ==
  INSTANCE TimetableOffer WITH
    LimitOf <- LAMBDA r : r.maxResults,
    request <- req, offers <- ToSet(results), answered <- (pc = "done")

SearchKeepsPromise == Promise!Spec

(* A preference recorded as satisfied does not lower the score.  There is  *)
(* one exception: the gap of exactly the threshold, which is short enough  *)
(* for the compact schedule (<=) and long enough for the penalty (>=).     *)
SatisfiedPreferenceDoesNotCost ==
  ranking # None =>
    \A S \in ToSet(ranking) : \A c \in Stated(soft) :
      ComponentOf(c, S, soft).satisfied =>
        \/ ComponentOf(c, S, soft).score >= 0
        \/ /\ c = "compact" /\ LongGaps(S) = 1 /\ TotalGap(S) = LongGapThreshold

=============================================================================

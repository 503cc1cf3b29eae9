-------------------------- MODULE CompletenessProofs --------------------------
(***************************************************************************)
(* A search that ends because it has nothing left to try has left nothing  *)
(* out, for any catalog, rules and requests.  Each timetable that is to be *)
(* found stays covered by an open call until it is offered: the call has   *)
(* taken some of its sections and will come to the others.  And the search *)
(* does come to an end.                                                    *)
(***************************************************************************)
EXTENDS CandidateProofs

\* What is to be found.
Wanted(r, S) ==
  /\ S \subseteq r.offered /\ Admissible(r, S)
  /\ \A T \in SUBSET S : ~TravelIssue(r.fixed \cup T, MaxGap)

-----------------------------------------------------------------------------
(* What is wanted passes every test on the way.                             *)

\* Classes of a disjoint timetable are of different courses and do not conflict.
LEMMA DisjointDoNotConflict ==
  ASSUME NEW T \in SUBSET Sections, Disjoint(T), NEW s \in T, NEW t \in T, s # t
  PROVE  CourseOf(s) # CourseOf(t) /\ ~ConflictsWith(s, t)
<1>1. CourseOf(s) # CourseOf(t)
  BY DEF Disjoint
<1>2. ASSUME NEW a \in Catalog[s].meets, NEW b \in Catalog[t].meets PROVE ~Overlaps(a, b)
  <2>1. a.day # b.day \/ a.end <= b.start \/ b.end <= a.start
    BY DEF Disjoint
  <2>2. a.start \in Nat /\ a.end \in Nat /\ b.start \in Nat /\ b.end \in Nat
    BY NumbersOfMeetings
  <2> QED
    BY <2>1, <2>2 DEF Overlaps
<1> QED
  BY <1>1, <1>2 DEF ConflictsWith

\* A wanted choice is a finite part of the pool, one class a course, with all required
\* courses.
LEMMA WantedParts ==
  ASSUME NEW r, r.fixed \cup r.offered \subseteq Sections, NEW S, Wanted(r, S)
  PROVE  /\ S \in SUBSET Pool(r) /\ S \in SUBSET Sections /\ IsFiniteSet(S)
         /\ \A s, t \in S : s # t => CourseOf(s) # CourseOf(t)
         /\ UnresolvedRequired(r) \subseteq CoursesOf(S)
<1> DEFINE all == r.fixed \cup S
<1>0. S \subseteq r.offered /\ S \cap r.fixed = {} /\ all \in SUBSET Sections
  BY DEF Wanted, Admissible
<1>1. \A s, t \in all : s # t => CourseOf(s) # CourseOf(t)
  BY DEF Wanted, Admissible, Disjoint
<1>2. CoursesOf(S) \cap CoursesOf(r.fixed) = {}
  BY <1>0, <1>1 DEF CoursesOf
<1>3. CoursesOf(S) \cap Normalized(r.excluded, r.offered) = {}
  BY DEF Wanted, Admissible
<1>4. \A s \in S : CourseOf(s) \in SearchedCourses(r)
  BY <1>0, <1>2, <1>3 DEF SearchedCourses, CoursesOf
<1>5. S \in SUBSET Pool(r)
  BY <1>0, <1>4 DEF Pool
<1>6. IsFiniteSet(S)
  <2>1. S \in SUBSET Sections
    BY <1>0
  <2> QED
    BY <2>1, CatalogIsTyped, FS_Subset
<1>7. ASSUME NEW c \in UnresolvedRequired(r) PROVE c \in CoursesOf(S)
  <2> DEFINE context == r.fixed \cup r.offered
  <2>1. c \in Normalized(r.required, context) /\ c \notin CoursesOf(r.fixed)
    BY <1>7 DEF UnresolvedRequired
  <2>2. r.required \subseteq Named(all)
    BY DEF Wanted, Admissible
  <2>3. ASSUME NEW id \in r.required PROVE \E x \in all : id \in {x, CourseOf(x)}
    BY <2>2 DEF Named, CoursesOf
  <2>4. all \subseteq context
    BY <1>0
  <2>5. PICK id \in r.required : \E s \in context : id \in {s, CourseOf(s)} /\ c = CourseOf(s)
    <3>1. CASE c \in r.required /\ ~\E s \in context : c \in {s, CourseOf(s)}
      BY <2>3, <2>4, <3>1
    <3> HIDE DEF context
    <3>2. context \subseteq Sections
      BY DEF context
    <3> QED
      BY <2>1, <3>1, <3>2, NameStandsFor
  <2>6. PICK s \in context : id \in {s, CourseOf(s)} /\ c = CourseOf(s)
    BY <2>5
  <2>7. PICK x \in all : id \in {x, CourseOf(x)}
    BY <2>3
  <2>8. CourseOf(x) = c
    BY <1>0, <2>6, <2>7, OneCourseByName
  <2>9. x \notin r.fixed
    BY <2>1, <2>8 DEF CoursesOf
  <2> QED
    BY <2>7, <2>8, <2>9 DEF CoursesOf
<1> QED
  BY <1>0, <1>1, <1>5, <1>6, <1>7

\* No excluded name is met along the way, whatever part of a wanted timetable is
\* in hand when it is looked up.
LEMMA NothingExcluded ==
  ASSUME NEW r, r.fixed \cup r.offered \subseteq Sections, FixedFits(r),
         NEW S, Wanted(r, S), NEW T \in SUBSET S
  PROVE  CoursesOf(r.fixed \cup T) \cap Normalized(r.excluded, r.fixed \cup T) = {}
<1> DEFINE all == r.fixed \cup T
<1>0. S \subseteq r.offered /\ all \subseteq Sections
  BY DEF Wanted
<1>a. CoursesOf(r.fixed) \cap Normalized(r.excluded, r.fixed) = {}
  BY DEF FixedFits, HardRulesHold
<1>b. CoursesOf(S) \cap Normalized(r.excluded, r.offered) = {}
  BY DEF Wanted, Admissible
<1> SUFFICES ASSUME NEW c \in CoursesOf(all) \cap Normalized(r.excluded, all) PROVE FALSE
  OBVIOUS
<1>1. PICK x \in all : c = CourseOf(x)
  BY DEF CoursesOf
<1>2. PICK id \in r.excluded : \E s \in all : id \in {s, CourseOf(s)} /\ c = CourseOf(s)
  <2>1. CASE c \in r.excluded /\ ~\E s \in all : c \in {s, CourseOf(s)}
    BY <1>1, <2>1
  <2> HIDE DEF all
  <2> QED
    BY <1>0, <2>1, NameStandsFor
<1>3. PICK s \in all : id \in {s, CourseOf(s)} /\ c = CourseOf(s)
  BY <1>2
<1>4. CASE s \in r.fixed
  <2>1. r.fixed \subseteq Sections
    OBVIOUS
  <2>2. CourseOf(s) \in Normalized(r.excluded, r.fixed)
    BY <1>3, <1>4, <2>1, NameFound
  <2> QED
    BY <1>4, <1>a, <2>2 DEF CoursesOf
<1>5. CASE s \in S
  <2>1. r.offered \subseteq Sections /\ s \in r.offered
    BY <1>0, <1>5
  <2>2. CourseOf(s) \in Normalized(r.excluded, r.offered)
    BY <1>3, <2>1, NameFound
  <2> QED
    BY <1>5, <1>b, <2>2 DEF CoursesOf
<1> QED
  BY <1>4, <1>5

\* A part of a wanted choice passes every rule that prunes the search.
LEMMA PartsAreAllowed ==
  ASSUME NEW r, r.fixed \cup r.offered \subseteq Sections, FixedFits(r),
         NEW S, Wanted(r, S), NEW T \in SUBSET S
  PROVE  /\ HardRulesHold(r.fixed \cup T, {}, r)
         /\ \A s, t \in r.fixed \cup T : s # t => ~ConflictsWith(s, t)
         /\ ~TravelIssue(r.fixed \cup T, MaxGap)
<1> DEFINE all == r.fixed \cup S
<1>0. all \in SUBSET Sections /\ Disjoint(all) /\ InWindow(r, all)
  BY DEF Wanted, Admissible
<1>1. \A s, t \in all : s # t => CourseOf(s) # CourseOf(t) /\ ~ConflictsWith(s, t)
  <2> HIDE DEF all
  <2> QED
    BY <1>0, DisjointDoNotConflict
<1>2. \A s \in all : SectionAllowed(s, r)
  BY <1>0 DEF InWindow, SectionAllowed
<1>3. Normalized({}, r.fixed \cup T) \subseteq CoursesOf(r.fixed \cup T)
  BY DEF Normalized
<1>4. CoursesOf(r.fixed \cup T) \cap Normalized(r.excluded, r.fixed \cup T) = {}
  BY NothingExcluded
<1>5. r.fixed \cup T \subseteq all
  OBVIOUS
<1>6. ~TravelIssue(r.fixed \cup T, MaxGap)
  BY DEF Wanted
<1> HIDE DEF all
<1>7. HardRulesHold(r.fixed \cup T, {}, r)
  BY <1>1, <1>2, <1>3, <1>4, <1>5 DEF HardRulesHold
<1> QED
  BY <1>1, <1>5, <1>6, <1>7

\* A wanted timetable passes the validation as a whole.
LEMMA WholeIsValid ==
  ASSUME NEW a \in Asks, NEW r, r = Prepared(a), r.fixed \cup r.offered \subseteq Sections,
         FixedFits(r), NEW S, Wanted(r, S)
  PROVE  /\ HardRulesHold(r.fixed \cup S, r.required, r)
         /\ Valid(r.fixed \cup S, MaxGap, r.min, r.minInclusive, r.max, r.maxInclusive)
<1> DEFINE all == r.fixed \cup S
<1>0. all \in SUBSET Sections /\ r.required \subseteq Named(all) /\ CreditsWithin(r, all)
  BY DEF Wanted, Admissible
<1>1. /\ HardRulesHold(all, {}, r)
      /\ \A s, t \in all : s # t => ~ConflictsWith(s, t)
      /\ ~TravelIssue(all, MaxGap)
  BY PartsAreAllowed
<1> HIDE DEF all
<1>2. ASSUME NEW c \in Normalized(r.required, all) PROVE c \in CoursesOf(all)
  <2>1. ASSUME NEW id \in r.required PROVE \E x \in all : id \in {x, CourseOf(x)}
    BY <1>0 DEF Named, CoursesOf
  <2>2. \E s \in all : c = CourseOf(s)
    BY <1>0, <2>1, NameStandsFor
  <2> QED
    BY <2>2 DEF CoursesOf
<1>3. HardRulesHold(all, r.required, r)
  BY <1>1, <1>2 DEF HardRulesHold
<1>4. Credits(all) \in Nat
  BY <1>0, CreditsAreNumbers
<1>5. r.min \in Nat \cup {None} /\ r.max \in Nat \cup {None}
  BY AsksAreTyped DEF Prepared
<1> HIDE DEF Credits
<1>6. ~BelowMinimum(Credits(all), r.min, r.minInclusive)
  BY <1>0, <1>4, <1>5, AsksAreTyped DEF CreditsWithin, BelowMinimum
<1>7. ~AboveMaximum(Credits(all), r.max, r.maxInclusive)
  BY <1>0, <1>4, <1>5, AsksAreTyped DEF CreditsWithin, AboveMaximum
<1> QED
  BY <1>1, <1>3, <1>6, <1>7 DEF Valid, all

-----------------------------------------------------------------------------
(* What an open call will come to.                                          *)

\* The course c is at position i of the plan or after it.
Later(p, i, c) == \E j \in 1..Len(p.courses) : j >= i /\ p.courses[j] = c

\* An open call has S before it: it has not looked at any section yet, or one of
\* its sections still to be tried is in S and the rest of S comes further down.
Covers(p, f, S) ==
  /\ f.selected \subseteq S
  /\ \A s \in f.selected : ~Later(p, f.index, CourseOf(s))
  /\ IF f.item = 0
     THEN \A s \in S \ f.selected : Later(p, f.index, CourseOf(s))
     ELSE \E s \in S \ f.selected :
            /\ CourseOf(s) = p.courses[f.index]
            /\ \E j \in 1..Len(p.sections[CourseOf(s)]) :
                 j >= f.item /\ p.sections[CourseOf(s)][j] = s
            /\ \A t \in (S \ f.selected) \ {s} : Later(p, f.index + 1, CourseOf(t))

-----------------------------------------------------------------------------
(* Nothing that is wanted is given up as hopeless.                          *)

\* A wanted choice has the count and the credits that were asked for.
LEMMA TargetsOfWanted ==
  ASSUME NEW r, NEW S, Wanted(r, S)
  PROVE  /\ TargetCount(r) # None => Cardinality(S) = TargetCount(r)
         /\ r.credits # None => Credits(S) >= r.credits
<1>1. MeetsTargets(r, S)
  BY DEF Wanted, Admissible
<1> HIDE DEF Credits
<1> QED
  BY <1>1 DEF MeetsTargets, TargetCount

\* The largest credit of a course's classes is at least each of them.
LEMMA LargestCredit ==
  ASSUME NEW S \in SUBSET Sections, S # {}
  PROVE  LET M == {Catalog[s].credit : s \in S} IN
         Max(M) \in Nat /\ \A s \in S : Catalog[s].credit <= Max(M)
<1> DEFINE M == {Catalog[s].credit : s \in S}
<1>1. M \in SUBSET Nat /\ M # {}
  BY CatalogIsTyped
<1>2. Credits(S) \in Nat /\ \A k \in M : k <= Credits(S)
  BY CreditsAreNumbers, CreditsCountEach
<1> HIDE DEF Credits
<1>3. PICK n \in M : \A k \in M : n >= k
  <2> HIDE DEF M
  <2> QED
    BY <1>1, <1>2, GreatestNumber
<1>4. Max(M) \in M /\ \A k \in M : Max(M) >= k
  <2> HIDE DEF M
  <2> QED
    BY <1>3 DEF Max
<1>5. \A k \in M : k <= Max(M)
  <2> HIDE DEF M
  <2> QED
    BY <1>1, <1>4
<1> QED
  BY <1>1, <1>4, <1>5

\* What CreditsUnreachable adds up.
Heaviest(r, c) == Max({Catalog[s].credit : s \in OfferedOf(r, c)})

\* The credits that are still within reach are the sum of the courses' heaviest classes.
LEMMA HeaviestAreSummed ==
  ASSUME NEW r, NEW R, IsFiniteSet(R), NEW v \in [R -> Nat],
         \A c \in R : v[c] = Heaviest(r, c), NEW g, IsSum(v, g, R)
  PROVE  MapThenSumSet(LAMBDA c : Heaviest(r, c), R) = g[R]
<1> DEFINE Step(h, T) == IF T = {} THEN 0
                         ELSE Heaviest(r, CHOOSE x \in T : TRUE)
                                + h[T \ {CHOOSE x \in T : TRUE}]
           Folds(h) == h = [T \in SUBSET R |-> Step(h, T)]
           sum == CHOOSE h : Folds(h)
<1>1. MapThenSumSet(LAMBDA c : Heaviest(r, c), R) = sum[R]
  BY DEF MapThenSumSet, MapThenFoldSet
<1>2. ASSUME NEW h, NEW T \in SUBSET R PROVE SumStep(v, h, T) = Step(h, T)
  BY Chosen DEF SumStep
<1>3. \A T \in SUBSET R : g[T] = Step(g, T)
  BY <1>2 DEF IsSum
<1>4. g = [T \in SUBSET R |-> g[T]]
  BY DEF IsSum
<1> HIDE DEF Step
<1>5. Folds(g)
  BY <1>3, <1>4
<1> HIDE DEF Folds
<1>6. Folds(sum)
  BY <1>5
<1> HIDE DEF sum
<1>7. \A T \in SUBSET R : sum[T] = Step(sum, T)
  BY <1>6 DEF Folds
<1>8. IsSum(v, sum, R)
  <2>1. sum = [T \in SUBSET R |-> sum[T]]
    BY <1>6 DEF Folds
  <2>2. \A T \in SUBSET R : sum[T] = SumStep(v, sum, T)
    BY <1>2, <1>7
  <2> QED
    BY <2>1, <2>2 DEF IsSum
<1>9. \A T \in SUBSET R : sum[T] = g[T]
  BY <1>8, SumsAgree
<1> QED
  BY <1>1, <1>9

\* The call at the top of the stack and the timetable it is to lead to.
LEMMA CoveredParts ==
  ASSUME Sound, pc = "search", stack # <<>>, NEW S, Wanted(req, S), Covers(plan, Top, S)
  PROVE  /\ S \in SUBSET Pool(req) /\ S \in SUBSET Sections /\ IsFiniteSet(S)
         /\ \A s, t \in S : s # t => CourseOf(s) # CourseOf(t)
         /\ Top.selected \subseteq S
         /\ Top.index \in Nat \ {0} /\ Top.item \in Nat
         /\ Len(plan.courses) \in Nat
         /\ Lists(plan.courses, SearchedCourses(req))
<1>1. Top.index \in Nat \ {0} /\ Top.item \in Nat
  BY OpenCalls
<1>2. req.fixed \cup req.offered \subseteq Sections
  BY DEF Sound
<1>3. Lists(plan.courses, SearchedCourses(req)) /\ Len(plan.courses) \in Nat
  BY DEF Sound, PlanFits, Lists
<1>4. Top.selected \subseteq S
  BY DEF Covers
<1> QED
  BY <1>1, <1>2, <1>3, <1>4, WantedParts

\* A call given up for its count or its credits has no wanted choice under it.
LEMMA HopelessCoversNothing ==
  ASSUME Sound, pc = "search", stack # <<>>, Top.item = 0,
         CountUnreachable \/ CreditsUnreachable,
         NEW S, Wanted(req, S), Covers(plan, Top, S)
  PROVE  FALSE
<1> DEFINE D == S \ Top.selected
           kind == [s \in D |-> CourseOf(s)]
           f == [i \in Top.index..Len(plan.courses) |-> plan.courses[i]]
<1>1. /\ S \in SUBSET Pool(req) /\ S \in SUBSET Sections /\ IsFiniteSet(S)
      /\ \A s, t \in S : s # t => CourseOf(s) # CourseOf(t)
      /\ Top.selected \subseteq S
      /\ Top.index \in Nat \ {0} /\ Len(plan.courses) \in Nat
      /\ Lists(plan.courses, SearchedCourses(req))
  BY CoveredParts
<1>2. \A s \in D : CourseOf(s) \in Remaining
  BY <1>1 DEF Covers, Later, Remaining
<1>3. IsFiniteSet(Remaining) /\ Remaining \subseteq SearchedCourses(req)
  <2>1. f \in Surjection(Top.index..Len(plan.courses), Remaining)
    BY DEF Surjection, Remaining
  <2>2. IsFiniteSet(Top.index..Len(plan.courses))
    BY <1>1, FS_Interval
  <2> HIDE DEF f
  <2>3. IsFiniteSet(Remaining)
    BY <2>1, <2>2, FS_Surjection
  <2>4. Remaining \subseteq SearchedCourses(req)
    BY <1>1 DEF Remaining, Lists
  <2> QED
    BY <2>3, <2>4
<1>4. /\ kind \in [D -> Remaining]
      /\ \A s, t \in D : s # t => kind[s] # kind[t]
  BY <1>1, <1>2
<1>5. /\ D \in SUBSET Sections /\ Top.selected \in SUBSET Sections
      /\ D \cap Top.selected = {} /\ S = D \cup Top.selected
      /\ IsFiniteSet(D) /\ IsFiniteSet(Top.selected)
  <2>1. D \in SUBSET S /\ Top.selected \in SUBSET S
    BY <1>1
  <2>2. IsFiniteSet(D) /\ IsFiniteSet(Top.selected)
    <3> HIDE DEF D
    <3> QED
      BY <1>1, <2>1, FS_Subset
  <2> QED
    BY <1>1, <2>1, <2>2
<1> HIDE DEF D
<1>6. CASE CountUnreachable
  <2>1. TargetCount(req) # None /\ Cardinality(S) = TargetCount(req)
    BY <1>6, TargetsOfWanted DEF CountUnreachable
  <2>2. Cardinality(S) \in Nat /\ Cardinality(Top.selected) \in Nat /\ Cardinality(D) \in Nat
        /\ Cardinality(Remaining) \in Nat
    BY <1>1, <1>3, <1>5, FS_CardinalityType
  <2>3. Cardinality(Top.selected) <= Cardinality(S)
    BY <1>1, FS_Subset
  <2>4. Cardinality(S) = Cardinality(D) + Cardinality(Top.selected)
    <3>1. Cardinality(S) = Cardinality(D) + Cardinality(Top.selected)
                             - Cardinality(D \cap Top.selected)
      BY <1>5, FS_Union
    <3>2. Cardinality(D \cap Top.selected) = 0
      BY <1>5, FS_EmptySet
    <3> QED
      BY <2>2, <3>1, <3>2
  <2>5. Cardinality(D) <= Cardinality(Remaining)
    <3>1. kind \in Injection(D, Remaining)
      BY <1>4 DEF Injection, IsInjective
    <3> HIDE DEF kind
    <3> QED
      BY <1>3, <3>1, FS_Injection
  <2> QED
    BY <1>6, <2>1, <2>2, <2>3, <2>4, <2>5 DEF CountUnreachable
<1>7. CASE CreditsUnreachable
  <2> DEFINE v == [c \in Remaining |-> Heaviest(req, c)]
             most == MapThenSumSet(LAMBDA c : Heaviest(req, c), Remaining)
  <2>1. req.credits # None /\ Credits(Top.selected) + most < req.credits
    BY <1>7 DEF CreditsUnreachable, MapThenSumSet, MapThenFoldSet, Heaviest
  <2>2. ASSUME NEW c \in Remaining
        PROVE  /\ v[c] \in Nat
               /\ \A s \in OfferedOf(req, c) : Catalog[s].credit <= v[c]
    <3>1. OfferedOf(req, c) \in SUBSET Sections
      BY DEF Sound, OfferedOf
    <3>2. OfferedOf(req, c) # {}
      BY <1>3 DEF SearchedCourses, CoursesOf, OfferedOf
    <3> QED
      BY <3>1, <3>2, LargestCredit DEF Heaviest
  <2>3. v \in [Remaining -> Nat]
    BY <2>2
  <2>4. ASSUME NEW s \in D PROVE Catalog[s].credit <= v[kind[s]]
    <3>1. s \in OfferedOf(req, CourseOf(s)) /\ CourseOf(s) \in Remaining
      BY <1>1, <1>2, <1>5 DEF Pool, OfferedOf
    <3>2. kind[s] = CourseOf(s)
      OBVIOUS
    <3> HIDE DEF v, kind
    <3> QED
      BY <2>2, <3>1, <3>2
  <2>5. PICK h : IsSum(v, h, Remaining)
    <3> HIDE DEF v
    <3> QED
      BY <1>3, <2>3, SumExists
  <2>6. most = h[Remaining]
    <3>1. \A c \in Remaining : v[c] = Heaviest(req, c)
      OBVIOUS
    <3> HIDE DEF v
    <3> QED
      BY <1>3, <2>3, <2>5, <3>1, HeaviestAreSummed
  <2> HIDE DEF v, kind, most
  <2>7. D \in SUBSET Sections
    BY <1>5
  <2>8. \A s \in D : Catalog[s].credit <= v[kind[s]]
    BY <2>4
  <2>9. Credits(D) <= h[Remaining]
    BY <1>3, <1>4, <2>3, <2>5, <2>7, <2>8, CreditsAreBounded
  <2>10. Credits(S) = Credits(D) + Credits(Top.selected)
    BY <1>5, CreditsAdd
  <2>11. Credits(S) >= req.credits
    BY <2>1, TargetsOfWanted
  <2>12. Credits(D) \in Nat /\ Credits(Top.selected) \in Nat
    BY <1>5, CreditsAreNumbers
  <2>13. h[Remaining] \in Nat
    BY <1>3, <2>3, <2>5, SumsAreNumbers
  <2>14. req.credits \in Nat
    <3>1. PICK a \in Asks : req = Prepared(a)
      BY DEF Sound
    <3>2. req.credits = a.credits
      BY <3>1 DEF Prepared
    <3> QED
      BY <2>1, <3>2, AsksAreTyped
  <2> HIDE DEF Credits
  <2> QED
    BY <2>1, <2>6, <2>9, <2>10, <2>11, <2>12, <2>13, <2>14
<1> QED
  BY <1>6, <1>7

-----------------------------------------------------------------------------
(* The calls a step opens cover what the call it was made in covered.       *)

\* The members of a stack are those of its rest and its top.
LEMMA StackSplit ==
  ASSUME NEW T, NEW q \in Seq(T), q # <<>>
  PROVE  ToSet(q) = ToSet(Front(q)) \cup {Last(q)}
<1> DEFINE n == Len(q)
<1>1. n \in Nat \ {0} /\ DOMAIN q = 1..n
  OBVIOUS
<1>2. DOMAIN Front(q) = 1..(n - 1) /\ \A i \in 1..(n - 1) : Front(q)[i] = q[i]
  <2>1. Front(q) \in Seq(T) /\ Len(Front(q)) = n - 1
    BY <1>1 DEF Front
  <2>2. \A i \in 1..(n - 1) : Front(q)[i] = q[i]
    BY <1>1 DEF Front
  <2>3. ASSUME NEW p \in Seq(T) PROVE DOMAIN p = 1..Len(p)
    OBVIOUS
  <2>4. DOMAIN Front(q) = 1..Len(Front(q))
    BY <2>1, <2>3
  <2> QED
    BY <2>1, <2>2, <2>4
<1>5. Last(q) = q[n]
  BY DEF Last
<1> HIDE DEF n
<1>3. \A i \in 1..n : i \in 1..(n - 1) \/ i = n
  BY <1>1
<1>4. n \in 1..n /\ \A i \in 1..(n - 1) : i \in 1..n
  BY <1>1
<1> QED
  BY <1>1, <1>2, <1>3, <1>4, <1>5 DEF ToSet

\* Appending adds one member.
LEMMA AppendedSet ==
  ASSUME NEW T, NEW q \in Seq(T), NEW x \in T
  PROVE  ToSet(Append(q, x)) = ToSet(q) \cup {x} /\ Append(q, x) \in Seq(T)
<1> DEFINE n == Len(q)
           a == Append(q, x)
<1>1. n \in Nat /\ DOMAIN q = 1..n
  OBVIOUS
<1>2. /\ a \in Seq(T) /\ DOMAIN a = 1..(n + 1) /\ a[n + 1] = x
      /\ \A i \in 1..n : a[i] = q[i]
  OBVIOUS
<1>3. \A i \in 1..(n + 1) : i \in 1..n \/ i = n + 1
  BY <1>1
<1>4. n + 1 \in 1..(n + 1) /\ \A i \in 1..n : i \in 1..(n + 1)
  BY <1>1
<1> HIDE DEF a, n
<1>5. ToSet(a) = ToSet(q) \cup {x}
  BY <1>1, <1>2, <1>3, <1>4 DEF ToSet
<1> QED
  BY <1>2, <1>5 DEF a

\* Appending twice adds two members.
LEMMA AppendedTwice ==
  ASSUME NEW T, NEW q \in Seq(T), NEW x \in T, NEW y \in T
  PROVE  ToSet(Append(Append(q, x), y)) = ToSet(q) \cup {x, y}
<1> DEFINE a == Append(q, x)
<1>1. ToSet(a) = ToSet(q) \cup {x} /\ a \in Seq(T)
  BY AppendedSet
<1> HIDE DEF a
<1>2. ToSet(Append(a, y)) = ToSet(a) \cup {y}
  BY <1>1, AppendedSet
<1>3. ToSet(Append(a, y)) = ToSet(q) \cup {x, y}
  BY <1>1, <1>2
<1> QED
  BY <1>3 DEF a

\* Moving on by one course leaves one course behind.
LEMMA LaterMoves ==
  ASSUME NEW p, NEW C, Lists(p.courses, C), NEW i \in 1..Len(p.courses), NEW c
  PROVE  /\ Later(p, i, c) => Later(p, i + 1, c) \/ c = p.courses[i]
         /\ Later(p, i + 1, c) => Later(p, i, c)
         /\ ~Later(p, i + 1, p.courses[i])
<1>1. Len(p.courses) \in Nat
  BY DEF Lists
<1>2. Later(p, i, c) => Later(p, i + 1, c) \/ c = p.courses[i]
  BY <1>1 DEF Later
<1>3. Later(p, i + 1, c) => Later(p, i, c)
  BY <1>1 DEF Later
<1>4. ~Later(p, i + 1, p.courses[i])
  <2> SUFFICES ASSUME NEW j \in 1..Len(p.courses), j >= i + 1, p.courses[j] = p.courses[i]
               PROVE  FALSE
    BY DEF Later
  <2>1. j = i
    BY DEF Lists
  <2> QED
    BY <1>1, <2>1
<1> QED
  BY <1>2, <1>3, <1>4

\* A wanted choice under a call is under one of the two calls that replace it.
LEMMA ExploredCovers ==
  ASSUME Sound, pc = "search", stack # <<>>, Top.item = 0, ~AtEnd,
         NEW S, Wanted(req, S), Covers(plan, Top, S)
  PROVE  \/ Covers(plan, [Top EXCEPT !.item = 1], S)
         \/ ~MustTake /\ Covers(plan, Frame(Top.index + 1, Top.selected), S)
<1> DEFINE D == S \ Top.selected
           opened == [Top EXCEPT !.item = 1]
           next == Frame(Top.index + 1, Top.selected)
<1>1. /\ S \in SUBSET Pool(req) /\ S \in SUBSET Sections
      /\ \A s, t \in S : s # t => CourseOf(s) # CourseOf(t)
      /\ Top.selected \subseteq S
      /\ Top.index \in Nat \ {0} /\ Len(plan.courses) \in Nat
      /\ Lists(plan.courses, SearchedCourses(req))
  BY CoveredParts
<1>2. Top.index \in 1..Len(plan.courses)
  BY <1>1 DEF AtEnd
<1>3. /\ \A s \in Top.selected : ~Later(plan, Top.index, CourseOf(s))
      /\ \A s \in D : Later(plan, Top.index, CourseOf(s))
  BY DEF Covers
<1>4. CASE \E s \in D : CourseOf(s) = Course
  <2>1. PICK s \in D : CourseOf(s) = Course
    BY <1>4
  <2>2. s \in OfferedOf(req, Course) /\ Course \in SearchedCourses(req)
    BY <1>1, <2>1 DEF Pool, OfferedOf
  <2>3. \E j \in 1..Len(plan.sections[Course]) : plan.sections[Course][j] = s
    BY <2>2 DEF Sound, PlanFits, Lists
  <2>4. ASSUME NEW t \in D \ {s} PROVE Later(plan, Top.index + 1, CourseOf(t))
    <3>1. CourseOf(t) # Course /\ Later(plan, Top.index, CourseOf(t))
      BY <1>1, <1>3, <2>1
    <3> QED
      BY <1>1, <1>2, <3>1, LaterMoves DEF Course
  <2>5. opened.index = Top.index /\ opened.selected = Top.selected /\ opened.item = 1
    BY OpenCalls DEF Frames
  <2>6. \E j \in 1..Len(plan.sections[CourseOf(s)]) :
          j >= 1 /\ plan.sections[CourseOf(s)][j] = s
    BY <2>1, <2>3
  <2>7. CourseOf(s) = plan.courses[Top.index]
    BY <2>1 DEF Course
  <2> HIDE DEF opened
  <2>8. Covers(plan, opened, S)
    BY <1>1, <1>3, <2>1, <2>4, <2>5, <2>6, <2>7 DEF Covers
  <2> QED
    BY <2>8 DEF opened
<1>5. CASE ~\E s \in D : CourseOf(s) = Course
  <2>1. ASSUME MustTake PROVE FALSE
    <3>1. Course \in UnresolvedRequired(req)
      BY <2>1 DEF MustTake, Sound, PlanFits
    <3>2. PICK s \in S : CourseOf(s) = Course
      <4>1. UnresolvedRequired(req) \subseteq CoursesOf(S)
        BY WantedParts DEF Sound
      <4> QED
        BY <3>1, <4>1 DEF CoursesOf
    <3>3. s \in Top.selected
      BY <1>5, <3>2
    <3>4. Later(plan, Top.index, CourseOf(s))
      BY <1>1, <1>2, <3>2 DEF Later, Course
    <3> QED
      BY <1>3, <3>3, <3>4
  <2>2. ASSUME NEW s \in D PROVE Later(plan, Top.index + 1, CourseOf(s))
    <3>1. CourseOf(s) # Course /\ Later(plan, Top.index, CourseOf(s))
      BY <1>3, <1>5
    <3> QED
      BY <1>1, <1>2, <3>1, LaterMoves DEF Course
  <2>3. ASSUME NEW s \in Top.selected PROVE ~Later(plan, Top.index + 1, CourseOf(s))
    BY <1>1, <1>2, <1>3, LaterMoves
  <2>4. next.index = Top.index + 1 /\ next.selected = Top.selected /\ next.item = 0
    BY DEF Frame
  <2> HIDE DEF next
  <2>5. Covers(plan, next, S)
    BY <1>1, <2>2, <2>3, <2>4 DEF Covers
  <2> QED
    BY <2>1, <2>5 DEF next
<1> QED
  BY <1>4, <1>5

\* A section of S is in hand or tried later.
LEMMA TriedCovers ==
  ASSUME Sound, pc = "search", stack # <<>>, Top.item > 0, Untried, FixedFits(req),
         NEW S, Wanted(req, S), Covers(plan, Top, S),
         NEW f, f.index = Top.index, f.selected = Top.selected, f.item = Top.item + 1
  PROVE  \/ Covers(plan, f, S)
         \/ /\ CanAdd(Top.selected, Section)
            /\ Covers(plan, Frame(Top.index + 1, Top.selected \cup {Section}), S)
<1> DEFINE D == S \ Top.selected
           next == Frame(Top.index + 1, Top.selected \cup {Section})
<1>1. /\ S \in SUBSET Pool(req) /\ S \in SUBSET Sections
      /\ Top.selected \subseteq S
      /\ Top.index \in Nat \ {0} /\ Top.item \in Nat /\ Len(plan.courses) \in Nat
      /\ Lists(plan.courses, SearchedCourses(req))
  BY CoveredParts
<1>2. Top.index \in 1..Len(plan.courses)
  BY <1>1, OpenCalls DEF Frames
<1>3. \A s \in Top.selected : ~Later(plan, Top.index, CourseOf(s))
  BY DEF Covers
<1>4. PICK s \in D :
        /\ CourseOf(s) = plan.courses[Top.index]
        /\ \E j \in 1..Len(plan.sections[CourseOf(s)]) :
             j >= Top.item /\ plan.sections[CourseOf(s)][j] = s
        /\ \A t \in D \ {s} : Later(plan, Top.index + 1, CourseOf(t))
  BY DEF Covers
<1>5. PICK j \in 1..Len(plan.sections[CourseOf(s)]) :
        j >= Top.item /\ plan.sections[CourseOf(s)][j] = s
  BY <1>4
<1>6. CourseOf(s) = Course
  BY <1>4 DEF Course
<1>7. CASE j = Top.item
  <2>1. Section = s
    BY <1>5, <1>6, <1>7 DEF Section
  <2>2. CanAdd(Top.selected, Section)
    <3> DEFINE T == Top.selected \cup {s}
    <3>1. T \in SUBSET S
      BY <1>1
    <3>2. req.fixed \cup req.offered \subseteq Sections
      BY DEF Sound
    <3> HIDE DEF T
    <3>3. /\ HardRulesHold(req.fixed \cup T, {}, req)
          /\ \A x, y \in req.fixed \cup T : x # y => ~ConflictsWith(x, y)
          /\ ~TravelIssue(req.fixed \cup T, MaxGap)
      BY <3>1, <3>2, PartsAreAllowed
    <3>4. Valid(req.fixed \cup T, MaxGap, None, TRUE, None, TRUE)
      BY <3>3 DEF Valid, BelowMinimum, AboveMaximum
    <3>5. req.fixed \cup Top.selected \cup {s} = req.fixed \cup T
      BY DEF T
    <3> QED
      BY <2>1, <3>3, <3>4, <3>5 DEF CanAdd
  <2>3. ASSUME NEW x \in Top.selected \cup {s} PROVE ~Later(plan, Top.index + 1, CourseOf(x))
    <3>1. CASE x = s
      <4>1. ~Later(plan, Top.index + 1, plan.courses[Top.index])
        BY <1>1, <1>2, LaterMoves
      <4> QED
        BY <1>4, <3>1, <4>1
    <3>2. CASE x \in Top.selected
      BY <1>1, <1>2, <1>3, <3>2, LaterMoves
    <3> QED
      BY <3>1, <3>2
  <2>4. next.index = Top.index + 1 /\ next.selected = Top.selected \cup {s} /\ next.item = 0
    BY <2>1 DEF Frame
  <2> HIDE DEF next
  <2>5. S \ (Top.selected \cup {s}) = D \ {s} /\ Top.selected \cup {s} \subseteq S
    BY <1>1
  <2>6. Covers(plan, next, S)
    BY <1>4, <2>3, <2>4, <2>5 DEF Covers
  <2> QED
    BY <2>2, <2>6 DEF next
<1>8. CASE j # Top.item
  <2>1. j >= f.item
    <3>1. Len(plan.sections[CourseOf(s)]) \in Nat
      <4>1. CourseOf(s) \in SearchedCourses(req)
        BY <1>1, <1>4 DEF Pool
      <4> QED
        BY <4>1 DEF Sound, PlanFits, Lists
    <3> QED
      BY <1>1, <1>5, <1>8, <3>1
  <2>2. f.item # 0
    BY <1>1
  <2> QED
    BY <1>1, <1>3, <1>4, <1>5, <2>1, <2>2 DEF Covers
<1> QED
  BY <1>7, <1>8

-----------------------------------------------------------------------------
(* Every step of the search keeps what is wanted covered.                   *)

\* What is wanted has been offered or is covered by an open call.
Complete ==
  \A S : Wanted(req, S) =>
    S \in ToSet(results) \/ \E f \in ToSet(stack) : Covers(plan, f, S)

\* Replacing the open call by calls that cover what it covered loses no wanted choice.
LEMMA MovingOn ==
  ASSUME Sound, pc = "search", stack # <<>>, Complete, UNCHANGED <<req, plan>>,
         NEW opened, ToSet(stack') = ToSet(Rest) \cup opened,
         ToSet(results) \subseteq ToSet(results'),
         \A S : Wanted(req, S) /\ Covers(plan, Top, S) =>
           S \in ToSet(results') \/ \E f \in opened : Covers(plan, f, S)
  PROVE  Complete'
<1>1. ToSet(stack) = ToSet(Rest) \cup {Top}
  BY StackSplit DEF Sound, Rest, Top
<1> SUFFICES ASSUME NEW S, Wanted(req, S)
             PROVE  S \in ToSet(results') \/ \E f \in ToSet(stack') : Covers(plan, f, S)
  BY DEF Complete
<1>2. S \in ToSet(results) \/ \E f \in ToSet(stack) : Covers(plan, f, S)
  BY DEF Complete
<1> QED
  BY <1>1, <1>2

\* The call at the top returns: it covered nothing that is not offered.
LEMMA Returning ==
  ASSUME Sound, pc = "search", stack # <<>>, Complete, UNCHANGED <<req, plan>>,
         stack' = Rest, ToSet(results) \subseteq ToSet(results'),
         \A S : Wanted(req, S) /\ Covers(plan, Top, S) => S \in ToSet(results')
  PROVE  Complete'
<1>1. ToSet(stack') = ToSet(Rest) \cup {}
  OBVIOUS
<1> QED
  BY <1>1, MovingOn

\* Exploring a course loses no wanted choice.
LEMMA Exploring ==
  ASSUME Sound, pc = "search", stack # <<>>, Complete, UNCHANGED <<req, plan>>,
         Top.item = 0, ~AtEnd, stack' = Explored, ToSet(results) \subseteq ToSet(results')
  PROVE  Complete'
<1> DEFINE F == Frames(req, plan)
           first == [Top EXCEPT !.item = 1]
           next == Frame(Top.index + 1, Top.selected)
           opened == {first} \cup (IF MustTake THEN {} ELSE {next})
<1>1. Rest \in Seq(F) /\ first \in F /\ next \in F
  <2>1. Top \in F /\ Rest \in Seq(F) /\ Top.index \in Nat \ {0}
        /\ Top.selected \in SUBSET Pool(req)
    BY OpenCalls
  <2>2. Top.index <= Len(plan.courses)
    <3>1. Len(plan.courses) \in Nat
      BY DEF Sound, PlanFits, Lists
    <3> QED
      BY <2>1, <3>1 DEF AtEnd
  <2>3. next \in F
    BY <2>1 DEF Frame, Frames
  <2>4. first \in F
    BY <2>1, <2>2, FrameMoves
  <2> QED
    BY <2>1, <2>3, <2>4
<1>2. stack' = IF MustTake THEN Append(Rest, first) ELSE Append(Append(Rest, first), next)
  BY DEF Explored
<1>3. \A S : Wanted(req, S) /\ Covers(plan, Top, S) => \E f \in opened : Covers(plan, f, S)
  <2> SUFFICES ASSUME NEW S, Wanted(req, S), Covers(plan, Top, S)
               PROVE  \E f \in opened : Covers(plan, f, S)
    OBVIOUS
  <2>1. Covers(plan, first, S) \/ (~MustTake /\ Covers(plan, next, S))
    BY ExploredCovers
  <2> HIDE DEF first, next
  <2> QED
    BY <2>1
<1> HIDE DEF F, first, next
<1>4. ToSet(Append(Rest, first)) = ToSet(Rest) \cup {first}
  BY <1>1, AppendedSet
<1>5. ToSet(Append(Append(Rest, first), next)) = ToSet(Rest) \cup {first, next}
  BY <1>1, AppendedTwice
<1>6. ToSet(stack') = ToSet(Rest) \cup opened
  BY <1>2, <1>4, <1>5
<1> HIDE DEF opened
<1> QED
  BY <1>3, <1>6, MovingOn

\* A selection with all that is wanted is the whole of it.
LEMMA NothingLeft ==
  ASSUME Sound, pc = "search", stack # <<>>, Top.item = 0, AtEnd,
         NEW S, Wanted(req, S), Covers(plan, Top, S)
  PROVE  S = Top.selected
<1>1. /\ Top.selected \subseteq S /\ Top.index \in Nat /\ Len(plan.courses) \in Nat
  BY CoveredParts
<1>2. \A s \in S \ Top.selected : Later(plan, Top.index, CourseOf(s))
  BY DEF Covers
<1>3. \A c : ~Later(plan, Top.index, c)
  BY <1>1 DEF Later, AtEnd
<1> QED
  BY <1>1, <1>2, <1>3

\* A wanted choice misses no required course and meets the targets.
LEMMA WantedIsComplete ==
  ASSUME Sound, pc = "search", Wanted(req, Top.selected)
  PROVE  Missing = {} /\ TargetsMet(Top.selected)
<1>1. UnresolvedRequired(req) \subseteq CoursesOf(Top.selected)
  BY WantedParts DEF Sound
<1>2. Missing = {}
  BY <1>1 DEF Missing, Sound, PlanFits
<1>3. TargetsMet(Top.selected)
  BY TargetsOfWanted DEF TargetsMet
<1> QED
  BY <1>2, <1>3

\* A wanted choice that is evaluated is among the results.
LEMMA WantedIsOffered ==
  ASSUME Sound, pc = "search", FixedFits(req), NEW S
  PROVE  /\ ToSet(results) \subseteq ToSet(Offered(S))
         /\ Wanted(req, S) => S \in ToSet(Offered(S))
<1>0. results \in Seq(SUBSET Sections) /\ Len(results) \in Nat
  BY DEF Sound
<1> DEFINE T == (SUBSET Sections) \cup {S}
<1>1. results \in Seq(T) /\ S \in T
  BY <1>0
<1> HIDE DEF T
<1>2. ToSet(Append(results, S)) = ToSet(results) \cup {S}
  BY <1>1, AppendedSet
<1>3. ToSet(results) \subseteq ToSet(Offered(S))
  BY <1>2 DEF Offered
<1>4. ASSUME Wanted(req, S) PROVE S \in ToSet(Offered(S))
  <2>1. PICK a \in Asks : req = Prepared(a)
    BY DEF Sound
  <2>2. req.fixed \cup req.offered \subseteq Sections
    BY DEF Sound
  <2>3. /\ HardRulesHold(req.fixed \cup S, req.required, req)
        /\ Valid(req.fixed \cup S, MaxGap, req.min, req.minInclusive, req.max, req.maxInclusive)
    BY <1>4, <2>1, <2>2, WholeIsValid
  <2>4. Contains(results, S) => S \in ToSet(results)
    BY <1>0 DEF Contains, ToSet
  <2> QED
    BY <1>2, <2>3, <2>4 DEF Offered
<1> QED
  BY <1>3, <1>4

\* A step of the search leaves every wanted choice found or covered by an open call.
LEMMA BacktrackKeepsComplete ==
  ASSUME Sound, FixedFits(req), Complete, Backtrack, UNCHANGED <<ask, pc, req, plan, error>>,
         reason = "SEARCH_EXHAUSTED", reason' = "SEARCH_EXHAUSTED"
  PROVE  Complete'
<1>0. pc = "search" /\ stack # <<>> /\ ~Halted
  BY DEF Backtrack, Searching, Return, Halted, VisitAtLimit, VisitHopeless, VisitComplete,
         VisitIncomplete, TryAtLimit, TryFits, TryRejected
<1>1. CASE VisitAtLimit
  BY <1>1 DEF VisitAtLimit, StopAtNodeLimit
<1>2. CASE VisitHopeless
  <2>1. /\ Top.item = 0 /\ (CountUnreachable \/ CreditsUnreachable)
        /\ stack' = Rest /\ results' = results
    BY <1>2 DEF VisitHopeless
  <2>2. \A S : ~(Wanted(req, S) /\ Covers(plan, Top, S))
    BY <1>0, <2>1, HopelessCoversNothing
  <2> QED
    BY <1>0, <2>1, <2>2, Returning
<1>3. CASE VisitComplete
  <2>1. /\ Top.item = 0 /\ Missing = {} /\ TargetsMet(Top.selected)
        /\ results' = Offered(Top.selected)
        /\ stack' = IF TargetCount(req) # None \/ AtEnd THEN Rest ELSE Explored
    BY <1>3 DEF VisitComplete
  <2>2. /\ ToSet(results) \subseteq ToSet(results')
        /\ Wanted(req, Top.selected) => Top.selected \in ToSet(results')
    BY <1>0, <2>1, WantedIsOffered
  <2>3. CASE TargetCount(req) # None \/ AtEnd
    <3>1. ASSUME NEW S, Wanted(req, S), Covers(plan, Top, S) PROVE S = Top.selected
      <4>1. CASE AtEnd
        BY <1>0, <2>1, <3>1, <4>1, NothingLeft
      <4>2. CASE TargetCount(req) # None
        <5>1. Cardinality(S) = Cardinality(Top.selected)
          BY <2>1, <3>1, <4>2, TargetsOfWanted DEF TargetsMet
        <5>2. IsFiniteSet(S) /\ Top.selected \subseteq S
          BY <1>0, <3>1, CoveredParts
        <5> QED
          BY <5>1, <5>2, FS_Subset
      <4> QED
        BY <2>3, <4>1, <4>2
    <3>2. \A S : Wanted(req, S) /\ Covers(plan, Top, S) => S \in ToSet(results')
      BY <2>2, <3>1
    <3> QED
      BY <1>0, <2>1, <2>2, <2>3, <3>2, Returning
  <2>4. CASE ~(TargetCount(req) # None \/ AtEnd)
    BY <1>0, <2>1, <2>2, <2>4, Exploring
  <2> QED
    BY <2>3, <2>4
<1>4. CASE VisitIncomplete
  <2>1. /\ Top.item = 0 /\ ~(Missing = {} /\ TargetsMet(Top.selected)) /\ results' = results
        /\ stack' = IF AtEnd THEN Rest ELSE Explored
    BY <1>4 DEF VisitIncomplete
  <2>2. CASE AtEnd
    <3>1. ASSUME NEW S, Wanted(req, S), Covers(plan, Top, S) PROVE FALSE
      <4>1. S = Top.selected
        BY <1>0, <2>1, <2>2, <3>1, NothingLeft
      <4> QED
        BY <1>0, <2>1, <3>1, <4>1, WantedIsComplete
    <3> QED
      BY <1>0, <2>1, <2>2, <3>1, Returning
  <2>3. CASE ~AtEnd
    BY <1>0, <2>1, <2>3, Exploring
  <2> QED
    BY <2>2, <2>3
<1>5. CASE TryAtLimit
  BY <1>5 DEF TryAtLimit, StopAtNodeLimit
<1>6. ASSUME Top.item > 0, Untried
      PROVE  /\ Advanced \in Frames(req, plan)
             /\ [Advanced EXCEPT !.accepted = TRUE] \in Frames(req, plan)
             /\ Rest \in Seq(Frames(req, plan))
             /\ Advanced.index = Top.index /\ Advanced.selected = Top.selected
             /\ Advanced.item = Top.item + 1
             /\ [Advanced EXCEPT !.accepted = TRUE].index = Top.index
             /\ [Advanced EXCEPT !.accepted = TRUE].selected = Top.selected
             /\ [Advanced EXCEPT !.accepted = TRUE].item = Top.item + 1
  <2>1. /\ Top \in Frames(req, plan) /\ Rest \in Seq(Frames(req, plan)) /\ Top.item \in Nat
    BY <1>0, OpenCalls
  <2>2. Top.index <= Len(plan.courses) /\ Top.item + 1 \in Nat
    BY <1>6, <2>1 DEF Frames
  <2>3. /\ Advanced \in Frames(req, plan)
        /\ [Advanced EXCEPT !.accepted = TRUE] \in Frames(req, plan)
    BY <2>1, <2>2, FrameMoves DEF Advanced
  <2>4. /\ Advanced.index = Top.index /\ Advanced.selected = Top.selected
        /\ Advanced.item = Top.item + 1
    BY <2>1 DEF Frames, Advanced
  <2>5. /\ [Advanced EXCEPT !.accepted = TRUE].index = Advanced.index
        /\ [Advanced EXCEPT !.accepted = TRUE].selected = Advanced.selected
        /\ [Advanced EXCEPT !.accepted = TRUE].item = Advanced.item
    BY <2>3 DEF Frames
  <2> QED
    BY <2>1, <2>3, <2>4, <2>5
<1>7. CASE TryFits
  <2> DEFINE f == [Advanced EXCEPT !.accepted = TRUE]
             next == Frame(Top.index + 1, Top.selected \cup {Section})
             F == Frames(req, plan)
  <2>1. /\ Top.item > 0 /\ Untried /\ results' = results
        /\ stack' = Append(Append(Rest, f), next)
    BY <1>7 DEF TryFits
  <2>2. f.index = Top.index /\ f.selected = Top.selected /\ f.item = Top.item + 1
        /\ f \in F /\ Rest \in Seq(F)
    BY <1>6, <2>1
  <2>3. next \in F
    <3>1. Section \in Pool(req)
      BY <1>0, <2>1, TriedSection
    <3> QED
      BY <1>0, <3>1, OpenCalls DEF Frames, Frame
  <2> HIDE DEF f, F
  <2>4. ASSUME NEW S, Wanted(req, S), Covers(plan, Top, S)
        PROVE  Covers(plan, f, S) \/ Covers(plan, next, S)
    BY <1>0, <2>1, <2>2, <2>4, TriedCovers
  <2> HIDE DEF next
  <2>5. ToSet(Append(Append(Rest, f), next)) = ToSet(Rest) \cup {f, next}
    BY <2>2, <2>3, AppendedTwice
  <2>7. ToSet(stack') = ToSet(Rest) \cup {f, next}
    BY <2>1, <2>5
  <2>8. \A S : Wanted(req, S) /\ Covers(plan, Top, S) => \E g \in {f, next} : Covers(plan, g, S)
    BY <2>4
  <2> QED
    BY <1>0, <2>1, <2>7, <2>8, MovingOn
<1>8. CASE TryRejected
  <2>1. /\ Top.item > 0 /\ Untried /\ ~CanAdd(Top.selected, Section)
        /\ results' = results /\ stack' = Append(Rest, Advanced)
    BY <1>8 DEF TryRejected, StopAtNodeLimit
  <2>2. /\ Advanced.index = Top.index /\ Advanced.selected = Top.selected
        /\ Advanced.item = Top.item + 1
        /\ Advanced \in Frames(req, plan) /\ Rest \in Seq(Frames(req, plan))
    BY <1>6, <2>1
  <2>3. ASSUME NEW S, Wanted(req, S), Covers(plan, Top, S) PROVE Covers(plan, Advanced, S)
    BY <1>0, <2>1, <2>2, <2>3, TriedCovers
  <2>4. ToSet(stack') = ToSet(Rest) \cup {Advanced}
    BY <2>1, <2>2, AppendedSet
  <2> QED
    BY <1>0, <2>1, <2>3, <2>4, MovingOn
<1>9. CASE Return
  <2>1. Top.item > 0 /\ ~Untried /\ stack' = Rest /\ results' = results
    BY <1>0, <1>9 DEF Return
  <2>2. ASSUME NEW S, Wanted(req, S), Covers(plan, Top, S) PROVE FALSE
    <3>1. /\ S \in SUBSET Pool(req) /\ Top.item \in Nat
      BY <1>0, <2>2, CoveredParts
    <3>2. PICK s \in S :
            /\ CourseOf(s) = plan.courses[Top.index]
            /\ \E j \in 1..Len(plan.sections[CourseOf(s)]) : j >= Top.item
      BY <2>1, <2>2, <3>1 DEF Covers
    <3>3. Len(plan.sections[CourseOf(s)]) \in Nat
      <4>1. CourseOf(s) \in SearchedCourses(req)
        BY <3>1 DEF Pool
      <4> QED
        BY <1>0, <4>1 DEF Sound, PlanFits, Lists
    <3>4. CourseOf(s) = Course
      BY <3>2 DEF Course
    <3> QED
      BY <2>1, <3>1, <3>2, <3>3, <3>4 DEF Untried
  <2> QED
    BY <1>0, <2>1, <2>2, Returning
<1> QED
  BY <1>1, <1>2, <1>3, <1>4, <1>5, <1>7, <1>8, <1>9 DEF Backtrack

-----------------------------------------------------------------------------
(* From the first call to the last return.                                  *)

\* Before anything is taken the first call covers all that is wanted.
LEMMA FirstCallCovers ==
  ASSUME NEW r, r.fixed \cup r.offered \subseteq Sections, NEW S, Wanted(r, S)
  PROVE  Covers(PlanOf(r), Frame(1, {}), S)
<1> DEFINE p == PlanOf(r)
           first == Frame(1, {})
<1>1. Lists(p.courses, SearchedCourses(r))
  BY PlanIsFitting DEF PlanFits
<1>2. ASSUME NEW s \in S PROVE Later(p, 1, CourseOf(s))
  <2>1. CourseOf(s) \in SearchedCourses(r)
    BY WantedParts DEF Pool
  <2>2. PICK i \in 1..Len(p.courses) : p.courses[i] = CourseOf(s)
    BY <1>1, <2>1 DEF Lists
  <2>3. i >= 1
    BY <1>1, <2>2 DEF Lists
  <2> HIDE DEF p
  <2> QED
    BY <2>2, <2>3 DEF Later
<1>3. first.index = 1 /\ first.selected = {} /\ first.item = 0
  BY DEF Frame
<1> HIDE DEF p, first
<1>4. Covers(p, first, S)
  BY <1>2, <1>3 DEF Covers
<1> QED
  BY <1>4 DEF p, first

\* The inductive invariant.
Thorough ==
  /\ pc # "search" => stack = <<>>
  /\ pc # "done" => error = None
  /\ reason \in {"SEARCH_EXHAUSTED", "MAX_RESULTS_REACHED", "MAX_SEARCH_NODES_REACHED"}
  /\ pc = "search" => FixedFits(req)
  /\ pc = "search" /\ reason = "SEARCH_EXHAUSTED" => Complete
  /\ pc = "done" /\ error = None /\ reason = "SEARCH_EXHAUSTED" =>
       \A S : Wanted(req, S) => S \in ToSet(results)

\* Before the first request nothing is exhausted.
LEMMA ThoroughInit == RankInit => Thorough
BY DEF RankInit, SearchInit, Thorough

\* A step of the search keeps the search thorough.
LEMMA BacktrackKeepsThorough ==
  ASSUME Sound, Thorough, Backtrack, UNCHANGED <<ask, pc, req, plan, error>>
  PROVE  Thorough'
<1>1. pc = "search"
  BY DEF Backtrack, Searching, Return, VisitAtLimit, VisitHopeless, VisitComplete,
         VisitIncomplete, TryAtLimit, TryFits, TryRejected
<1>2. reason' \in {reason, "MAX_RESULTS_REACHED", "MAX_SEARCH_NODES_REACHED"}
  BY DEF Backtrack, Return, VisitAtLimit, VisitHopeless, VisitComplete, VisitIncomplete,
         TryAtLimit, TryFits, TryRejected, StopAtNodeLimit
<1>3. FixedFits(req) /\ error = None
  BY <1>1 DEF Thorough
<1>4. ASSUME reason' = "SEARCH_EXHAUSTED" PROVE Complete'
  <2>1. reason = "SEARCH_EXHAUSTED"
    BY <1>2, <1>4
  <2>2. Complete
    BY <1>1, <2>1 DEF Thorough
  <2> QED
    BY <1>3, <1>4, <2>1, <2>2, BacktrackKeepsComplete
<1>5. FixedFits(req')
  BY <1>3
<1> QED
  BY <1>1, <1>2, <1>3, <1>4, <1>5 DEF Thorough

\* A search starts with one call that covers every wanted choice.
LEMMA StartKeepsThorough ==
  ASSUME Sound, Thorough, Start
  PROVE  Thorough'
<1>1. /\ pc = "start" /\ UNCHANGED <<ask, req, nodes, results, reason>>
      /\ stack = <<>> /\ error = None
      /\ reason \in {"SEARCH_EXHAUSTED", "MAX_RESULTS_REACHED", "MAX_SEARCH_NODES_REACHED"}
  BY DEF Start, Thorough
<1>2. CASE pc' = "search"
  <2>1. /\ req.fixed \cup req.offered \subseteq Sections /\ FixedFits(req)
        /\ plan' = PlanOf(req) /\ stack' = <<Frame(1, {})>> /\ error' = error
    BY <1>2 DEF Start, Refuse
  <2>2. Frame(1, {}) \in ToSet(stack')
    BY <2>1 DEF ToSet
  <2>3. \A S : Wanted(req, S) => Covers(PlanOf(req), Frame(1, {}), S)
    BY <2>1, FirstCallCovers
  <2>4. \A S : Wanted(req, S) => \E f \in ToSet(stack') : Covers(plan', f, S)
    BY <2>1, <2>2, <2>3
  <2>5. Complete'
    BY <1>1, <2>4 DEF Complete
  <2> QED
    BY <1>1, <1>2, <2>1, <2>5 DEF Thorough
<1>3. CASE pc' # "search"
  <2>1. pc' = "done" /\ error' # None /\ stack' = stack
    BY <1>3, NoneIsNoCode DEF Start, Refuse
  <2> QED
    BY <1>1, <2>1 DEF Thorough
<1> QED
  BY <1>2, <1>3

\* A search that ends without an open call has found every wanted choice.
LEMMA FinishKeepsThorough ==
  ASSUME Thorough, Finish, UNCHANGED <<ask, req, plan, error>>
  PROVE  Thorough'
<1>1. pc = "search" /\ stack = <<>> /\ pc' = "done" /\ UNCHANGED <<stack, results, reason>>
  BY DEF Finish
<1>2. error = None
     /\ reason \in {"SEARCH_EXHAUSTED", "MAX_RESULTS_REACHED", "MAX_SEARCH_NODES_REACHED"}
  BY <1>1 DEF Thorough
<1>3. ToSet(stack) = {}
  BY <1>1 DEF ToSet
<1>4. ASSUME reason = "SEARCH_EXHAUSTED", NEW S, Wanted(req, S) PROVE S \in ToSet(results)
  BY <1>1, <1>3, <1>4 DEF Thorough, Complete
<1>5. \A S : Wanted(req', S) => Wanted(req, S)
  OBVIOUS
<1> QED
  BY <1>1, <1>2, <1>4, <1>5 DEF Thorough

\* No step makes the search less than thorough.
LEMMA ThoroughNext == Sound /\ Thorough /\ [RankNext]_rankVars => Thorough'
<1> SUFFICES ASSUME Sound, Thorough, [RankNext]_rankVars PROVE Thorough'
  OBVIOUS
<1>1. CASE Prepare
  <2>1. /\ pc = "prepare" /\ UNCHANGED <<stack, reason>>
        /\ (pc' = "start" /\ error' = error) \/ (pc' = "done" /\ error' = "NOT_READY")
    BY <1>1 DEF Prepare
  <2>2. "NOT_READY" # None
    BY NoneIsNoCode
  <2> QED
    BY <2>1, <2>2 DEF Thorough
<1>2. CASE Start
  BY <1>2, StartKeepsThorough
<1>3. CASE Backtrack /\ UNCHANGED <<ask, pc, req, plan, error>>
  BY <1>3, BacktrackKeepsThorough
<1>4. CASE Finish /\ UNCHANGED <<ask, req, plan, error>>
  BY <1>4, FinishKeepsThorough
<1>5. CASE UNCHANGED searchVars
  BY <1>5 DEF searchVars, Thorough, Complete
<1>6. CASE RankCandidates
  BY <1>5, <1>6 DEF RankCandidates
<1>7. CASE UNCHANGED rankVars
  BY <1>5, <1>7 DEF rankVars
<1> QED
  BY <1>1, <1>2, <1>3, <1>4, <1>6, <1>7 DEF RankNext, SearchNext

(* A search that says SEARCH_EXHAUSTED has left nothing out, whatever the  *)
(* catalog, the rules and the request: what the targets prune, the courses *)
(* skipped, the duplicates dropped and the early returns never cost an     *)
(* admissible timetable all of whose parts are possible.                   *)
THEOREM ExhaustedSearchesAreComplete == RankSpec => []ExhaustedSearchIsComplete
<1>1. Thorough => ExhaustedSearchIsComplete
  BY DEF Thorough, ExhaustedSearchIsComplete, Wanted
<1>2. Sound /\ Thorough /\ [RankNext]_rankVars => Thorough'
  BY ThoroughNext
<1> QED
  BY <1>1, <1>2, SoundInit, SoundNext, ThoroughInit, PTL DEF RankSpec

-----------------------------------------------------------------------------
(* The types *)

\* A sequence over a set is one over any larger set.
LEMMA SequencesWiden ==
  ASSUME NEW A, NEW B, A \subseteq B, NEW q \in Seq(A)
  PROVE  q \in Seq(B)
OBVIOUS

\* The types of the search follow from its invariants.
LEMMA TypesFollow ==
  ASSUME Sound, Limited, Thorough
  PROVE  SearchTypeOK
<1>1. stack \in Seq(FrameType)
  <2>1. CASE pc = "search"
    <3>1. stack \in Seq(Frames(req, plan)) /\ Pool(req) \subseteq Sections
      BY <2>1 DEF Sound, Pool
    <3>2. Frames(req, plan) \subseteq FrameType
      BY <3>1 DEF Frames, FrameType
    <3> QED
      BY <3>1, <3>2, SequencesWiden
  <2>2. CASE pc # "search"
    BY <2>2 DEF Thorough
  <2> QED
    BY <2>1, <2>2
<1>2. ASSUME pc = "search"
      PROVE  /\ req # None
             /\ plan.courses \in Seq(Courses)
             /\ \A c \in ToSet(plan.courses) : plan.sections[c] \in Seq(Sections)
  <2>1. req # None /\ req.offered \subseteq Sections /\ PlanFits(req, plan)
    BY <1>2 DEF Sound
  <2>2. plan.courses \in Seq(SearchedCourses(req))
    BY <2>1 DEF PlanFits, Lists
  <2>3. SearchedCourses(req) \subseteq Courses
    BY <2>1, CoursesAreKnown DEF SearchedCourses, CoursesOf
  <2>4. plan.courses \in Seq(Courses)
    BY <2>2, <2>3, SequencesWiden
  <2>5. ASSUME NEW c \in ToSet(plan.courses) PROVE plan.sections[c] \in Seq(Sections)
    <3>1. c \in SearchedCourses(req)
      BY <2>2 DEF ToSet
    <3>2. plan.sections[c] \in Seq(OfferedOf(req, c)) /\ OfferedOf(req, c) \subseteq Sections
      BY <2>1, <3>1 DEF PlanFits, Lists, OfferedOf
    <3> QED
      BY <3>2, SequencesWiden
  <2> QED
    BY <2>1, <2>4, <2>5
<1>3. /\ ask \in Asks /\ pc \in {"prepare", "start", "search", "done"}
      /\ results \in Seq(SUBSET Sections)
  BY DEF Sound
<1>4. nodes \in Nat
  BY DEF Limited
<1>5. reason \in {"SEARCH_EXHAUSTED", "MAX_RESULTS_REACHED", "MAX_SEARCH_NODES_REACHED"}
  BY DEF Thorough
<1> QED
  BY <1>1, <1>2, <1>3, <1>4, <1>5 DEF SearchTypeOK

(* Every variable of the search has its type: a running search has a       *)
(* request, and its lists hold courses and sections of the catalog only.   *)
THEOREM SearchTypesHold == RankSpec => []SearchTypeOK
<1>1. Sound /\ Limited /\ Thorough => SearchTypeOK
  BY TypesFollow
<1>2. Sound /\ Thorough /\ [RankNext]_rankVars => Thorough'
  BY ThoroughNext
<1> QED
  BY <1>1, <1>2, SoundInit, SoundNext, LimitedInit, LimitedNext, ThoroughInit, PTL DEF RankSpec

-----------------------------------------------------------------------------
(* The search comes to an end *)

SearchStage(p) ==
  CASE p = "prepare" -> 3 [] p = "start" -> 2 [] p = "search" -> 1 [] OTHER -> 0

\* How far a visit of the open call may still go down.
Depth(q, p) ==
  IF q # <<>> /\ Last(q).item = 0 THEN Len(p.courses) + 2 - Last(q).index ELSE 0

\* What is left to do: the stages, the nodes, the visits until the next node, and the
\* open calls.
SearchLeft ==
  <<SearchStage(pc),
    IF pc = "search" THEN req.maxNodes - nodes ELSE 0,
    IF pc = "search" THEN Depth(stack, plan) ELSE 0,
    Len(stack)>>

\* Each step of the search leaves less to do.
SearchRunsDown == [][SearchNext => KeyLess(SearchLeft', SearchLeft)]_rankVars

\* Calls below the open one have been visited, and no call goes beyond the courses.
AllVisited(q, p) ==
  \A k \in 1..Len(q) : q[k].index <= Len(p.courses) + 1 /\ q[k].item > 0
AllButLastVisited(q, p) ==
  \A k \in 1..Len(q) : q[k].index <= Len(p.courses) + 1 /\ (k < Len(q) => q[k].item > 0)
CallsAreVisited == pc = "search" => AllButLastVisited(stack, plan)

\* Below the open call all have been visited.
LEMMA RestIsVisited ==
  ASSUME NEW T, NEW q \in Seq(T), q # <<>>, NEW p, AllButLastVisited(q, p)
  PROVE  AllVisited(Front(q), p) /\ Len(Front(q)) = Len(q) - 1 /\ Len(q) \in Nat \ {0}
<1>1. Len(q) \in Nat \ {0}
  OBVIOUS
<1>2. /\ Len(Front(q)) = Len(q) - 1
      /\ \A k \in 1..(Len(q) - 1) : Front(q)[k] = q[k]
  <2> DEFINE m == Len(q) - 1
  <2>1. m \in Nat /\ \A k \in 1..m : k \in 1..Len(q) /\ q[k] \in T
    BY <1>1
  <2>2. Front(q) = [k \in 1..m |-> q[k]]
    BY <1>1 DEF Front
  <2> HIDE DEF m
  <2>3. Front(q) \in Seq(T) /\ DOMAIN Front(q) = 1..m /\ \A k \in 1..m : Front(q)[k] = q[k]
    BY <2>1, <2>2
  <2>4. Len(Front(q)) = m
    BY <2>1, <2>3
  <2> QED
    BY <2>3, <2>4 DEF m
<1>3. \A k \in 1..(Len(q) - 1) : k \in 1..Len(q) /\ k < Len(q)
  BY <1>1
<1> QED
  BY <1>1, <1>2, <1>3 DEF AllVisited, AllButLastVisited

\* A call that is opened on visited ones, and one that has been visited itself.
LEMMA OpenedOnVisited ==
  ASSUME NEW T, NEW q \in Seq(T), NEW f \in T, NEW p, AllVisited(q, p),
         f.index <= Len(p.courses) + 1
  PROVE  /\ AllButLastVisited(Append(q, f), p)
         /\ f.item > 0 => AllVisited(Append(q, f), p)
<1>1. Len(q) \in Nat /\ Len(Append(q, f)) = Len(q) + 1
  OBVIOUS
<1>2. Append(q, f)[Len(q) + 1] = f /\ \A k \in 1..Len(q) : Append(q, f)[k] = q[k]
  OBVIOUS
<1>3. \A k \in 1..(Len(q) + 1) : k \in 1..Len(q) \/ (k = Len(q) + 1 /\ ~(k < Len(q) + 1))
  BY <1>1
<1> QED
  BY <1>1, <1>2, <1>3 DEF AllVisited, AllButLastVisited

\* A stack of visited calls has no visit ahead of it.
LEMMA VisitedHasNoDepth ==
  ASSUME NEW T, NEW q \in Seq(T), NEW p, AllVisited(q, p)
  PROVE  AllButLastVisited(q, p) /\ Depth(q, p) = 0
<1>1. AllButLastVisited(q, p)
  BY DEF AllVisited, AllButLastVisited
<1>2. q # <<>> => Len(q) \in 1..Len(q) /\ Last(q) = q[Len(q)]
  BY DEF Last
<1>3. q # <<>> => Last(q).item > 0
  BY <1>2 DEF AllVisited
<1>4. \A x : x > 0 /\ x = 0 => FALSE
  OBVIOUS
<1>5. ~(q # <<>> /\ Last(q).item = 0)
  BY <1>3, <1>4
<1> QED
  BY <1>1, <1>5 DEF Depth

\* What the steps of the recursion do: end the open call, explore its course, or try
\* one of its sections, which counts a node.
LEMMA BacktrackMoves ==
  ASSUME Sound, Backtrack
  PROVE  /\ pc = "search" /\ stack # <<>>
         /\ \/ nodes' = nodes /\ stack' = Rest
            \/ nodes' = nodes /\ Top.item = 0 /\ ~AtEnd /\ stack' = Explored
            \/ /\ Top.item > 0 /\ nodes' = nodes + 1 /\ ~AtNodeLimit(nodes)
               /\ \/ stack' = Rest \/ stack' = Append(Rest, Advanced)
                  \/ stack' = Append(Append(Rest, [Advanced EXCEPT !.accepted = TRUE]),
                                     Frame(Top.index + 1, Top.selected \cup {Section}))
<1>1. CASE VisitAtLimit
  BY <1>1 DEF VisitAtLimit, StopAtNodeLimit, Searching
<1>2. CASE VisitHopeless
  BY <1>2 DEF VisitHopeless, Searching
<1>3. CASE VisitComplete
  BY <1>3 DEF VisitComplete, Searching
<1>4. CASE VisitIncomplete
  BY <1>4 DEF VisitIncomplete, Searching
<1>5. CASE TryAtLimit
  BY <1>5 DEF TryAtLimit, StopAtNodeLimit, Searching
<1>6. CASE TryFits
  BY <1>6 DEF TryFits, Searching
<1>7. CASE TryRejected
  BY <1>7 DEF TryRejected, StopAtNodeLimit, Searching
<1>8. CASE Return
  BY <1>8 DEF Return
<1> QED
  BY <1>1, <1>2, <1>3, <1>4, <1>5, <1>6, <1>7, <1>8 DEF Backtrack

\* The parts of the next stack.
LEMMA MovedCalls ==
  ASSUME Sound, CallsAreVisited, pc = "search", stack # <<>>
  PROVE  LET opened == [Top EXCEPT !.item = 1]
             advanced == [Advanced EXCEPT !.accepted = TRUE]
         IN  /\ Len(plan.courses) \in Nat /\ Len(stack) \in Nat \ {0}
             /\ Top.index \in Nat \ {0} /\ Top.item \in Nat /\ Top.index <= Len(plan.courses) + 1
             /\ AllVisited(Rest, plan) /\ Len(Rest) = Len(stack) - 1
             /\ opened.item = 1 /\ opened.index = Top.index
             /\ Advanced.item > 0 /\ Advanced.index = Top.index
             /\ advanced.item > 0 /\ advanced.index = Top.index
             /\ \A S : Frame(Top.index + 1, S).item = 0 /\ Frame(Top.index + 1, S).index = Top.index + 1
<1>1. /\ Top \in Frames(req, plan) /\ stack \in Seq(Frames(req, plan))
      /\ Top.index \in Nat \ {0} /\ Top.item \in Nat
  BY OpenCalls DEF Sound
<1>2. Len(plan.courses) \in Nat
  BY DEF Sound, PlanFits, Lists
<1>3. AllVisited(Rest, plan) /\ Len(Rest) = Len(stack) - 1 /\ Len(stack) \in Nat \ {0}
  BY <1>1, RestIsVisited DEF CallsAreVisited, Rest
<1>4. Top.index <= Len(plan.courses) + 1
  <2>1. Len(stack) \in 1..Len(stack) /\ Top = stack[Len(stack)]
    BY <1>3 DEF Top, Last
  <2> QED
    BY <2>1 DEF CallsAreVisited, AllButLastVisited
<1>5. DOMAIN Top = {"index", "selected", "item", "accepted"}
  BY <1>1 DEF Frames
<1>6. /\ [Top EXCEPT !.item = 1].item = 1 /\ [Top EXCEPT !.item = 1].index = Top.index
      /\ Advanced.item = Top.item + 1 /\ Advanced.index = Top.index
      /\ [Advanced EXCEPT !.accepted = TRUE].item = Top.item + 1
      /\ [Advanced EXCEPT !.accepted = TRUE].index = Top.index
  BY <1>5 DEF Advanced
<1>7. \A S : Frame(Top.index + 1, S).item = 0 /\ Frame(Top.index + 1, S).index = Top.index + 1
  BY DEF Frame
<1>8. Top.item + 1 > 0
  BY <1>1
<1> QED
  BY <1>1, <1>2, <1>3, <1>4, <1>6, <1>7, <1>8

\* A step of the recursion leaves less to do and opens calls on visited ones.
LEMMA BacktrackFalls ==
  ASSUME Sound, Limited, CallsAreVisited, Backtrack, UNCHANGED <<pc, req, plan>>
  PROVE  /\ CallsAreVisited'
         /\ \/ nodes' = nodes + 1 /\ nodes < req.maxNodes
            \/ nodes' = nodes /\ Depth(stack', plan) < Depth(stack, plan)
            \/ nodes' = nodes /\ Depth(stack', plan) = Depth(stack, plan) /\ Len(stack') < Len(stack)
<1> DEFINE F == Frames(req, plan)
           opened == [Top EXCEPT !.item = 1]
           advanced == [Advanced EXCEPT !.accepted = TRUE]
           next(S) == Frame(Top.index + 1, S)
           n == Len(plan.courses)
<1>1. pc = "search" /\ stack # <<>>
  BY BacktrackMoves
<1>2. Rest \in Seq(F) /\ Top \in F
  BY <1>1, OpenCalls
<1>3. /\ n \in Nat /\ Len(stack) \in Nat \ {0}
      /\ Top.index \in Nat \ {0} /\ Top.item \in Nat /\ Top.index <= n + 1
      /\ AllVisited(Rest, plan) /\ Len(Rest) = Len(stack) - 1
      /\ opened.item = 1 /\ opened.index = Top.index
      /\ Advanced.item > 0 /\ Advanced.index = Top.index
      /\ advanced.item > 0 /\ advanced.index = Top.index
      /\ \A S : next(S).item = 0 /\ next(S).index = Top.index + 1
  BY <1>1, MovedCalls
<1>4. Top.item > 0 => Top.index <= n
  BY <1>2 DEF Frames
<1> HIDE DEF F, n
<1>5. AllButLastVisited(Rest, plan) /\ Depth(Rest, plan) = 0
  BY <1>2, <1>3, VisitedHasNoDepth
<1>6. Depth(stack, plan) = IF Top.item = 0 THEN n + 2 - Top.index ELSE 0
  BY <1>1 DEF Depth, Top, n
<1>7. CASE nodes' = nodes /\ stack' = Rest
  <2>1. CallsAreVisited'
    BY <1>1, <1>5, <1>7 DEF CallsAreVisited
  <2>2. Depth(stack', plan) = 0 /\ Len(stack') < Len(stack)
    BY <1>3, <1>5, <1>7
  <2>3. CASE Top.item = 0
    <3>1. n + 2 - Top.index > 0
      BY <1>3
    <3> QED
      BY <1>6, <1>7, <2>1, <2>2, <2>3, <3>1
  <2>4. CASE Top.item # 0
    BY <1>6, <1>7, <2>1, <2>2, <2>4
  <2> QED
    BY <2>3, <2>4
<1>8. CASE nodes' = nodes /\ Top.item = 0 /\ ~AtEnd /\ stack' = Explored
  <2>1. Explored \in Seq(F)
    BY <1>1, <1>8, ExploredFits DEF F
  <2>2. Top.index <= n
    BY <1>3, <1>8 DEF AtEnd, n
  <2> DEFINE g == next(Top.selected)
             q == Append(Rest, opened)
             all == F \cup {opened, g}
  <2>3. Rest \in Seq(all) /\ opened \in all /\ g \in all
    BY <1>2
  <2>4. stack' = q \/ stack' = Append(q, g)
    BY <1>8 DEF Explored
  <2>5. opened.index <= Len(plan.courses) + 1 /\ g.index <= Len(plan.courses) + 1 /\ opened.item > 0
    BY <1>3, <2>2 DEF n
  <2> HIDE DEF opened, g, all
  <2>6. AllButLastVisited(q, plan) /\ AllVisited(q, plan) /\ q \in Seq(all) /\ Len(q) \in Nat
    BY <1>3, <2>3, <2>5, OpenedOnVisited
  <2> HIDE DEF q
  <2>7. CASE stack' = q
    <3>1. Depth(q, plan) = 0
      BY <2>6, VisitedHasNoDepth
    <3>2. CallsAreVisited'
      BY <1>1, <2>6, <2>7 DEF CallsAreVisited
    <3>3. n + 2 - Top.index > 0
      BY <1>3
    <3> QED
      BY <1>6, <1>8, <2>7, <3>1, <3>2, <3>3
  <2>8. CASE stack' = Append(q, g)
    <3>1. AllButLastVisited(Append(q, g), plan)
      BY <2>3, <2>5, <2>6, OpenedOnVisited
    <3>2. CallsAreVisited'
      BY <1>1, <2>8, <3>1 DEF CallsAreVisited
    <3>3. Append(q, g) # <<>> /\ Last(Append(q, g)) = g
      <4>1. Len(Append(q, g)) = Len(q) + 1 /\ Append(q, g)[Len(q) + 1] = g
        BY <2>3, <2>6
      <4>2. Len(q) + 1 # 0 /\ Len(<<>>) = 0
        BY <2>6
      <4> QED
        BY <4>1, <4>2 DEF Last
    <3>4. g.item = 0 /\ g.index = Top.index + 1
      BY <1>3 DEF g
    <3>5. Depth(Append(q, g), plan) = n + 2 - (Top.index + 1)
      BY <3>3, <3>4 DEF Depth, n
    <3>6. n + 2 - (Top.index + 1) < n + 2 - Top.index
      BY <1>3
    <3> QED
      BY <1>6, <1>8, <2>8, <3>2, <3>5, <3>6
  <2> QED
    BY <2>4, <2>7, <2>8
<1>9. CASE /\ Top.item > 0 /\ nodes' = nodes + 1 /\ ~AtNodeLimit(nodes)
           /\ \/ stack' = Rest \/ stack' = Append(Rest, Advanced)
              \/ stack' = Append(Append(Rest, advanced), next(Top.selected \cup {Section}))
  <2> DEFINE g == next(Top.selected \cup {Section})
             q == Append(Rest, advanced)
             all == F \cup {Advanced, advanced, g}
  <2>1. Rest \in Seq(all) /\ Advanced \in all /\ advanced \in all /\ g \in all
    BY <1>2
  <2>2. /\ Advanced.index <= Len(plan.courses) + 1 /\ advanced.index <= Len(plan.courses) + 1
        /\ g.index <= Len(plan.courses) + 1
    BY <1>3, <1>4, <1>9 DEF n
  <2>3. advanced.item > 0
    BY <1>3
  <2>4. stack' = Rest \/ stack' = Append(Rest, Advanced) \/ stack' = Append(q, g)
    BY <1>9
  <2> HIDE DEF advanced, g, all
  <2>5. AllButLastVisited(Append(Rest, Advanced), plan)
    BY <1>3, <2>1, <2>2, OpenedOnVisited
  <2>6. AllVisited(q, plan) /\ q \in Seq(all)
    BY <1>3, <2>1, <2>2, <2>3, OpenedOnVisited
  <2> HIDE DEF q
  <2>7. AllButLastVisited(Append(q, g), plan)
    BY <2>1, <2>2, <2>6, OpenedOnVisited
  <2>8. CallsAreVisited'
    BY <1>1, <1>5, <2>4, <2>5, <2>7 DEF CallsAreVisited
  <2>9. nodes < req.maxNodes
    BY <1>1, <1>9 DEF AtNodeLimit, Limited, Sound
  <2> QED
    BY <1>9, <2>8, <2>9
<1> QED
  BY <1>7, <1>8, <1>9, BacktrackMoves

\* What is left to do is counted by natural numbers.
LEMMA SearchLeftIsTyped ==
  ASSUME Sound, Limited, Thorough, CallsAreVisited
  PROVE  /\ SearchLeft \in [1..4 -> Nat]
         /\ SearchStage(pc) \in Nat /\ Len(stack) \in Nat
         /\ pc = "search" => req.maxNodes - nodes \in Nat /\ Depth(stack, plan) \in Nat
<1>1. SearchStage(pc) \in Nat
  BY DEF SearchStage
<1>2. Len(stack) \in Nat
  <2>1. CASE pc = "search"
    BY <2>1 DEF Sound
  <2>2. CASE pc # "search"
    BY <2>2 DEF Thorough
  <2> QED
    BY <2>1, <2>2
<1>3. ASSUME pc = "search" PROVE req.maxNodes - nodes \in Nat
  BY <1>3 DEF Sound, Limited
<1>4. ASSUME pc = "search" PROVE Depth(stack, plan) \in Nat
  <2>1. CASE stack = <<>>
    BY <2>1 DEF Depth
  <2>2. CASE stack # <<>>
    <3>1. /\ Len(plan.courses) \in Nat /\ Top.index \in Nat /\ Top.index <= Len(plan.courses) + 1
      BY <1>4, <2>2, MovedCalls
    <3> QED
      BY <3>1 DEF Depth, Top
  <2> QED
    BY <2>1, <2>2
<1>5. \A a, b, c, d \in Nat : <<a, b, c, d>> \in [1..4 -> Nat]
  OBVIOUS
<1> QED
  BY <1>1, <1>2, <1>3, <1>4, <1>5 DEF SearchLeft

\* Before the first request no call is open.
LEMMA CallsAreVisitedInit == RankInit => CallsAreVisited
BY DEF RankInit, SearchInit, CallsAreVisited

\* No step leaves an unvisited call below the open one.
LEMMA CallsAreVisitedNext ==
  Sound /\ Limited /\ CallsAreVisited /\ [RankNext]_rankVars => CallsAreVisited'
<1> SUFFICES ASSUME Sound, Limited, CallsAreVisited, [RankNext]_rankVars PROVE CallsAreVisited'
  OBVIOUS
<1>1. CASE Prepare
  BY <1>1 DEF Prepare, CallsAreVisited
<1>2. CASE Start
  <2>1. CASE pc' # "search"
    BY <2>1 DEF CallsAreVisited
  <2>2. CASE pc' = "search"
    <3>1. /\ stack' = <<Frame(1, {})>> /\ plan' = PlanOf(req)
          /\ req.offered \subseteq Sections
      BY <1>2, <2>2 DEF Start, Refuse
    <3>2. Len(plan'.courses) \in Nat
      BY <3>1, PlanIsFitting DEF PlanFits, Lists
    <3>3. Frame(1, {}).index = 1
      BY DEF Frame
    <3>4. Len(stack') = 1 /\ stack'[1] = Frame(1, {})
      BY <3>1
    <3>5. \A k \in 1..1 : k = 1 /\ ~(k < 1)
      OBVIOUS
    <3>6. 1 <= Len(plan'.courses) + 1
      BY <3>2
    <3>7. AllButLastVisited(stack', plan')
      BY <3>3, <3>4, <3>5, <3>6 DEF AllButLastVisited
    <3> QED
      BY <3>7 DEF CallsAreVisited
  <2> QED
    BY <2>1, <2>2
<1>3. CASE Backtrack /\ UNCHANGED <<ask, pc, req, plan, error>>
  BY <1>3, BacktrackFalls
<1>4. CASE Finish
  BY <1>4 DEF Finish, CallsAreVisited
<1>5. CASE UNCHANGED searchVars
  BY <1>5 DEF searchVars, CallsAreVisited
<1> QED
  BY <1>1, <1>2, <1>3, <1>4, <1>5 DEF RankNext, SearchNext, RankCandidates, rankVars

\* A step that reaches a later stage leaves less to do.
LEMMA StagesFall ==
  ASSUME SearchStage(pc') < SearchStage(pc),
         SearchLeft \in [1..4 -> Nat], SearchLeft' \in [1..4 -> Nat]
  PROVE  KeyLess(SearchLeft', SearchLeft)
<1>1. SearchLeft[1] = SearchStage(pc) /\ SearchLeft'[1] = SearchStage(pc') /\ DOMAIN SearchLeft' = 1..4
  BY DEF SearchLeft
<1>2. 1 \in 1..4 /\ \A j \in 1..(1 - 1) : SearchLeft'[j] = SearchLeft[j]
  OBVIOUS
<1> QED
  BY <1>1, <1>2 DEF KeyLess

\* Each step of the search leaves less to do.
LEMMA SearchStepsFall ==
  ASSUME Sound, Limited, Thorough, CallsAreVisited, SearchNext,
         SearchLeft \in [1..4 -> Nat], SearchLeft' \in [1..4 -> Nat]
  PROVE  KeyLess(SearchLeft', SearchLeft)
<1>1. CASE Prepare
  <2>1. pc = "prepare" /\ pc' \in {"start", "done"}
    BY <1>1 DEF Prepare
  <2>2. SearchStage(pc') < SearchStage(pc)
    BY <2>1 DEF SearchStage
  <2> QED
    BY <2>2, StagesFall
<1>2. CASE Start
  <2>1. pc = "start" /\ pc' \in {"search", "done"}
    BY <1>2 DEF Start, Refuse
  <2>2. SearchStage(pc') < SearchStage(pc)
    BY <2>1 DEF SearchStage
  <2> QED
    BY <2>2, StagesFall
<1>3. CASE Backtrack /\ UNCHANGED <<ask, pc, req, plan, error>>
  <2>1. pc = "search" /\ pc' = "search" /\ req' = req /\ plan' = plan
    BY <1>3, BacktrackMoves
  <2>2. \/ nodes' = nodes + 1 /\ nodes < req.maxNodes
        \/ nodes' = nodes /\ Depth(stack', plan) < Depth(stack, plan)
        \/ nodes' = nodes /\ Depth(stack', plan) = Depth(stack, plan) /\ Len(stack') < Len(stack)
    BY <1>3, BacktrackFalls
  <2>3. /\ SearchLeft = <<1, req.maxNodes - nodes, Depth(stack, plan), Len(stack)>>
        /\ SearchLeft' = <<1, req.maxNodes - nodes', Depth(stack', plan), Len(stack')>>
    BY <2>1 DEF SearchLeft, SearchStage
  <2>4. /\ req.maxNodes \in Nat /\ nodes \in Nat
    BY <2>1 DEF Sound, Limited
  <2>5. /\ Depth(stack, plan) \in Int /\ Len(stack) \in Int /\ req.maxNodes - nodes \in Int
    <3>1. /\ Depth(stack, plan) \in Nat /\ Len(stack) \in Nat /\ req.maxNodes - nodes \in Nat
      BY <2>1, SearchLeftIsTyped
    <3> QED
      BY <3>1
  <2>6. req.maxNodes - nodes' \in Int /\ Depth(stack', plan) \in Int /\ Len(stack') \in Int
    <3> DEFINE left == SearchLeft'
    <3>1. left \in [1..4 -> Nat]
      OBVIOUS
    <3>2. left[2] = req.maxNodes - nodes' /\ left[3] = Depth(stack', plan) /\ left[4] = Len(stack')
      BY <2>3
    <3> HIDE DEF left
    <3>3. left[2] \in Int /\ left[3] \in Int /\ left[4] \in Int
      BY <3>1
    <3> QED
      BY <3>2, <3>3
  <2>7. nodes' = nodes + 1 => req.maxNodes - nodes' < req.maxNodes - nodes
    BY <2>4
  <2>8. KeyLess(<<1, req.maxNodes - nodes', Depth(stack', plan), Len(stack')>>,
                <<1, req.maxNodes - nodes, Depth(stack, plan), Len(stack)>>)
    <3> DEFINE a1 == 1
               a2 == req.maxNodes - nodes'
               a3 == Depth(stack', plan)
               a4 == Len(stack')
               b2 == req.maxNodes - nodes
               b3 == Depth(stack, plan)
               b4 == Len(stack)
    <3>1. a1 \in Int /\ a2 \in Int /\ a3 \in Int /\ a4 \in Int /\ b2 \in Int /\ b3 \in Int /\ b4 \in Int
      BY <2>5, <2>6
    <3>2. a2 < b2 \/ (a2 = b2 /\ (a3 < b3 \/ (a3 = b3 /\ a4 < b4)))
      BY <2>2, <2>7
    <3> HIDE DEF a1, a2, a3, a4, b2, b3, b4
    <3>3. KeyLess(<<a1, a2, a3, a4>>, <<a1, b2, b3, b4>>)
      BY <3>1, <3>2, KeyFalls
    <3> QED
      BY <3>3 DEF a1, a2, a3, a4, b2, b3, b4
  <2> QED
    BY <2>3, <2>8
<1>4. CASE Finish
  <2>1. pc = "search" /\ pc' = "done"
    BY <1>4 DEF Finish
  <2>2. SearchStage(pc') < SearchStage(pc)
    BY <2>1 DEF SearchStage
  <2> QED
    BY <2>2, StagesFall
<1> QED
  BY <1>1, <1>2, <1>3, <1>4 DEF SearchNext

\* The agent's search answers after finitely many steps: between two nodes it visits at
\* most every course once, and it counts no more nodes than its limit (backtrack).
THEOREM SearchComesToAnEnd == RankSpec => [](SearchLeft \in [1..4 -> Nat]) /\ SearchRunsDown
<1>1. Sound /\ Limited /\ Thorough /\ CallsAreVisited => SearchLeft \in [1..4 -> Nat]
  BY SearchLeftIsTyped
<1>2. Sound /\ Limited /\ Thorough /\ CallsAreVisited /\ SearchLeft \in [1..4 -> Nat]
        /\ (SearchLeft \in [1..4 -> Nat])' /\ [RankNext]_rankVars =>
        [SearchNext => KeyLess(SearchLeft', SearchLeft)]_rankVars
  BY SearchStepsFall
<1> QED
  BY <1>1, <1>2, SoundInit, SoundNext, LimitedInit, LimitedNext, ThoroughInit, ThoroughNext,
     CallsAreVisitedInit, CallsAreVisitedNext, PTL DEF RankSpec, SearchRunsDown

=============================================================================

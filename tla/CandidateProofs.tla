--------------------------- MODULE CandidateProofs ---------------------------
(***************************************************************************)
(* Proofs about the agent's search for any catalog, rules and requests: it *)
(* keeps its limits, explains an empty answer, offers admissible           *)
(* timetables only, and implements what TimetableOffer promises.           *)
(***************************************************************************)
EXTENDS CandidateCorrectness, RulesProofs

-----------------------------------------------------------------------------
(* The limits *)

\* Why the search stopped, and how far it had come.
Limited ==
  /\ ask \in Asks
  /\ nodes \in Nat
  /\ \E T : results \in Seq(T)
  /\ pc = "prepare" => req = None
  /\ pc \in {"prepare", "start"} =>
       nodes = 0 /\ results = <<>> /\ reason = "SEARCH_EXHAUSTED"
  /\ pc # "prepare" /\ req # None =>
       /\ req.maxResults \in Nat \ {0} /\ req.maxNodes \in Nat \ {0}
       /\ nodes <= req.maxNodes
       /\ Len(results) <= req.maxResults
       /\ reason = "MAX_RESULTS_REACHED" <=> Len(results) = req.maxResults
       /\ reason = "MAX_SEARCH_NODES_REACHED" => nodes = req.maxNodes

\* Nothing is found before the first request.
LEMMA LimitedInit == RankInit => Limited
<1> SUFFICES ASSUME RankInit PROVE Limited
  OBVIOUS
<1>1. results = <<>> /\ <<>> \in Seq({})
  BY DEF RankInit, SearchInit
<1>2. \E T : results \in Seq(T)
  BY <1>1, Zenon
<1> QED
  BY <1>2 DEF RankInit, SearchInit, Limited

\* A selection adds one candidate at most.
LEMMA OfferedOneMore ==
  ASSUME NEW T, results \in Seq(T), NEW S
  PROVE  /\ \E U : Offered(S) \in Seq(U)
         /\ Len(Offered(S)) \in {Len(results), Len(results) + 1}
<1>1. results \in Seq(T \cup {S})
  OBVIOUS
<1>2. Offered(S) = results \/ Offered(S) = Append(results, S)
  BY DEF Offered
<1>3. Append(results, S) \in Seq(T \cup {S}) /\ Len(Append(results, S)) = Len(results) + 1
  BY <1>1
<1> HIDE DEF Offered
<1>4. Offered(S) \in Seq(T \cup {S})
  BY <1>1, <1>2, <1>3
<1>5. \E U : Offered(S) \in Seq(U)
  BY <1>4, Zenon
<1> QED
  BY <1>2, <1>3, <1>5

\* A step of the search proper that offers nothing and counts the sections it
\* tries, up to the limit.
LEMMA CountingKeepsLimited ==
  ASSUME Limited, pc = "search", UNCHANGED <<ask, pc, req>>, results' = results,
         reason = "SEARCH_EXHAUSTED",
         \/ nodes' = nodes
         \/ nodes' = nodes + 1 /\ ~AtNodeLimit(nodes),
         \/ reason' = reason
         \/ reason' = "MAX_SEARCH_NODES_REACHED" /\ AtNodeLimit(nodes')
  PROVE  Limited'
<1>1. nodes' \in Nat
  BY DEF Limited
<1>2. \E T : results' \in Seq(T)
  BY Zenon DEF Limited
<1>3. ASSUME req # None
      PROVE  /\ req.maxResults \in Nat \ {0} /\ req.maxNodes \in Nat \ {0}
             /\ nodes' <= req.maxNodes
             /\ Len(results) <= req.maxResults
             /\ reason' = "MAX_RESULTS_REACHED" <=> Len(results) = req.maxResults
             /\ reason' = "MAX_SEARCH_NODES_REACHED" => nodes' = req.maxNodes
  BY <1>3 DEF Limited, AtNodeLimit
<1> QED
  BY <1>1, <1>2, <1>3 DEF Limited

\* A step of the search finds at most as many candidates as the limit.
LEMMA SearchKeepsLimited ==
  ASSUME Limited, pc = "search", Backtrack, UNCHANGED <<ask, pc, req>>
  PROVE  Limited'
<1>1. CASE VisitAtLimit
  <2>1. nodes' = nodes /\ results' = results
    BY <1>1 DEF VisitAtLimit
  <2>2. reason = "SEARCH_EXHAUSTED" /\ reason' = "MAX_SEARCH_NODES_REACHED" /\ AtNodeLimit(nodes)
    BY <1>1 DEF VisitAtLimit, Searching, Halted, StopAtNodeLimit
  <2>3. AtNodeLimit(nodes')
    BY <2>1, <2>2 DEF AtNodeLimit
  <2> QED
    BY <2>1, <2>2, <2>3, CountingKeepsLimited
<1>2. CASE VisitHopeless
  <2>1. reason = "SEARCH_EXHAUSTED" /\ nodes' = nodes /\ results' = results /\ reason' = reason
    BY <1>2 DEF VisitHopeless, Searching, Halted
  <2> QED
    BY <2>1, CountingKeepsLimited
<1>3. CASE VisitComplete
  <2>1. reason = "SEARCH_EXHAUSTED" /\ nodes' = nodes /\ results' = Offered(Top.selected)
    BY <1>3 DEF VisitComplete, Searching, Halted
  <2>2. IF Len(results') >= req.maxResults
          THEN reason' = "MAX_RESULTS_REACHED" ELSE reason' = reason
    BY <1>3 DEF VisitComplete
  <2>3. PICK T : results \in Seq(T)
    BY Zenon DEF Limited
  <2>4. (\E U : results' \in Seq(U)) /\ Len(results') \in {Len(results), Len(results) + 1}
    BY <2>1, <2>3, OfferedOneMore
  <2>5. Len(results) \in Nat
    BY <2>3
  <2>6. ASSUME req # None
        PROVE  /\ req.maxResults \in Nat \ {0} /\ req.maxNodes \in Nat \ {0}
               /\ nodes' <= req.maxNodes
               /\ Len(results') <= req.maxResults
               /\ reason' = "MAX_RESULTS_REACHED" <=> Len(results') = req.maxResults
               /\ reason' = "MAX_SEARCH_NODES_REACHED" => nodes' = req.maxNodes
    BY <2>1, <2>2, <2>4, <2>5, <2>6 DEF Limited
  <2>7. nodes' \in Nat /\ ask' \in Asks
    BY <2>1 DEF Limited
  <2> QED
    BY <2>4, <2>6, <2>7 DEF Limited
<1>4. CASE VisitIncomplete
  <2>1. reason = "SEARCH_EXHAUSTED" /\ nodes' = nodes /\ results' = results /\ reason' = reason
    BY <1>4 DEF VisitIncomplete, Searching, Halted
  <2> QED
    BY <2>1, CountingKeepsLimited
<1>5. CASE TryAtLimit
  <2>1. nodes' = nodes /\ results' = results
    BY <1>5 DEF TryAtLimit
  <2>2. reason = "SEARCH_EXHAUSTED" /\ reason' = "MAX_SEARCH_NODES_REACHED" /\ AtNodeLimit(nodes)
    BY <1>5 DEF TryAtLimit, Searching, Halted, StopAtNodeLimit
  <2>3. AtNodeLimit(nodes')
    BY <2>1, <2>2 DEF AtNodeLimit
  <2> QED
    BY <2>1, <2>2, <2>3, CountingKeepsLimited
<1>6. CASE TryFits
  <2>1. /\ reason = "SEARCH_EXHAUSTED" /\ nodes' = nodes + 1 /\ ~AtNodeLimit(nodes)
        /\ results' = results /\ reason' = reason
    BY <1>6 DEF TryFits, Searching, Halted
  <2> QED
    BY <2>1, CountingKeepsLimited
<1>7. CASE TryRejected
  <2>1. /\ reason = "SEARCH_EXHAUSTED" /\ nodes' = nodes + 1 /\ ~AtNodeLimit(nodes)
        /\ results' = results
    BY <1>7 DEF TryRejected, Searching, Halted
  <2>2. reason' = reason \/ (reason' = "MAX_SEARCH_NODES_REACHED" /\ AtNodeLimit(nodes'))
    BY <1>7 DEF TryRejected, StopAtNodeLimit
  <2> QED
    BY <2>1, <2>2, CountingKeepsLimited
<1>8. CASE Return
  BY <1>8 DEF Return, Limited
<1> QED
  BY <1>1, <1>2, <1>3, <1>4, <1>5, <1>6, <1>7, <1>8 DEF Backtrack

\* No step exceeds the limits.
LEMMA LimitedNext == Limited /\ [RankNext]_rankVars => Limited'
<1> SUFFICES ASSUME Limited, [RankNext]_rankVars PROVE Limited'
  OBVIOUS
<1>1. CASE Prepare
  <2>1. /\ pc = "prepare" /\ pc' \in {"start", "done"}
        /\ UNCHANGED <<ask, nodes, results, reason>>
    BY <1>1 DEF Prepare
  <2>2. nodes = 0 /\ results = <<>> /\ reason = "SEARCH_EXHAUSTED" /\ req = None
    BY <2>1 DEF Limited
  <2>3. req' = Prepared(ask) \/ req' = None
    BY <1>1, <2>2 DEF Prepare
  <2>4. Prepared(ask).maxResults = ask.maxResults /\ Prepared(ask).maxNodes = ask.maxNodes
    BY DEF Prepared
  <2>5. ask.maxResults \in Nat \ {0} /\ ask.maxNodes \in Nat \ {0}
    BY AsksHaveLimits DEF Limited
  <2>6. req' # None => req'.maxResults \in Nat \ {0} /\ req'.maxNodes \in Nat \ {0}
    BY <2>3, <2>4, <2>5
  <2>7. Len(results) = 0
    BY <2>2
  <2>8. \E T : results' \in Seq(T)
    BY <2>1, Zenon DEF Limited
  <2> QED
    BY <2>1, <2>2, <2>6, <2>7, <2>8 DEF Limited
<1>2. CASE Start
  <2>1. /\ pc = "start" /\ pc' \in {"search", "done"}
        /\ UNCHANGED <<ask, req, nodes, results, reason>>
    BY <1>2 DEF Start, Refuse
  <2> QED
    BY <2>1 DEF Limited
<1>3. CASE Backtrack /\ UNCHANGED <<ask, pc, req, plan, error>>
  <2>1. pc = "search"
    BY <1>3 DEF Backtrack, Searching, Return, VisitAtLimit, VisitHopeless, VisitComplete,
                VisitIncomplete, TryAtLimit, TryFits, TryRejected
  <2> QED
    BY <1>3, <2>1, SearchKeepsLimited
<1>4. CASE Finish /\ UNCHANGED <<ask, req, plan, error>>
  <2>1. pc = "search" /\ pc' = "done" /\ UNCHANGED <<ask, req, nodes, results, reason>>
    BY <1>4 DEF Finish
  <2> QED
    BY <2>1 DEF Limited
<1>5. CASE UNCHANGED searchVars
  BY <1>5 DEF searchVars, Limited
<1>6. CASE RankCandidates
  BY <1>5, <1>6 DEF RankCandidates
<1>7. CASE UNCHANGED rankVars
  BY <1>5, <1>7 DEF rankVars
<1> QED
  BY <1>1, <1>2, <1>3, <1>4, <1>6, <1>7 DEF RankNext, SearchNext

(* The search of the agent keeps its two limits, whatever it is asked for: *)
(* nodes and candidates stay within them, and a search that says it was    *)
(* cut short by a limit has reached it.                                    *)
THEOREM SearchLimitsKept == RankSpec => []LimitsAreKept
<1>1. Limited => LimitsAreKept
  BY DEF Limited, LimitsAreKept
<1> QED
  BY LimitedInit, LimitedNext, <1>1, PTL DEF RankSpec

-----------------------------------------------------------------------------
(* The reasons of an empty answer *)

\* A search that hit its node limit has said so, and an answer is empty only
\* with a reason.
Explained ==
  /\ pc = "prepare" => req = None
  /\ pc \in {"prepare", "start"} => reason = "SEARCH_EXHAUSTED"
  /\ reason = "MAX_SEARCH_NODES_REACHED" => "SEARCH_LIMIT_REACHED" \in failures
  /\ pc = "done" /\ req # None /\ results = <<>> => failures # {}

\* No step loses the explanation of an empty answer.
LEMMA ExplainedNext == Explained /\ [RankNext]_rankVars => Explained'
<1> SUFFICES ASSUME Explained, [RankNext]_rankVars PROVE Explained'
  OBVIOUS
<1>1. CASE Prepare
  BY <1>1 DEF Prepare, Explained
<1>2. CASE Start
  <2>1. pc = "start" /\ UNCHANGED <<req, reason, results>>
    BY <1>2 DEF Start
  <2>2. \/ pc' = "search"
        \/ pc' = "done" /\ \E code : failures' = failures \cup {code}
    BY <1>2 DEF Start, Refuse
  <2>3. pc' = "done" => failures' # {}
    BY <2>2
  <2> QED
    BY <2>1, <2>2, <2>3 DEF Explained
<1>3. CASE Backtrack /\ UNCHANGED <<ask, pc, req, plan, error>>
  <2>1. pc = "search" /\ pc' = "search"
    BY <1>3 DEF Backtrack, Searching, Return, VisitAtLimit, VisitHopeless, VisitComplete,
                VisitIncomplete, TryAtLimit, TryFits, TryRejected
  <2>2. failures \subseteq failures'
    BY <1>3 DEF Backtrack, Return, VisitAtLimit, VisitHopeless, VisitComplete,
                VisitIncomplete, TryAtLimit, TryFits, TryRejected, StopAtNodeLimit
  <2>3. \/ reason' = reason
        \/ reason' = "MAX_RESULTS_REACHED"
        \/ "SEARCH_LIMIT_REACHED" \in failures'
    BY <1>3 DEF Backtrack, Return, VisitAtLimit, VisitHopeless, VisitComplete,
                VisitIncomplete, TryAtLimit, TryFits, TryRejected, StopAtNodeLimit
  <2> QED
    BY <2>1, <2>2, <2>3 DEF Explained
<1>4. CASE Finish /\ UNCHANGED <<ask, req, plan, error>>
  BY <1>4 DEF Finish, Explained
<1>5. CASE UNCHANGED searchVars
  BY <1>5 DEF searchVars, Explained
<1>6. CASE RankCandidates
  BY <1>5, <1>6 DEF RankCandidates
<1>7. CASE UNCHANGED rankVars
  BY <1>5, <1>7 DEF rankVars
<1> QED
  BY <1>1, <1>2, <1>3, <1>4, <1>6, <1>7 DEF RankNext, SearchNext

(* An answer without candidates always carries a reason, and a search cut  *)
(* by its node limit carries that one.                                     *)
THEOREM EmptyAnswersExplained == RankSpec => []EmptyAnswerIsExplained
<1>1. RankInit => Explained
  BY DEF RankInit, SearchInit, Explained
<1>2. Explained => EmptyAnswerIsExplained
  BY DEF Explained, EmptyAnswerIsExplained
<1> QED
  BY <1>1, ExplainedNext, <1>2, PTL DEF RankSpec

-----------------------------------------------------------------------------
(* The lists a search goes through.                                         *)

\* A section has an earliest meeting.
LEMMA EarliestMeets ==
  ASSUME NEW s \in Sections
  PROVE  /\ EarliestMeeting(s) \in Catalog[s].meets
         /\ EarliestMeeting(s).day \in Nat /\ EarliestMeeting(s).start \in Nat
<1> DEFINE M == Catalog[s].meets
           days == {m.day : m \in M}
<1>1. M # {} /\ \A m \in M : m.day \in Nat /\ m.start \in Nat
  BY CatalogIsTyped
<1>2. PICK d \in days : \A e \in days : d <= e
  BY <1>1, LeastNumber
<1> DEFINE starts == {m.start : m \in {n \in M : n.day = d}}
<1>3. PICK b \in starts : \A c \in starts : b <= c
  BY <1>1, <1>2, LeastNumber
<1>4. PICK m \in M : m.day = d /\ m.start = b
  BY <1>3
<1>5. \A n \in M : m.day < n.day \/ (m.day = n.day /\ m.start <= n.start)
  <2> SUFFICES ASSUME NEW n \in M
               PROVE  m.day < n.day \/ (m.day = n.day /\ m.start <= n.start)
    OBVIOUS
  <2>1. n.day \in days /\ m.day <= n.day
    BY <1>2, <1>4
  <2>2. n.day = d => m.start <= n.start
    BY <1>3, <1>4
  <2> QED
    BY <1>1, <1>4, <2>1, <2>2
<1>6. EarliestMeeting(s) \in M
  BY <1>4, <1>5 DEF EarliestMeeting
<1> QED
  BY <1>1, <1>6

\* The classes of a course are listed once each.
LEMMA SectionsAreOrdered ==
  ASSUME NEW S \in SUBSET Sections
  PROVE  Lists(Ordered(S, SectionBefore), S)
<1> DEFINE Before == {p \in S \X S : SectionBefore(p[1], p[2])}
<1>1. \A s \in S : /\ s \in Nat
                  /\ EarliestMeeting(s).day \in Nat /\ EarliestMeeting(s).start \in Nat
  BY EarliestMeets, CatalogIsTyped
<1>2. LinearlyOrders(Before, S)
  BY <1>1 DEF LinearlyOrders, SectionBefore
<1>3. IsFiniteSet(S) /\ Cardinality(S) \in Nat
  BY CatalogIsTyped, FS_Subset, FS_CardinalityType
<1>4. ASSUME NEW i \in 1..Cardinality(S)
      PROVE  \E x \in S : Cardinality({y \in S : SectionBefore(y, x)}) = i - 1
  <2> HIDE DEF Before
  <2>f. IsFiniteSet(S) /\ LinearlyOrders(Before, S)
    BY <1>3, <1>2
  <2>0. \A j \in 1..Cardinality(S) :
          \E x \in S : Cardinality({y \in S : <<y, x>> \in Before}) = j - 1
    BY <2>f, PositionsAreTaken
  <2>1. PICK x \in S : Cardinality({y \in S : <<y, x>> \in Before}) = i - 1
    BY <2>0
  <2>2. {y \in S : <<y, x>> \in Before} = {y \in S : SectionBefore(y, x)}
    BY DEF Before
  <2> QED
    BY <2>1, <2>2
<1> DEFINE at(i) == CHOOSE x \in S : Cardinality({y \in S : SectionBefore(y, x)}) = i - 1
           list == [i \in 1..Cardinality(S) |-> at(i)]
<1>5. \A i \in 1..Cardinality(S) :
        at(i) \in S /\ Cardinality({y \in S : SectionBefore(y, at(i))}) = i - 1
  BY <1>4
<1>6. /\ list \in Seq(S) /\ Len(list) = Cardinality(S)
      /\ list \in [1..Cardinality(S) -> S]
  <2>1. \A i \in 1..Cardinality(S) : at(i) \in S
    BY <1>5
  <2> HIDE DEF at
  <2>2. list \in [1..Cardinality(S) -> S]
    BY <2>1
  <2> HIDE DEF list
  <2> QED
    BY <1>3, <2>2
<1>7. \A i, j \in 1..Cardinality(S) : list[i] = list[j] => i = j
  <2> HIDE DEF at
  <2> TAKE i, j \in 1..Cardinality(S)
  <2>1. at(i) = at(j) => i - 1 = j - 1
    BY <1>5
  <2>2. list[i] = at(i) /\ list[j] = at(j)
    OBVIOUS
  <2> HIDE DEF list
  <2> QED
    BY <2>1, <2>2
<1>8. \A x \in S : \E i \in 1..Cardinality(S) : list[i] = x
  <2> HIDE DEF list
  <2> QED
    BY <1>3, <1>6, <1>7, NoneIsLeftOut
<1>9. Ordered(S, SectionBefore) = list
  BY DEF Ordered
<1> HIDE DEF list
<1> QED
  BY <1>6, <1>7, <1>8, <1>9 DEF Lists

\* The searched courses are listed once each.
LEMMA CoursesAreOrdered ==
  ASSUME NEW r, r.offered \subseteq Sections
  PROVE  Lists(Ordered(SearchedCourses(r), LAMBDA c, d : CourseBefore(r, c, d)),
               SearchedCourses(r))
<1> DEFINE S == SearchedCourses(r)
           Before == {p \in S \X S : CourseBefore(r, p[1], p[2])}
<1>1. IsFiniteSet(CoursesOf(r.offered))
  <2> DEFINE f == [s \in r.offered |-> CourseOf(s)]
  <2>1. f \in Surjection(r.offered, CoursesOf(r.offered))
    BY DEF Surjection, CoursesOf
  <2>2. IsFiniteSet(r.offered)
    BY CatalogIsTyped, FS_Subset
  <2> HIDE DEF f
  <2> QED
    BY <2>1, <2>2, FS_Surjection
<1>2. IsFiniteSet(S) /\ Cardinality(S) \in Nat
  BY <1>1, FS_Subset, FS_CardinalityType DEF SearchedCourses
<1>3. ASSUME NEW c \in S PROVE c \in Nat /\ Cardinality(OfferedOf(r, c)) \in Nat
  <2>1. c \in Nat
    BY CatalogIsTyped DEF SearchedCourses, CoursesOf, CourseOf
  <2>2. OfferedOf(r, c) \subseteq Sections
    BY DEF OfferedOf
  <2> QED
    BY <2>1, <2>2, CatalogIsTyped, FS_Subset, FS_CardinalityType
<1>4. LinearlyOrders(Before, S)
  <2> HIDE DEF S
  <2> QED
    BY <1>3 DEF LinearlyOrders, CourseBefore
<1>5. ASSUME NEW i \in 1..Cardinality(S)
      PROVE  \E x \in S : Cardinality({y \in S : CourseBefore(r, y, x)}) = i - 1
  <2> HIDE DEF Before, S
  <2>f. IsFiniteSet(S) /\ LinearlyOrders(Before, S)
    BY <1>2, <1>4
  <2>0. \A j \in 1..Cardinality(S) :
          \E x \in S : Cardinality({y \in S : <<y, x>> \in Before}) = j - 1
    BY <2>f, PositionsAreTaken
  <2>1. PICK x \in S : Cardinality({y \in S : <<y, x>> \in Before}) = i - 1
    BY <2>0
  <2>2. {y \in S : <<y, x>> \in Before} = {y \in S : CourseBefore(r, y, x)}
    BY DEF Before
  <2> QED
    BY <2>1, <2>2
<1> DEFINE at(i) == CHOOSE x \in S : Cardinality({y \in S : CourseBefore(r, y, x)}) = i - 1
           list == [i \in 1..Cardinality(S) |-> at(i)]
<1>6. \A i \in 1..Cardinality(S) :
        at(i) \in S /\ Cardinality({y \in S : CourseBefore(r, y, at(i))}) = i - 1
  BY <1>5
<1>7. /\ list \in Seq(S) /\ Len(list) = Cardinality(S)
      /\ list \in [1..Cardinality(S) -> S]
  <2>1. \A i \in 1..Cardinality(S) : at(i) \in S
    BY <1>6
  <2> HIDE DEF at, S
  <2>2. list \in [1..Cardinality(S) -> S]
    BY <2>1
  <2> HIDE DEF list
  <2> QED
    BY <1>2, <2>2
<1>8. \A i, j \in 1..Cardinality(S) : list[i] = list[j] => i = j
  <2> HIDE DEF at, S
  <2> TAKE i, j \in 1..Cardinality(S)
  <2>1. at(i) = at(j) => i - 1 = j - 1
    BY <1>6
  <2>2. list[i] = at(i) /\ list[j] = at(j)
    OBVIOUS
  <2> HIDE DEF list
  <2> QED
    BY <2>1, <2>2
<1>9. \A x \in S : \E i \in 1..Cardinality(S) : list[i] = x
  <2> HIDE DEF list, S
  <2> QED
    BY <1>2, <1>7, <1>8, NoneIsLeftOut
<1>10. Ordered(S, LAMBDA c, d : CourseBefore(r, c, d)) = list
  BY DEF Ordered
<1> HIDE DEF list
<1>11. Lists(list, S)
  BY <1>7, <1>8, <1>9 DEF Lists
<1> QED
  BY <1>10, <1>11

-----------------------------------------------------------------------------
(* What the search holds while it runs.                                     *)

\* Sections of courses that are neither excluded nor fixed.
Pool(r) == {s \in r.offered : CourseOf(s) \in SearchedCourses(r)}

PlanFits(r, p) ==
  /\ Lists(p.courses, SearchedCourses(r))
  /\ \A c \in SearchedCourses(r) : Lists(p.sections[c], OfferedOf(r, c))
  /\ p.required = UnresolvedRequired(r)

\* An open call that tries sections has a course to take them from.
Frames(r, p) ==
  {f \in [index : Nat \ {0}, selected : SUBSET Pool(r), item : Nat, accepted : BOOLEAN] :
     f.item > 0 => f.index <= Len(p.courses)}

\* The inductive invariant.
Sound ==
  /\ ask \in Asks
  /\ pc \in {"prepare", "start", "search", "done"}
  /\ pc = "prepare" => req = None
  /\ pc \in {"start", "search"} => req # None
  /\ pc \in {"prepare", "start"} => results = <<>>
  /\ req # None => \E a \in Asks : req = Prepared(a)
  /\ pc = "search" =>
       /\ req.fixed \cup req.offered \subseteq Sections
       /\ PlanFits(req, plan)
       /\ stack \in Seq(Frames(req, plan))
  /\ results \in Seq(SUBSET Sections)
  /\ \A i \in 1..Len(results) : Admissible(req, results[i])

\* The top and the rest of a stack are of its type.
LEMMA StackParts ==
  ASSUME NEW T, NEW q \in Seq(T), q # <<>>
  PROVE  Last(q) \in T /\ Front(q) \in Seq(T)
BY DEF Last, Front

\* The plan of a request lists its courses and their classes.
LEMMA PlanIsFitting ==
  ASSUME NEW r, r.offered \subseteq Sections
  PROVE  PlanFits(r, PlanOf(r))
<1>1. Lists(PlanOf(r).courses, SearchedCourses(r))
  BY CoursesAreOrdered DEF PlanOf
<1>2. ASSUME NEW c \in SearchedCourses(r)
      PROVE  Lists(PlanOf(r).sections[c], OfferedOf(r, c))
  <2>1. OfferedOf(r, c) \subseteq Sections
    BY DEF OfferedOf
  <2>2. Lists(Ordered(OfferedOf(r, c), SectionBefore), OfferedOf(r, c))
    BY <2>1, SectionsAreOrdered
  <2> QED
    BY <2>2 DEF PlanOf
<1>3. PlanOf(r).required = UnresolvedRequired(r)
  BY DEF PlanOf
<1> QED
  BY <1>1, <1>2, <1>3 DEF PlanFits

-----------------------------------------------------------------------------
(* What is offered is admissible.                                           *)

\* Classes of different courses without conflicts are disjoint.
LEMMA ValidIsDisjoint ==
  ASSUME NEW T \in SUBSET Sections,
         \A s, t \in T : s # t => CourseOf(s) # CourseOf(t),
         \A s, t \in T : s # t => ~ConflictsWith(s, t)
  PROVE  Disjoint(T)
<1> SUFFICES ASSUME NEW s \in T, NEW t \in T, s # t,
                    NEW a \in Catalog[s].meets, NEW b \in Catalog[t].meets
             PROVE  a.day # b.day \/ a.end <= b.start \/ b.end <= a.start
  BY DEF Disjoint
<1>1. a.start \in Nat /\ a.end \in Nat /\ b.start \in Nat /\ b.end \in Nat
  BY CatalogIsTyped
<1>2. ~Overlaps(a, b)
  BY DEF ConflictsWith
<1> QED
  BY <1>1, <1>2 DEF Overlaps

\* Credits that pass the two comparisons are within the request's bounds.
LEMMA BoundsAreKept ==
  ASSUME NEW a \in Asks, NEW r, r = Prepared(a), NEW T \in SUBSET Sections,
         ~BelowMinimum(Credits(T), r.min, r.minInclusive),
         ~AboveMaximum(Credits(T), r.max, r.maxInclusive)
  PROVE  CreditsWithin(r, T)
<1>1. Credits(T) \in Nat
  BY CreditsAreNumbers
<1>2. r.min = a.min /\ r.max = a.max
  BY DEF Prepared
<1>3. r.min \in Nat \cup {None} /\ r.max \in Nat \cup {None}
  BY <1>2, AsksAreTyped
<1> HIDE DEF Credits
<1> QED
  BY <1>1, <1>3 DEF CreditsWithin, BelowMinimum, AboveMaximum

\* What passes the hard rules and the validation is a timetable the search promises to
\* offer.
LEMMA OfferedIsAdmissible ==
  ASSUME NEW a \in Asks, NEW r, r = Prepared(a),
         r.fixed \cup r.offered \subseteq Sections,
         NEW S \in SUBSET Pool(r),
         HardRulesHold(r.fixed \cup S, r.required, r),
         Valid(r.fixed \cup S, MaxGap, r.min, r.minInclusive, r.max, r.maxInclusive),
         TargetCount(r) # None => Cardinality(S) = TargetCount(r),
         r.credits # None => Credits(S) >= r.credits
  PROVE  Admissible(r, S)
<1> DEFINE all == r.fixed \cup S
<1>1. S \subseteq r.offered /\ all \subseteq Sections
  BY DEF Pool
<1>2. S \cap r.fixed = {}
  BY DEF Pool, SearchedCourses, CoursesOf
<1>3. Disjoint(all)
  BY <1>1, ValidIsDisjoint DEF HardRulesHold, Valid
<1>4. ~TravelIssue(all, MaxGap)
  BY DEF Valid
<1>5. r.required \subseteq Named(all)
  BY RequiredAreNamed DEF HardRulesHold, Named
<1>6. CoursesOf(S) \cap Normalized(r.excluded, r.offered) = {}
  BY DEF Pool, SearchedCourses, CoursesOf
<1>7. InWindow(r, all)
  BY DEF HardRulesHold, SectionAllowed, InWindow
<1>8. CreditsWithin(r, all)
  <2>1. /\ ~BelowMinimum(Credits(all), r.min, r.minInclusive)
        /\ ~AboveMaximum(Credits(all), r.max, r.maxInclusive)
    BY DEF Valid
  <2> HIDE DEF all
  <2> QED
    BY <1>1, <2>1, BoundsAreKept
<1>9. MeetsTargets(r, S)
  BY AsksAreTyped DEF MeetsTargets, TargetCount
<1> QED
  BY <1>1, <1>2, <1>3, <1>4, <1>5, <1>6, <1>7, <1>8, <1>9 DEF Admissible

-----------------------------------------------------------------------------
(* Every step keeps it.                                                     *)

\* A step that offers nothing.
LEMMA QuietKeepsSound ==
  ASSUME Sound, UNCHANGED <<ask, req, plan, results>>,
         pc = "search", pc' \in {"search", "done"},
         pc' = "search" =>
           /\ req.fixed \cup req.offered \subseteq Sections
           /\ PlanFits(req, plan)
           /\ stack' \in Seq(Frames(req, plan))
  PROVE  Sound'
BY DEF Sound

\* A call that moves to another of its sections.
LEMMA FrameMoves ==
  ASSUME NEW r, NEW p, NEW f \in Frames(r, p), f.index <= Len(p.courses), NEW n \in Nat
  PROVE  /\ [f EXCEPT !.item = n] \in Frames(r, p)
         /\ [[f EXCEPT !.item = n] EXCEPT !.accepted = TRUE] \in Frames(r, p)
<1> DEFINE T == [index : Nat \ {0}, selected : SUBSET Pool(r), item : Nat, accepted : BOOLEAN]
           g == [f EXCEPT !.item = n]
           h == [g EXCEPT !.accepted = TRUE]
<1>1. f \in T
  BY DEF Frames
<1>2. g \in T /\ g.index = f.index
  BY <1>1
<1> HIDE DEF g
<1>3. h \in T /\ h.index = g.index
  BY <1>2
<1> HIDE DEF h
<1>4. g \in Frames(r, p) /\ h \in Frames(r, p)
  BY <1>2, <1>3 DEF Frames
<1> QED
  BY <1>4 DEF g, h

\* The open call of a running search is of its type.
LEMMA OpenCalls ==
  ASSUME Sound, pc = "search", stack # <<>>
  PROVE  /\ Top \in Frames(req, plan)
         /\ Rest \in Seq(Frames(req, plan))
         /\ Top.index \in Nat \ {0} /\ Top.item \in Nat
         /\ Top.selected \in SUBSET Pool(req)
<1>1. stack \in Seq(Frames(req, plan))
  BY DEF Sound
<1>2. Top \in Frames(req, plan) /\ Rest \in Seq(Frames(req, plan))
  BY <1>1, StackParts DEF Top, Rest
<1> QED
  BY <1>2 DEF Frames

\* The calls that exploring a course opens are of their type.
LEMMA ExploredFits ==
  ASSUME Sound, pc = "search", stack # <<>>, ~AtEnd
  PROVE  Explored \in Seq(Frames(req, plan))
<1> DEFINE F == Frames(req, plan)
           opened == [Top EXCEPT !.item = 1]
           next == Frame(Top.index + 1, Top.selected)
<1>1. Len(plan.courses) \in Nat
  BY DEF Sound, PlanFits, Lists
<1>2. opened \in F
  <2>1. Top \in F /\ Top.index \in Nat /\ Top.index <= Len(plan.courses)
    BY <1>1, OpenCalls DEF AtEnd
  <2> QED
    BY <2>1, FrameMoves
<1>3. next \in F
  BY OpenCalls DEF Frames, Frame
<1>4. Rest \in Seq(F)
  BY OpenCalls
<1> HIDE DEF F, opened, next
<1>5. Append(Rest, opened) \in Seq(F) /\ Append(Append(Rest, opened), next) \in Seq(F)
  BY <1>2, <1>3, <1>4
<1> QED
  BY <1>5 DEF Explored, opened, next, F

\* The section that is tried is one that was offered, of a course to search.
LEMMA TriedSection ==
  ASSUME Sound, pc = "search", stack # <<>>, Top.item > 0, Untried
  PROVE  Section \in Pool(req)
<1>1. PlanFits(req, plan)
  BY DEF Sound
<1>2. Top.index \in 1..Len(plan.courses)
  BY <1>1, OpenCalls DEF Frames, PlanFits, Lists
<1>3. Course \in SearchedCourses(req)
  BY <1>1, <1>2 DEF PlanFits, Lists, Course
<1>4. plan.sections[Course] \in Seq(OfferedOf(req, Course))
  BY <1>1, <1>3 DEF PlanFits, Lists
<1>5. Section \in OfferedOf(req, Course)
  BY <1>4 DEF Section, Untried
<1> QED
  BY <1>3, <1>5 DEF Pool, OfferedOf

\* A step of the search offers only admissible candidates, each once.
LEMMA BacktrackKeepsSound ==
  ASSUME Sound, Backtrack, UNCHANGED <<ask, pc, req, plan, error>>
  PROVE  Sound'
<1> DEFINE F == Frames(req, plan)
<1>0. /\ pc = "search" /\ stack # <<>>
  BY DEF Backtrack, Searching, Return, VisitAtLimit, VisitHopeless, VisitComplete,
         VisitIncomplete, TryAtLimit, TryFits, TryRejected
<1>a. /\ req.fixed \cup req.offered \subseteq Sections /\ PlanFits(req, plan)
      /\ Top \in F /\ Rest \in Seq(F)
      /\ Top.index \in Nat \ {0} /\ Top.item \in Nat /\ Top.selected \in SUBSET Pool(req)
  BY <1>0, OpenCalls DEF Sound
<1>b. Top.item > 0 => Advanced \in F /\ [Advanced EXCEPT !.accepted = TRUE] \in F
  <2>1. Top.item > 0 => Top.index <= Len(plan.courses)
    BY <1>a DEF Frames
  <2>2. Top.item + 1 \in Nat
    BY <1>a
  <2> HIDE DEF F
  <2> QED
    BY <1>a, <2>1, <2>2, FrameMoves DEF Advanced, F
<1>1. ASSUME results' = results, stack' \in Seq(F) PROVE Sound'
  <2> HIDE DEF F
  <2> QED
    BY <1>0, <1>a, <1>1, QuietKeepsSound DEF F
<1>2. CASE VisitAtLimit
  BY <1>1, <1>2, <1>a DEF VisitAtLimit, StopAtNodeLimit
<1>3. CASE VisitHopeless
  BY <1>1, <1>3, <1>a DEF VisitHopeless
<1>4. CASE VisitIncomplete
  BY <1>0, <1>1, <1>4, <1>a, ExploredFits DEF VisitIncomplete
<1>5. CASE TryAtLimit
  BY <1>1, <1>5, <1>a DEF TryAtLimit, StopAtNodeLimit
<1>6. CASE TryFits
  <2>1. Section \in Pool(req)
    BY <1>0, <1>6, TriedSection DEF TryFits
  <2>2. Frame(Top.index + 1, Top.selected \cup {Section}) \in F
    BY <1>a, <2>1 DEF Frames, Frame
  <2>3. [Advanced EXCEPT !.accepted = TRUE] \in F
    BY <1>b, <1>6 DEF TryFits
  <2> HIDE DEF F
  <2>4. Append(Append(Rest, [Advanced EXCEPT !.accepted = TRUE]),
               Frame(Top.index + 1, Top.selected \cup {Section})) \in Seq(F)
    BY <1>a, <2>2, <2>3
  <2> QED
    BY <1>1, <1>6, <2>4 DEF TryFits
<1>7. CASE TryRejected
  <2>1. Advanced \in F
    BY <1>b, <1>7 DEF TryRejected
  <2> HIDE DEF F
  <2>2. Append(Rest, Advanced) \in Seq(F)
    BY <1>a, <2>1
  <2> QED
    BY <1>1, <1>7, <1>a, <2>2 DEF TryRejected, StopAtNodeLimit
<1>8. CASE Return
  BY <1>1, <1>8, <1>a DEF Return
<1>9. CASE VisitComplete
  <2>1. results' = Offered(Top.selected) /\ TargetsMet(Top.selected)
    BY <1>9 DEF VisitComplete
  <2>2. stack' \in Seq(F)
    BY <1>0, <1>9, <1>a, ExploredFits DEF VisitComplete
  <2>3. CASE results' = results
    BY <1>1, <2>2, <2>3
  <2>4. CASE results' # results
    <3>1. /\ results' = Append(results, Top.selected)
          /\ HardRulesHold(req.fixed \cup Top.selected, req.required, req)
          /\ Valid(req.fixed \cup Top.selected, MaxGap,
                   req.min, req.minInclusive, req.max, req.maxInclusive)
      BY <2>1, <2>4 DEF Offered
    <3>2. PICK a \in Asks : req = Prepared(a)
      BY <1>0 DEF Sound
    <3>3. Admissible(req, Top.selected)
      <4>1. /\ TargetCount(req) # None => Cardinality(Top.selected) = TargetCount(req)
            /\ req.credits # None => Credits(Top.selected) >= req.credits
        BY <2>1 DEF TargetsMet
      <4> HIDE DEF F
      <4> QED
        BY <1>a, <3>1, <3>2, <4>1, OfferedIsAdmissible
    <3>4. Top.selected \in SUBSET Sections
      BY <1>a DEF Pool
    <3>5. results' \in Seq(SUBSET Sections)
      BY <3>1, <3>4 DEF Sound
    <3>6. \A i \in 1..Len(results') : Admissible(req, results'[i])
      BY <3>1, <3>3, <3>4 DEF Sound
    <3> QED
      BY <1>0, <1>a, <2>2, <3>5, <3>6 DEF Sound
  <2> QED
    BY <2>3, <2>4
<1> QED
  BY <1>2, <1>3, <1>4, <1>5, <1>6, <1>7, <1>8, <1>9 DEF Backtrack

\* Nothing is found before the first request.
LEMMA SoundInit == RankInit => Sound
BY DEF RankInit, SearchInit, Sound

\* No step of the search or its ranking loses soundness.
LEMMA SoundNext == Sound /\ [RankNext]_rankVars => Sound'
<1> SUFFICES ASSUME Sound, [RankNext]_rankVars PROVE Sound'
  OBVIOUS
<1>1. CASE Prepare
  <2>1. /\ pc = "prepare" /\ pc' \in {"start", "done"} /\ UNCHANGED <<ask, results>>
        /\ req = None /\ results = <<>>
        /\ (pc' = "start" /\ req' = Prepared(ask)) \/ (pc' = "done" /\ req' = None)
    BY <1>1 DEF Prepare, Sound
  <2>2. ask \in Asks /\ Prepared(ask) # None
    BY AsksAreTyped DEF Sound
  <2> QED
    BY <2>1, <2>2 DEF Sound
<1>2. CASE Start
  <2>1. pc = "start" /\ UNCHANGED <<ask, req, results>> /\ results = <<>> /\ req # None
    BY <1>2 DEF Start, Sound
  <2>2. pc' = "done" \/ pc' = "search"
    BY <1>2 DEF Start, Refuse
  <2>3. ASSUME pc' = "search"
        PROVE  /\ req.fixed \cup req.offered \subseteq Sections
               /\ PlanFits(req, plan')
               /\ stack' \in Seq(Frames(req, plan'))
    <3>1. /\ req.fixed \cup req.offered \subseteq Sections
          /\ plan' = PlanOf(req) /\ stack' = <<Frame(1, {})>>
      BY <1>2, <2>3 DEF Start, Refuse
    <3>2. PlanFits(req, plan')
      BY <3>1, PlanIsFitting
    <3>3. Frame(1, {}) \in Frames(req, plan')
      BY DEF Frame, Frames
    <3> QED
      BY <3>1, <3>2, <3>3
  <2> QED
    BY <2>1, <2>2, <2>3 DEF Sound
<1>3. CASE Backtrack /\ UNCHANGED <<ask, pc, req, plan, error>>
  BY <1>3, BacktrackKeepsSound
<1>4. CASE Finish /\ UNCHANGED <<ask, req, plan, error>>
  BY <1>4 DEF Finish, Sound
<1>5. CASE UNCHANGED searchVars
  BY <1>5 DEF searchVars, Sound
<1>6. CASE RankCandidates
  BY <1>5, <1>6 DEF RankCandidates
<1>7. CASE UNCHANGED rankVars
  BY <1>5, <1>7 DEF rankVars
<1> QED
  BY <1>1, <1>2, <1>3, <1>4, <1>6, <1>7 DEF RankNext, SearchNext

(* Whatever catalog, rules and request the search is run with: each        *)
(* timetable it offers is admissible, though the search decides along the  *)
(* way, from parts of a timetable, and admissible is said of the whole.    *)
THEOREM AdmissibleOnly == RankSpec => []CandidatesAreAdmissible
<1>1. Sound => CandidatesAreAdmissible
  BY DEF Sound, CandidatesAreAdmissible, ToSet
<1> QED
  BY SoundInit, SoundNext, <1>1, PTL DEF RankSpec

-----------------------------------------------------------------------------
(* The promise.                                                             *)

\* The promise counts what it offers as the search does.
LEMMA SameCount == \A S : Promise!Cardinality(S) = Cardinality(S)
BY DEF Promise!Cardinality, Cardinality, Promise!IsFiniteSet, IsFiniteSet

\* A complete selection is one more offer, or none.
LEMMA CompleteOffers ==
  ASSUME Sound, Sound', Limited', VisitComplete, UNCHANGED <<ask, pc, req, plan, error>>
  PROVE  [Promise!Next]_(Promise!vars)
<1>1. /\ pc = "search" /\ pc' = "search" /\ req' = req /\ req # None
      /\ results' = Offered(Top.selected)
  BY DEF VisitComplete, Searching, Sound
<1>2. CASE ToSet(results') = ToSet(results)
  BY <1>1, <1>2 DEF Promise!vars
<1>3. CASE ToSet(results') # ToSet(results)
  <2> DEFINE S == Top.selected
  <2>1. results' = Append(results, S) /\ results \in Seq(SUBSET Sections)
    BY <1>1, <1>3 DEF Offered, Sound
  <2>2. results' \in Seq(SUBSET Sections) /\ \A i \in 1..Len(results') : Admissible(req, results'[i])
    BY <1>1 DEF Sound
  <2> HIDE DEF S
  <2>3. ToSet(results') = ToSet(results) \cup {S}
    BY <2>1 DEF ToSet
  <2>4. S \in ToSet(results') /\ S \notin ToSet(results)
    BY <1>3, <2>3
  <2>5. Admissible(req, S)
    BY <2>2, <2>4 DEF ToSet
  <2>6. Cardinality(ToSet(results')) <= req.maxResults
    <3>1. Len(results') <= req.maxResults /\ req.maxResults \in Nat
      BY <1>1 DEF Limited
    <3>2. IsFiniteSet(ToSet(results')) /\ Cardinality(ToSet(results')) <= Len(results')
      BY <2>2, ItemsAreCounted
    <3>3. Cardinality(ToSet(results')) \in Nat /\ Len(results') \in Nat
      BY <2>2, <3>2, FS_CardinalityType
    <3> QED
      BY <3>1, <3>2, <3>3
  <2>7. Promise!Offer
    BY <1>1, <2>3, <2>4, <2>5, <2>6, SameCount DEF Promise!Offer
  <2> QED
    BY <2>7 DEF Promise!Next
<1> QED
  BY <1>2, <1>3

\* Every step of the search and its ranking is a step of the promise or none.
LEMMA StepKeepsPromise ==
  ASSUME Sound, Sound', Limited, Limited', [RankNext]_rankVars
  PROVE  [Promise!Next]_(Promise!vars)
<1>q. ASSUME UNCHANGED <<req, results>>, pc # "done", pc' = "done"
      PROVE  Promise!Next
  BY <1>q DEF Promise!Next, Promise!Answer
<1>u. ASSUME UNCHANGED <<req, results>>, pc # "done", pc' # "done"
      PROVE  [Promise!Next]_(Promise!vars)
  BY <1>u DEF Promise!vars
<1>1. CASE Prepare
  <2>1. pc = "prepare" /\ req = None /\ UNCHANGED <<ask, results>> /\ results = <<>> /\ ask \in Asks
    BY <1>1 DEF Prepare, Sound
  <2>2. CASE pc' = "done"
    <3>1. req' = req
      BY <1>1, <2>2 DEF Prepare
    <3> QED
      BY <2>1, <2>2, <3>1, <1>q
  <2>3. CASE pc' = "start"
    <3>1. req' = Prepared(ask) /\ req' # req
      BY <1>1, <2>1, <2>3, AsksAreTyped DEF Prepare
    <3>2. ToSet(results) = {} /\ ToSet(results') = {}
      BY <2>1 DEF ToSet
    <3>3. Promise!Ask
      BY <2>1, <2>3, <3>1, <3>2 DEF Promise!Ask
    <3> QED
      BY <3>3 DEF Promise!Next
  <2> QED
    BY <1>1, <2>2, <2>3 DEF Prepare
<1>2. CASE Start
  <2>1. pc = "start" /\ UNCHANGED <<req, results>>
    BY <1>2 DEF Start
  <2> QED
    BY <2>1, <1>q, <1>u
<1>3. CASE Backtrack /\ UNCHANGED <<ask, pc, req, plan, error>>
  <2>1. CASE VisitComplete
    BY <1>3, <2>1, CompleteOffers
  <2>2. CASE ~VisitComplete
    <3>1. pc = "search" /\ results' = results
      BY <1>3, <2>2 DEF Backtrack, Searching, Return, VisitAtLimit, VisitHopeless,
                  VisitIncomplete, TryAtLimit, TryFits, TryRejected
    <3> QED
      BY <1>3, <3>1, <1>u
  <2> QED
    BY <2>1, <2>2
<1>4. CASE Finish /\ UNCHANGED <<ask, req, plan, error>>
  BY <1>4, <1>q DEF Finish
<1>5. CASE UNCHANGED searchVars
  BY <1>5 DEF searchVars, Promise!vars
<1>6. CASE RankCandidates
  BY <1>5, <1>6 DEF RankCandidates
<1>7. CASE UNCHANGED rankVars
  BY <1>5, <1>7 DEF rankVars
<1> QED
  BY <1>1, <1>2, <1>3, <1>4, <1>6, <1>7 DEF RankNext, SearchNext

(* The search implements the promise of a timetable generator, whatever it *)
(* is run with: it offers admissible timetables one after the other, takes *)
(* none back, offers none twice and no more than was asked for.            *)
THEOREM SearchImplementsPromise ==
  RankSpec => Promise!Init /\ [][Promise!Next]_(Promise!vars)
<1>1. RankInit => Promise!Init
  BY DEF RankInit, SearchInit, Promise!Init, ToSet
<1>2. Sound /\ Limited /\ Sound' /\ Limited' /\ [RankNext]_rankVars => [Promise!Next]_(Promise!vars)
  BY StepKeepsPromise
<1> QED
  BY <1>1, <1>2, SoundInit, SoundNext, LimitedInit, LimitedNext, PTL DEF RankSpec

-----------------------------------------------------------------------------
(* Scores *)

\* The breaks of a timetable are natural numbers.
LEMMA GapsAreNumbers ==
  ASSUME NEW S \in SUBSET Sections
  PROVE  /\ IsFiniteSet(Neighbours(S)) /\ \A p \in Neighbours(S) : GapOf(p) \in Nat
         /\ TotalGap(S) \in Nat /\ LongGaps(S) \in Nat /\ ShortGaps(S) \in Nat
<1> DEFINE w == [p \in Neighbours(S) |-> GapOf(p)]
<1>1. IsFiniteSet(Neighbours(S)) /\ \A p \in Neighbours(S) : BreakOf(p) \in Int
  BY NeighboursAreFinite
<1>2. \A p \in Neighbours(S) : GapOf(p) \in Nat
  BY <1>1 DEF GapOf, Excess
<1>3. w \in [Neighbours(S) -> Nat]
  BY <1>2
<1> HIDE DEF w
<1>4. SumFunction(w) \in Nat
  BY <1>1, <1>3, SumIsNumber
<1>5. \A T \in SUBSET Neighbours(S) : Cardinality(T) \in Nat
  BY <1>1, FS_Subset, FS_CardinalityType
<1>6. LongGaps(S) \in Nat /\ ShortGaps(S) \in Nat
  BY <1>5 DEF LongGaps, ShortGaps
<1> QED
  BY <1>1, <1>2, <1>4, <1>6 DEF TotalGap, w

\* Each long gap is part of the total.
LEMMA LongGapsAddUp ==
  ASSUME NEW S \in SUBSET Sections
  PROVE  /\ LongGaps(S) # 0 => TotalGap(S) >= LongGapThreshold
         /\ LongGaps(S) \notin {0, 1} => TotalGap(S) >= 2 * LongGapThreshold
<1> DEFINE U == Neighbours(S)
           w == [p \in U |-> GapOf(p)]
           long == {p \in U : GapOf(p) >= LongGapThreshold}
<1>1. IsFiniteSet(U) /\ w \in [U -> Nat] /\ w \in [U -> Int]
  BY GapsAreNumbers
<1>2. TotalGap(S) = SumFunction(w)
  BY DEF TotalGap
<1>3. IsFiniteSet(long) /\ LongGaps(S) = Cardinality(long) /\ long \subseteq U
  BY <1>1, FS_Subset DEF LongGaps
<1>4. \A p \in long : w[p] >= 120
  BY DEF LongGapThreshold
<1> HIDE DEF U, w, long
<1>5. ASSUME NEW p \in long PROVE SumFunction(w) >= 120
  <2>1. w[p] <= SumFunction(w) /\ SumFunction(w) \in Nat /\ w[p] \in Nat
    BY <1>1, <1>3, SumIsNumber
  <2> QED
    BY <1>4, <2>1
<1>6. ASSUME NEW p \in long, NEW q \in long, p # q PROVE SumFunction(w) >= 240
  <2>1. p \in U /\ q \in U
    BY <1>3
  <2>2. w[p] + w[q] <= SumFunction(w)
    BY <1>1, <1>6, <2>1, TwoAreSummed
  <2>3. SumFunction(w) \in Nat /\ w[p] \in Nat /\ w[q] \in Nat
    BY <1>1, <2>1, SumIsNumber
  <2> QED
    BY <1>4, <2>2, <2>3
<1>7. ASSUME LongGaps(S) # 0 PROVE TotalGap(S) >= LongGapThreshold
  <2>1. long # {}
    BY <1>3, <1>7, FS_EmptySet
  <2> QED
    BY <1>2, <1>5, <2>1 DEF LongGapThreshold
<1>8. ASSUME LongGaps(S) \notin {0, 1} PROVE TotalGap(S) >= 2 * LongGapThreshold
  <2>1. PICK p \in long : TRUE
    BY <1>3, <1>8, FS_EmptySet
  <2>2. long # {p}
    BY <1>3, <1>8, FS_Singleton
  <2>3. PICK q \in long : q # p
    BY <2>1, <2>2
  <2>4. SumFunction(w) >= 240
    BY <1>6, <2>3
  <2> QED
    BY <1>2, <2>4 DEF LongGapThreshold
<1> QED
  BY <1>7, <1>8

\* The minutes before an earliest start and after a latest end are natural numbers.
LEMMA LateMinutesAreNumbers ==
  ASSUME NEW p \in SoftPreferences, NEW S \in SUBSET Sections
  PROVE  /\ p.start # None =>
              SumFunction([d \in DaysOf(S) |-> Excess(p.start - FirstStart(S, d))]) \in Nat
         /\ p.end # None =>
              SumFunction([d \in DaysOf(S) |-> Excess(LastEnd(S, d) - p.end)]) \in Nat
<1>1. IsFiniteSet(DaysOf(S))
  BY NeighboursAreFinite DEF DaysOf
<1>2. ASSUME NEW d \in DaysOf(S) PROVE FirstStart(S, d) \in Nat /\ LastEnd(S, d) \in Nat
  <2>1. /\ IsFiniteSet(Meets(S))
        /\ \A m \in Meets(S) : m.start \in Nat /\ m.end \in Nat
    BY MeetsAreNumbered
  <2>2. IsFiniteSet(OnDay(S, d)) /\ OnDay(S, d) # {}
    BY <1>2, <2>1, FS_Subset DEF OnDay, DaysOf
  <2>3. \A m \in OnDay(S, d) : m.start \in Nat /\ m.end \in Nat
    BY <2>1 DEF OnDay
  <2> QED
    BY <2>2, <2>3, BoundsOfMeetings DEF FirstStart, LastEnd
<1>3. ASSUME p.start # None
      PROVE  SumFunction([d \in DaysOf(S) |-> Excess(p.start - FirstStart(S, d))]) \in Nat
  <2> DEFINE w == [d \in DaysOf(S) |-> Excess(p.start - FirstStart(S, d))]
  <2>1. p.start \in Nat
    BY <1>3, SoftPreferencesAreTyped
  <2>2. w \in [DaysOf(S) -> Nat]
    BY <1>2, <2>1 DEF Excess
  <2> HIDE DEF w
  <2>3. SumFunction(w) \in Nat
    BY <1>1, <2>2, SumIsNumber
  <2> QED
    BY <2>3 DEF w
<1>4. ASSUME p.end # None
      PROVE  SumFunction([d \in DaysOf(S) |-> Excess(LastEnd(S, d) - p.end)]) \in Nat
  <2> DEFINE w == [d \in DaysOf(S) |-> Excess(LastEnd(S, d) - p.end)]
  <2>1. p.end \in Nat
    BY <1>4, SoftPreferencesAreTyped
  <2>2. w \in [DaysOf(S) -> Nat]
    BY <1>2, <2>1 DEF Excess
  <2> HIDE DEF w
  <2>3. SumFunction(w) \in Nat
    BY <1>1, <2>2, SumIsNumber
  <2> QED
    BY <2>3 DEF w
<1> QED
  BY <1>3, <1>4

\* The days and courses a preference names are counted by natural numbers.
LEMMA NamedSetsAreFinite ==
  ASSUME NEW p \in SoftPreferences, NEW S \in SUBSET Sections
  PROVE  /\ Cardinality(p.freeDays \ DaysOf(S)) \in Nat
         /\ Cardinality(Normalized(p.preferred, S) \cap CoursesOf(S)) \in Nat
         /\ Cardinality(IncludedDisliked(S, p)) \in Nat
<1>1. IsFiniteSet(p.freeDays) /\ IsFiniteSet(p.preferred) /\ IsFiniteSet(p.disliked)
  BY SoftPreferencesAreTyped
<1>2. IsFiniteSet(Normalized(p.preferred, S)) /\ IsFiniteSet(Normalized(p.disliked, S))
  BY <1>1, NamesAreFinite
<1>3. Cardinality(p.freeDays \ DaysOf(S)) \in Nat
  BY <1>1, FS_Subset, FS_CardinalityType
<1>4. Cardinality(Normalized(p.preferred, S) \cap CoursesOf(S)) \in Nat
  BY <1>2, FS_Subset, FS_CardinalityType
<1>5. Cardinality(Normalized(p.disliked, S) \cap CoursesOf(S)) \in Nat
  BY <1>2, FS_Subset, FS_CardinalityType
<1> QED
  BY <1>3, <1>4, <1>5 DEF IncludedDisliked

\* Only what a preference states is scored.
LEMMA StatedIs ==
  ASSUME NEW p, NEW c \in Stated(p)
  PROVE  /\ c \in {"freeDays", "start", "end", "preferred", "disliked", "compact"}
         /\ c = "start" => p.start # None
         /\ c = "end" => p.end # None
         /\ c = "compact" => p.compact # None
  BY DEF Stated

\* A component adds a whole number, and a preference that is met does not
\* cost, but for a single gap of just the threshold.
LEMMA ComponentsAreTyped ==
  ASSUME NEW p \in SoftPreferences, NEW S \in SUBSET Sections, NEW c \in Stated(p)
  PROVE  /\ ComponentOf(c, S, p).score \in Int /\ ComponentOf(c, S, p).count \in Nat
         /\ ComponentOf(c, S, p).satisfied =>
              \/ ComponentOf(c, S, p).score >= 0
              \/ c = "compact" /\ LongGaps(S) = 1 /\ TotalGap(S) = LongGapThreshold
<1>1. CASE c = "freeDays"
  <2>1. ComponentOf(c, S, p) = FreeDayComponent(S, p)
    BY <1>1 DEF ComponentOf
  <2>2. Cardinality(p.freeDays \ DaysOf(S)) \in Nat
    BY NamedSetsAreFinite
  <2> QED
    BY <2>1, <2>2 DEF FreeDayComponent
<1>2. CASE c = "start"
  <2> DEFINE late == SumFunction([d \in DaysOf(S) |-> Excess(p.start - FirstStart(S, d))])
  <2>0. ComponentOf(c, S, p) = StartComponent(S, p)
    BY <1>2 DEF ComponentOf
  <2>1. /\ StartComponent(S, p).score = 1000 - 10 * late
        /\ StartComponent(S, p).count \in {0, 1}
        /\ StartComponent(S, p).satisfied <=> late = 0
    BY DEF StartComponent
  <2>2. late \in Nat
    BY <1>2, StatedIs, LateMinutesAreNumbers
  <2> HIDE DEF late
  <2> QED
    BY <2>0, <2>1, <2>2
<1>3. CASE c = "end"
  <2> DEFINE late == SumFunction([d \in DaysOf(S) |-> Excess(LastEnd(S, d) - p.end)])
  <2>0. ComponentOf(c, S, p) = EndComponent(S, p)
    BY <1>3 DEF ComponentOf
  <2>1. /\ EndComponent(S, p).score = 1000 - 10 * late
        /\ EndComponent(S, p).count \in {0, 1}
        /\ EndComponent(S, p).satisfied <=> late = 0
    BY DEF EndComponent
  <2>2. late \in Nat
    BY <1>3, StatedIs, LateMinutesAreNumbers
  <2> HIDE DEF late
  <2> QED
    BY <2>0, <2>1, <2>2
<1>4. CASE c = "preferred"
  <2>1. ComponentOf(c, S, p) = PreferredComponent(S, p)
    BY <1>4 DEF ComponentOf
  <2>2. Cardinality(Normalized(p.preferred, S) \cap CoursesOf(S)) \in Nat
    BY NamedSetsAreFinite
  <2> QED
    BY <2>1, <2>2 DEF PreferredComponent
<1>5. CASE c = "disliked"
  <2>1. ComponentOf(c, S, p) = DislikedComponent(S, p)
    BY <1>5 DEF ComponentOf
  <2> DEFINE n == Cardinality(IncludedDisliked(S, p))
  <2>2. n \in Nat
    BY NamedSetsAreFinite
  <2>3. /\ DislikedComponent(S, p).score = -(1500 * n) /\ DislikedComponent(S, p).count = 0
        /\ DislikedComponent(S, p).satisfied <=> n = 0
    BY DEF DislikedComponent
  <2> HIDE DEF n
  <2>4. -(1500 * n) \in Int /\ (n = 0 => -(1500 * n) = 0)
    BY <2>2
  <2> QED
    BY <2>1, <2>3, <2>4
<1>6. CASE c = "compact"
  <2>1. ComponentOf(c, S, p) = CompactComponent(S, p)
    BY <1>6 DEF ComponentOf
  <2>2. TotalGap(S) \in Nat /\ LongGaps(S) \in Nat /\ ShortGaps(S) \in Nat
    BY GapsAreNumbers
  <2>3. /\ LongGaps(S) # 0 => TotalGap(S) >= LongGapThreshold
        /\ LongGaps(S) \notin {0, 1} => TotalGap(S) >= 2 * LongGapThreshold
    BY LongGapsAddUp
  <2>4. CASE p.compact = "TRUE"
    <3>1. /\ CompactComponent(S, p).score = 800 - 5 * TotalGap(S) - 500 * LongGaps(S)
          /\ CompactComponent(S, p).count \in {0, 1}
          /\ CompactComponent(S, p).satisfied <=> TotalGap(S) <= LongGapThreshold
      BY <2>4 DEF CompactComponent
    <3> QED
      BY <1>6, <2>1, <2>2, <2>3, <3>1 DEF LongGapThreshold
  <2>5. CASE p.compact # "TRUE"
    <3>1. /\ CompactComponent(S, p).score = IF ShortGaps(S) = 0 THEN 800 ELSE -(500 * ShortGaps(S))
          /\ CompactComponent(S, p).count \in {0, 1}
          /\ CompactComponent(S, p).satisfied <=> ShortGaps(S) = 0
      BY <2>5 DEF CompactComponent
    <3> QED
      BY <2>1, <2>2, <3>1
  <2> QED
    BY <2>4, <2>5
<1> QED
  BY <1>1, <1>2, <1>3, <1>4, <1>5, <1>6, StatedIs

\* What a score is sorted by.
LEMMA RankKeysAreTyped ==
  ASSUME NEW p \in SoftPreferences, NEW S \in SUBSET Sections
  PROVE  RankKey(S, p) \in [1..5 -> Int]
<1>1. IsFiniteSet(Stated(p))
  <2>1. ASSUME NEW x, NEW y, NEW z PROVE IsFiniteSet({x, y, z})
    <3>1. IsFiniteSet({x}) /\ IsFiniteSet({y}) /\ IsFiniteSet({z})
      BY FS_Singleton
    <3>2. IsFiniteSet({x} \cup {y})
      BY <3>1, FS_Union
    <3>3. IsFiniteSet(({x} \cup {y}) \cup {z})
      BY <3>1, <3>2, FS_Union
    <3>4. ({x} \cup {y}) \cup {z} = {x, y, z}
      OBVIOUS
    <3> QED
      BY <3>3, <3>4
  <2> DEFINE A == {c \in {"freeDays", "preferred", "disliked"} : p[c] # {}}
             B == {c \in {"start", "end", "compact"} : p[c] # None}
  <2>2. IsFiniteSet(A) /\ IsFiniteSet(B)
    BY <2>1, FS_Subset
  <2>3. Stated(p) = A \cup B
    BY DEF Stated
  <2> HIDE DEF A, B
  <2> QED
    BY <2>2, <2>3, FS_Union
<1>2. ScoreOf(S, p) \in Int
  <2> DEFINE w == [c \in Stated(p) |-> ComponentOf(c, S, p).score]
  <2>1. w \in [Stated(p) -> Int]
    BY ComponentsAreTyped
  <2> HIDE DEF w
  <2>2. SumFunction(w) \in Int
    BY <1>1, <2>1, SumIsInteger
  <2> QED
    BY <2>2 DEF ScoreOf, w
<1>3. SatisfiedCount(S, p) \in Nat
  <2> DEFINE w == [c \in Stated(p) |-> ComponentOf(c, S, p).count]
  <2>1. w \in [Stated(p) -> Nat]
    BY ComponentsAreTyped
  <2> HIDE DEF w
  <2>2. SumFunction(w) \in Nat
    BY <1>1, <2>1, SumIsNumber
  <2> QED
    BY <2>2 DEF SatisfiedCount, w
<1>4. Cardinality(IncludedDisliked(S, p)) \in Nat /\ TotalGap(S) \in Nat
  BY NamedSetsAreFinite, GapsAreNumbers
<1>5. Max({0} \cup {m.end : m \in Meets(S)}) \in Nat
  <2> DEFINE M == Meets(S)
             T == {m.end : m \in M}
             f == [m \in M |-> m.end]
  <2>1. IsFiniteSet(M) /\ \A m \in M : m.end \in Nat
    BY MeetsAreNumbered
  <2>2. f \in Surjection(M, T) /\ T \in SUBSET Nat
    BY <2>1 DEF Surjection
  <2> HIDE DEF T, M, f
  <2>3. IsFiniteSet(T)
    BY <2>1, <2>2, FS_Surjection
  <2>4. PICK b \in Nat : \A k \in T : k <= b
    BY <2>2, <2>3, FiniteIsBounded
  <2>5. {0} \cup T \in SUBSET Nat /\ {0} \cup T # {} /\ \A k \in {0} \cup T : k <= b
    BY <2>2, <2>4
  <2> DEFINE V == {0} \cup T
  <2> HIDE DEF V
  <2>6. V \in SUBSET Nat /\ V # {} /\ \A k \in V : k <= b
    BY <2>5 DEF V
  <2>7. Max(V) \in Nat
    BY <2>6, MaxIsGreatest
  <2> QED
    BY <2>7 DEF V, T, M
<1> QED
  BY <1>2, <1>3, <1>4, <1>5 DEF RankKey

\* The ranking keeps the candidates.
LEMMA RankedAreKept ==
  ASSUME NEW p \in SoftPreferences, NEW list \in Seq(SUBSET Sections)
  PROVE  Ranked(list, p) \in Seq(SUBSET Sections)
<1> DEFINE I == 1..Len(list)
           key == [i \in I |-> RankKey(list[i], p)]
           K == [1..5 -> Int]
           Less == KeysBefore(5)
           keyed == {<<RankKey(list[i], p), i>> : i \in I}
           before(a, b) == KeyLess(a[1], b[1]) \/ (~KeyLess(b[1], a[1]) /\ a[2] < b[2])
           at == [k \in 1..Cardinality(keyed) |->
                    CHOOSE x \in keyed : Cardinality({y \in keyed : before(y, x)}) = k - 1]
<1>1. Len(list) \in Nat /\ I \in SUBSET Nat /\ IsFiniteSet(I)
  BY FS_Interval
<1>2. key \in [I -> K]
  <2>1. \A i \in I : RankKey(list[i], p) \in K
    BY RankKeysAreTyped
  <2> QED
    BY <2>1
<1>3. LinearlyOrders(Less, K) /\ \A x, y \in K : <<x, y>> \in Less <=> KeyLess(x, y)
  <2>1. LinearlyOrders(KeysBefore(5), K)
    BY KeysAreOrdered
  <2>2. \A x, y \in K : <<x, y>> \in KeysBefore(5) <=> KeyLess(x, y)
    BY DEF KeysBefore
  <2> QED
    BY <2>1, <2>2
<1>4. keyed = Keyed(key, I)
  BY DEF Keyed
<1>5. \A x \in keyed : x[1] \in K
  BY <1>2, <1>4 DEF Keyed
<1> HIDE DEF key, K, Less, keyed, I
<1>6. \A x, y \in keyed : <<x, y>> \in KeyedBefore(key, I, Less) <=> before(x, y)
  BY <1>3, <1>4, <1>5 DEF KeyedBefore
<1>7. /\ Cardinality(keyed) = Cardinality(I) /\ IsFiniteSet(keyed)
      /\ LinearlyOrders(KeyedBefore(key, I, Less), keyed)
  BY <1>1, <1>2, <1>3, <1>4, KeyedAreOrdered
<1>8. ASSUME NEW k \in 1..Cardinality(keyed)
      PROVE  \E x \in keyed : Cardinality({y \in keyed : before(y, x)}) = k - 1
  <2>1. TakesPositions(keyed, KeyedBefore(key, I, Less))
    <3>1. LinearlyOrders(Less, K)
      BY <1>3
    <3>2. I \in SUBSET Nat /\ IsFiniteSet(I)
      BY <1>1
    <3>3. TakesPositions(Keyed(key, I), KeyedBefore(key, I, Less))
      BY <1>2, <3>1, <3>2, KeyedPositionsAreTaken
    <3> QED
      BY <1>4, <3>3
  <2>2. PICK x \in keyed : Cardinality({y \in keyed : <<y, x>> \in KeyedBefore(key, I, Less)}) = k - 1
    BY <2>1 DEF TakesPositions, PlaceOf
  <2> HIDE DEF before
  <2>3. {y \in keyed : <<y, x>> \in KeyedBefore(key, I, Less)} = {y \in keyed : before(y, x)}
    BY <1>6
  <2> QED
    BY <2>2, <2>3
<1>9. ASSUME NEW k \in 1..Cardinality(keyed) PROVE at[k] \in keyed
  <2> HIDE DEF before
  <2> QED
    BY <1>8
<1>10. Ranked(list, p) = [k \in 1..Cardinality(I) |-> list[at[k][2]]]
  <2>1. DOMAIN list = I
    BY DEF I
  <2> QED
    BY <2>1 DEF Ranked, SortedBy, SortedPart, Ordered, at, keyed
<1> HIDE DEF at
<1>11. \A k \in 1..Cardinality(I) : list[at[k][2]] \in SUBSET Sections
  <2>1. ASSUME NEW k \in 1..Cardinality(I) PROVE list[at[k][2]] \in SUBSET Sections
    <3>1. at[k] \in Keyed(key, I)
      BY <1>4, <1>7, <1>9
    <3>2. at[k][2] \in 1..Len(list)
      BY <3>1 DEF Keyed, I
    <3> QED
      BY <3>2
  <2> QED
    BY <2>1
<1>12. Cardinality(I) \in Nat
  BY <1>1, FS_CardinalityType
<1> QED
  BY <1>10, <1>11, <1>12

Scored == ranking # None => soft \in SoftPreferences /\ ranking \in Seq(SUBSET Sections)

\* The ranking lists scored candidates.
LEMMA RankingKeepsScored ==
  ASSUME Sound, RankCandidates
  PROVE  Scored'
<1> DEFINE whole == [i \in DOMAIN results |-> req.fixed \cup results[i]]
<1>1. PICK details \in {Sections} \cup {Sections \ {s} : s \in req.offered} :
        ranking' = IF UNION ToSet(whole) \subseteq details
                     THEN FirstOf(Ranked(whole, soft'), MaxRanked) ELSE <<>>
  BY DEF RankCandidates
<1>2. soft' \in SoftPreferences
  BY DEF RankCandidates
<1>3. CASE UNION ToSet(whole) \subseteq details
  <2>1. results \in Seq(SUBSET Sections) /\ DOMAIN results = 1..Len(results) /\ Len(results) \in Nat
    BY DEF Sound
  <2>2. \A i \in 1..Len(results) : req.fixed \cup results[i] \in SUBSET Sections
    <3>1. \A i \in 1..Len(results) : whole[i] \in ToSet(whole)
      BY <2>1 DEF ToSet
    <3>2. \A i \in 1..Len(results) : whole[i] = req.fixed \cup results[i]
      BY <2>1
    <3> HIDE DEF whole
    <3> QED
      BY <1>1, <1>3, <3>1, <3>2
  <2>3. whole \in Seq(SUBSET Sections)
    BY <2>1, <2>2
  <2> HIDE DEF whole
  <2>4. Ranked(whole, soft') \in Seq(SUBSET Sections)
    BY <1>2, <2>3, RankedAreKept
  <2>5. FirstOf(Ranked(whole, soft'), MaxRanked) \in Seq(SUBSET Sections)
    BY <2>4, SoftPreferencesAreTyped DEF FirstOf
  <2> QED
    BY <1>1, <1>2, <1>3, <2>5 DEF Scored
<1>4. CASE ~(UNION ToSet(whole) \subseteq details)
  BY <1>1, <1>2, <1>4 DEF Scored
<1> QED
  BY <1>3, <1>4

\* A preference that is satisfied does not lower the score of a ranked
\* timetable (_score_* of the default policy), with the one exception the
\* property names, for any preferences and any timetables that are ranked.
THEOREM SatisfiedPreferencesCostNothing == RankSpec => []SatisfiedPreferenceDoesNotCost
<1>1. RankInit => Scored
  BY DEF RankInit, Scored
<1>2. Sound /\ Scored /\ [RankNext]_rankVars => Scored'
  <2> SUFFICES ASSUME Sound, Scored, [RankNext]_rankVars PROVE Scored'
    OBVIOUS
  <2>1. CASE RankCandidates
    BY <2>1, RankingKeepsScored
  <2>2. CASE UNCHANGED <<soft, ranking>>
    BY <2>2 DEF Scored
  <2> QED
    BY <2>1, <2>2 DEF RankNext, rankVars
<1>3. Scored => SatisfiedPreferenceDoesNotCost
  <2> SUFFICES ASSUME Scored, ranking # None, NEW S \in ToSet(ranking), NEW c \in Stated(soft),
                      ComponentOf(c, S, soft).satisfied
               PROVE  \/ ComponentOf(c, S, soft).score >= 0
                      \/ c = "compact" /\ LongGaps(S) = 1 /\ TotalGap(S) = LongGapThreshold
    BY DEF SatisfiedPreferenceDoesNotCost
  <2>1. soft \in SoftPreferences /\ ranking \in Seq(SUBSET Sections)
    BY DEF Scored
  <2>2. S \in SUBSET Sections
    <3>1. DOMAIN ranking = 1..Len(ranking)
      BY <2>1
    <3> QED
      BY <2>1, <3>1 DEF ToSet
  <2> QED
    BY <2>1, <2>2, ComponentsAreTyped
<1> QED
  BY <1>1, <1>2, <1>3, SoundInit, SoundNext, PTL DEF RankSpec

=============================================================================

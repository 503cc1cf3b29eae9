------------------------- MODULE MCCandidateSearch -------------------------
(***************************************************************************)
(* Three courses to choose from and a fixed major, on two days.  Section   *)
(* 12 overlaps 22; 11 and 21 are 20 minutes apart and three buildings      *)
(* away, and 31 fits between them with two class times that overlap; 32    *)
(* overlaps the major.                                                     *)
(***************************************************************************)
EXTENDS CandidateCorrectness, TLC

(* The n-th class time of a section.                                       *)
Class(n, d, s, e, r) == [day |-> d, start |-> s, end |-> e, room |-> r, no |-> n]
At(d, s, e, r) == Class(1, d, s, e, r)

MCSections == {11, 12, 21, 22, 31, 32, 41}
MCCourses == 1..4
MCCatalog ==
  11 :> [course |-> 1, credit |-> 3, area |-> None, meets |-> {At(1, 540, 600, 1)}] @@
  12 :> [course |-> 1, credit |-> 3, area |-> None, meets |-> {At(2, 540, 615, 1), Class(2, 1, 780, 840, 1)}] @@
  21 :> [course |-> 2, credit |-> 2, area |-> 5, meets |-> {At(1, 620, 695, 4)}] @@
  22 :> [course |-> 2, credit |-> 1, area |-> 5, meets |-> {At(2, 600, 660, NoRoom)}] @@
  31 :> [course |-> 3, credit |-> 1, area |-> 6, meets |-> {At(1, 600, 615, 3), Class(2, 1, 600, 610, 2)}] @@
  32 :> [course |-> 3, credit |-> 2, area |-> 6, meets |-> {At(2, 710, 760, 2)}] @@
  41 :> [course |-> 4, credit |-> 3, area |-> None, meets |-> {At(2, 735, 810, 2)}]
MCBarred == [s \in MCSections |-> IF s = 31 THEN {"d2"} ELSE {}]

Plain ==
  [department |-> "d1", majorCatalog |-> TRUE, majors |-> {41}, fixed |-> None,
   candidateCatalog |-> TRUE, discovered |-> <<<<11, 12>>, <<22, 21>>, <<31, 32>>>>,
   required |-> {}, excluded |-> {}, onceRequired |-> {}, onceExcluded |-> {},
   excludedAreas |-> {}, freeDays |-> {}, earliest |-> None, latest |-> None,
   min |-> None, minInclusive |-> TRUE, max |-> None, maxInclusive |-> TRUE,
   count |-> None, credits |-> None,
   maxCourses |-> 3, maxSections |-> 2, maxResults |-> 9, maxNodes |-> 40]

(* Targets, required and excluded ids, and limits, all combinations.       *)
SearchAsks ==
  {[Plain EXCEPT !.count = c, !.credits = t, !.required = r, !.excluded = x,
                 !.maxResults = m, !.maxNodes = n] :
     c \in {None, 0, 1, 2, 3}, t \in {None, 3, 5}, r \in {{}, {2}, {21}, {1, 3}},
     x \in {{}, {22}}, m \in {2, 9}, n \in {1, 4, 7, 40}}

(* One kind of condition at a time, around each of its bounds.             *)
RuleAsks ==
  LET two == [Plain EXCEPT !.credits = 2] IN
  {[two EXCEPT !.min = m, !.minInclusive = i] : m \in {6, 7}, i \in BOOLEAN}
  \cup {[two EXCEPT !.max = m, !.maxInclusive = i] : m \in {3, 6, 7}, i \in BOOLEAN}
  \cup {[two EXCEPT !.min = 6, !.max = m] : m \in {5, 6}}
  \cup {[Plain EXCEPT !.count = 0, !.min = 4]}
  \cup {[two EXCEPT !.freeDays = d] : d \in {{1}, {2}}}
  \cup {[two EXCEPT !.earliest = e, !.latest = l] : e \in {None, 541, 600}, l \in {None, 540, 695, 760}}
  \cup {[two EXCEPT !.excludedAreas = {5}], [two EXCEPT !.department = "d2"]}

(* Requests that preparation or the set-up turns down, and cut lists.      *)
PreparationAsks ==
  {[Plain EXCEPT !.count = 1, !.fixed = f] : f \in {{}, {41}, {12, 22}, {11, 32}, {99}, {41, 21}}}
  \cup {[Plain EXCEPT !.count = 2, !.maxCourses = c, !.maxSections = s, !.onceRequired = {1}] :
          c \in 1..3, s \in 1..2}
  \cup {[Plain EXCEPT !.count = c, !.majors = m] : c \in {None, 1}, m \in {{}, {4}, {4, 41}}}
  \cup {[Plain EXCEPT !.count = 1, !.discovered = <<>>], [Plain EXCEPT !.count = 1, !.department = None],
        [Plain EXCEPT !.count = 1, !.candidateCatalog = FALSE], [Plain EXCEPT !.count = 1, !.majorCatalog = FALSE],
        [Plain EXCEPT !.count = 1, !.required = {1}, !.onceExcluded = {1}],
        [Plain EXCEPT !.count = 1, !.required = {11}, !.onceExcluded = {12}],
        [Plain EXCEPT !.count = 1, !.onceRequired = {1, 2}]}

MCAsks == SearchAsks \cup RuleAsks \cup PreparationAsks

NoPreference ==
  [freeDays |-> {}, start |-> None, end |-> None, preferred |-> {}, disliked |-> {}, compact |-> None]
MCSoftPreferences ==
  {NoPreference,
   [freeDays |-> {1, 3}, start |-> 550, end |-> 700, preferred |-> {1, 22}, disliked |-> {3}, compact |-> "TRUE"]}
  \cup {[NoPreference EXCEPT !.compact = "FALSE"]}

=============================================================================

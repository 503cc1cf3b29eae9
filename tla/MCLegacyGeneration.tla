------------------------- MODULE MCLegacyGeneration -------------------------
(***************************************************************************)
(* Two required courses with two sections each, three electives and a      *)
(* fixed major on two days.  11 overlaps 21; 12 follows the major without  *)
(* a break, and 31 follows 12 with two class times that start together; 22 *)
(* is three buildings from 31; 32 meets before nine.                       *)
(***************************************************************************)
EXTENDS LegacyCorrectness, TLC

(* The n-th class time of a section.                                       *)
Class(n, d, s, e, r) == [day |-> d, start |-> s, end |-> e, room |-> r, no |-> n]
At(d, s, e, r) == Class(1, d, s, e, r)

MCSections == {11, 12, 21, 22, 31, 32, 33, 41}
MCCatalog ==
  11 :> [course |-> 1, credit |-> 2, area |-> None, professor |-> "p1", meets |-> {At(1, 660, 720, 1)}] @@
  12 :> [course |-> 1, credit |-> 2, area |-> None, professor |-> "p2", meets |-> {At(2, 660, 720, 1)}] @@
  21 :> [course |-> 2, credit |-> 3, area |-> None, professor |-> "p1", meets |-> {At(1, 690, 750, 1)}] @@
  22 :> [course |-> 2, credit |-> 1, area |-> None, professor |-> "p3", meets |-> {At(2, 900, 960, 4)}] @@
  31 :> [course |-> 3, credit |-> 2, area |-> 5, professor |-> "p3", meets |-> {At(2, 720, 780, 1), Class(2, 1, 480, 530, 1), Class(3, 2, 720, 800, 2)}] @@
  32 :> [course |-> 4, credit |-> 1, area |-> 6, professor |-> "p4", meets |-> {At(2, 510, 560, 2)}] @@
  33 :> [course |-> 5, credit |-> 2, area |-> 6, professor |-> "p4", meets |-> {At(2, 800, 860, 3)}] @@
  41 :> [course |-> 6, credit |-> 3, area |-> None, professor |-> "p5", meets |-> {At(2, 600, 660, 2)}]

Anything ==
  [excludedDays |-> {}, freeDays |-> {}, earliest |-> None, latest |-> None, excludedRanges |-> {},
   required |-> {}, excluded |-> {}, excludedProfessors |-> {}, maxChain |-> None]

Plain ==
  [fixed |-> {41}, required |-> {11, 12, 21, 22}, electives |-> {31, 32, 33}, excludedAreas |-> {},
   target |-> None, count |-> None, min |-> None, minInclusive |-> TRUE,
   max |-> None, maxInclusive |-> TRUE, hard |-> Anything, limit |-> 50]

(* Targets, credit bounds and limits.                                      *)
LoadOrders ==
  {[Plain EXCEPT !.target = t, !.count = c, !.limit = n] :
     t \in {None, 2, 3, 6, 8}, c \in {None, 1, 2}, n \in {1, 3, 50}}
  \cup {[Plain EXCEPT !.target = t, !.min = m, !.minInclusive = i, !.max = x, !.maxInclusive = j, !.count = 1] :
          t \in {None, 6}, m \in {None, 3, 6}, i \in BOOLEAN, x \in {None, 7}, j \in BOOLEAN}
  \cup {[Plain EXCEPT !.target = t, !.max = 3, !.maxInclusive = i] : t \in {None, 3}, i \in BOOLEAN}
  \cup {[Plain EXCEPT !.target = t, !.max = 9, !.maxInclusive = FALSE] : t \in {3, 6}}

(* One kind of hard condition at a time, and pools that lack something.    *)
RuleOrders ==
  LET two == [Plain EXCEPT !.count = 2]
      with(h) == [two EXCEPT !.hard = h] IN
  {with([Anything EXCEPT !.excludedDays = {1}]), with([Anything EXCEPT !.freeDays = {2}]),
   with([Anything EXCEPT !.earliest = 510]), with([Anything EXCEPT !.latest = 860]),
   with([Anything EXCEPT !.excludedRanges = {[day |-> 2, start |-> 720, end |-> 730]}]),
   with([Anything EXCEPT !.required = {3}]), with([Anything EXCEPT !.required = {22, 9}]),
   with([Anything EXCEPT !.excluded = {12, 5}]), with([Anything EXCEPT !.excludedProfessors = {"p1", "p4"}]),
   with([Anything EXCEPT !.maxChain = 1]), with([Anything EXCEPT !.maxChain = 2]),
   [Plain EXCEPT !.hard = [Anything EXCEPT !.required = {3}]],
   [two EXCEPT !.electives = {}], [two EXCEPT !.excludedAreas = {5, 6}], [two EXCEPT !.required = {}],
   [two EXCEPT !.fixed = {41, 32}], [two EXCEPT !.fixed = {11, 41}, !.required = {12, 22}],
   [Plain EXCEPT !.required = {}, !.min = 4, !.target = 8],
   [Plain EXCEPT !.required = {}, !.min = 3, !.minInclusive = FALSE],
   [Plain EXCEPT !.required = {}, !.electives = {}, !.target = 3, !.max = 7, !.maxInclusive = FALSE]}

(* A bound that is not given is inclusive, as the condition models make it. *)
MCOrders ==
  {r \in LoadOrders \cup RuleOrders : (r.min = None => r.minInclusive) /\ (r.max = None => r.maxInclusive)}

NoWish ==
  [freeDays |-> {}, firstClass |-> None, latestEnd |-> None, freeRanges |-> {},
   preferred |-> {}, avoided |-> {}, areas |-> {}, compact |-> None]
MCWishes ==
  {[freeDays |-> {1, 3}, firstClass |-> 540, latestEnd |-> 720,
    freeRanges |-> {[day |-> 1, start |-> 600, end |-> 700], [day |-> 2, start |-> 700, end |-> 740]},
    preferred |-> {3, 22}, avoided |-> {5}, areas |-> {6}, compact |-> "TRUE"],
   [NoWish EXCEPT !.firstClass = 650, !.latestEnd = 870, !.compact = "FALSE"]}

=============================================================================

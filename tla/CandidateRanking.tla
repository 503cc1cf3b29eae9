-------------------------- MODULE CandidateRanking --------------------------
(***************************************************************************)
(* Scoring and ranking of the candidates a search returned: the agent      *)
(* calls rank_timetable_candidates with the candidates and the section     *)
(* details it has.  Scores are hundredths of the code's points, so that    *)
(* every weight of the default policy is a whole number.                   *)
(***************************************************************************)
EXTENDS CandidateSearch

CONSTANTS
  SoftPreferences,  \* a set of records [freeDays, start, end, preferred, disliked, compact]
  MaxRanked         \* max_ranked_results

(* The model of soft preferences: lists of days and ids, times of a day.   *)
ASSUME SoftPreferencesAreTyped ==
  /\ MaxRanked \in Nat
  /\ \A p \in SoftPreferences :
       /\ IsFiniteSet(p.freeDays) /\ IsFiniteSet(p.preferred) /\ IsFiniteSet(p.disliked)
       /\ {p.start, p.end} \subseteq Nat \cup {None}
       /\ p.compact \in {"TRUE", "FALSE", None}

VARIABLES
  soft,             \* the preferences ranked by
  ranking           \* None, or the candidates, best first; <<>> is a failure

rankVars == <<searchVars, soft, ranking>>

DaysOf(S) == {m.day : m \in Meets(S)}
OnDay(S, d) == {m \in Meets(S) : m.day = d}
FirstStart(S, d) == Min({m.start : m \in OnDay(S, d)})
LastEnd(S, d) == Max({m.end : m \in OnDay(S, d)})
Excess(x) == IF x > 0 THEN x ELSE 0

(* The gaps of a day, one for each pair of neighbours; a set of pairs, as  *)
(* two gaps may be equally long.                                           *)
GapOf(p) == Excess(BreakOf(p))
TotalGap(S) == SumFunction([p \in Neighbours(S) |-> GapOf(p)])
LongGapThreshold == 120
LongGaps(S) == Cardinality({p \in Neighbours(S) : GapOf(p) >= LongGapThreshold})
ShortGaps(S) == Cardinality({p \in Neighbours(S) : GapOf(p) <= 30})

-----------------------------------------------------------------------------
(* The components, each with what it adds to the score and whether the     *)
(* preference counts as satisfied; a preference that is not stated has     *)
(* none.                                                                   *)

FreeDayComponent(S, p) ==
  LET matched == p.freeDays \ DaysOf(S) IN
  [score |-> 1200 * Cardinality(matched), count |-> Cardinality(matched),
   satisfied |-> matched = p.freeDays]

StartComponent(S, p) ==
  LET late == SumFunction([d \in DaysOf(S) |-> Excess(p.start - FirstStart(S, d))]) IN
  [score |-> 1000 - 10 * late, count |-> IF late = 0 THEN 1 ELSE 0, satisfied |-> late = 0]

EndComponent(S, p) ==
  LET late == SumFunction([d \in DaysOf(S) |-> Excess(LastEnd(S, d) - p.end)]) IN
  [score |-> 1000 - 10 * late, count |-> IF late = 0 THEN 1 ELSE 0, satisfied |-> late = 0]

PreferredComponent(S, p) ==
  LET wanted == Normalized(p.preferred, S)
      included == wanted \cap CoursesOf(S) IN
  [score |-> 800 * Cardinality(included), count |-> Cardinality(included),
   satisfied |-> included = wanted]

IncludedDisliked(S, p) == Normalized(p.disliked, S) \cap CoursesOf(S)

DislikedComponent(S, p) ==
  LET n == Cardinality(IncludedDisliked(S, p)) IN
  [score |-> -(1500 * n), count |-> 0, satisfied |-> n = 0]

\* Wrong variant: one long gap still counts as compact.
CompactComponentWithLongGap(S, p) ==
  LET satisfied == IF p.compact = "TRUE" THEN LongGaps(S) <= 1 ELSE ShortGaps(S) = 0 IN
  [score |-> IF p.compact = "TRUE" THEN 800 - 5 * TotalGap(S) - 500 * LongGaps(S)
             ELSE IF ShortGaps(S) = 0 THEN 800 ELSE -(500 * ShortGaps(S)),
   count |-> IF satisfied THEN 1 ELSE 0, satisfied |-> satisfied]

CompactComponent(S, p) ==
  LET satisfied == IF p.compact = "TRUE" THEN TotalGap(S) <= LongGapThreshold ELSE ShortGaps(S) = 0 IN
  [score |-> IF p.compact = "TRUE" THEN 800 - 5 * TotalGap(S) - 500 * LongGaps(S)
             ELSE IF ShortGaps(S) = 0 THEN 800 ELSE -(500 * ShortGaps(S)),
   count |-> IF satisfied THEN 1 ELSE 0, satisfied |-> satisfied]

Stated(p) ==
  {c \in {"freeDays", "preferred", "disliked"} : p[c] # {}}
    \cup {c \in {"start", "end", "compact"} : p[c] # None}

ComponentOf(c, S, p) ==
  CASE c = "freeDays" -> FreeDayComponent(S, p)
    [] c = "start" -> StartComponent(S, p)
    [] c = "end" -> EndComponent(S, p)
    [] c = "preferred" -> PreferredComponent(S, p)
    [] c = "disliked" -> DislikedComponent(S, p)
    [] c = "compact" -> CompactComponent(S, p)

ScoreOf(S, p) == SumFunction([c \in Stated(p) |-> ComponentOf(c, S, p).score])
SatisfiedCount(S, p) == SumFunction([c \in Stated(p) |-> ComponentOf(c, S, p).count])

(* The sort key.  The last tie is broken by the candidate id, a hash; the  *)
(* model breaks it by the order of generation.                             *)
RankKey(S, p) ==
  <<-ScoreOf(S, p), -SatisfiedCount(S, p), Cardinality(IncludedDisliked(S, p)),
    IF p.compact # None THEN TotalGap(S) ELSE 0,
    IF p.end # None THEN Max({0} \cup {m.end : m \in Meets(S)}) ELSE 0>>

Ranked(list, p) == SortedBy(list, LAMBDA S : RankKey(S, p), KeyLess)

-----------------------------------------------------------------------------

(* One missing section fails the whole request, and nothing is ranked.     *)
RankCandidates ==
  /\ pc = "done" /\ results # <<>> /\ ranking = None
  /\ soft' \in SoftPreferences
  /\ \E details \in {Sections} \cup {Sections \ {s} : s \in req.offered} :
       LET whole == [i \in DOMAIN results |-> req.fixed \cup results[i]] IN
       ranking' = IF UNION ToSet(whole) \subseteq details
                    THEN FirstOf(Ranked(whole, soft'), MaxRanked) ELSE <<>>
  /\ UNCHANGED searchVars

RankInit == SearchInit /\ soft = None /\ ranking = None
RankNext == (SearchNext /\ UNCHANGED <<soft, ranking>>) \/ RankCandidates
RankSpec == RankInit /\ [][RankNext]_rankVars /\ WF_searchVars(SearchNext /\ UNCHANGED <<soft, ranking>>)

=============================================================================

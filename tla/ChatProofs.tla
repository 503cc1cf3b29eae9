------------------------------ MODULE ChatProofs ------------------------------
(***************************************************************************)
(* Proofs about ChatTurn for any messages, tool calls, deletions, sessions *)
(* and limits.                                                             *)
(***************************************************************************)
EXTENDS ChatCorrectness, TLAPS

-----------------------------------------------------------------------------
(* Conditions *)

\* What HardConstraints makes of the flags when it is built.
Normal(h) ==
  /\ ~h.min_credit_inclusive => h.min_credit # None
  /\ ~h.max_credit_inclusive => h.max_credit # None

Good(c) == Shaped(c) /\ Consistent(c)

\* Models with the fields they are declared with.
IsHard(h) == h = [field \in DOMAIN EmptyHard |-> h[field]]
IsSoft(s) == s = [field \in DOMAIN EmptySoft |-> s[field]]

\* Shaped conditions have a hard and a soft part with their own fields.
LEMMA ShapedParts ==
  ASSUME NEW c
  PROVE  /\ Shaped(c) => /\ IsHard(c.hard) /\ IsSoft(c.soft)
                         /\ DOMAIN c = {"hard", "soft"}
                         /\ DOMAIN c.hard = DOMAIN EmptyHard
                         /\ DOMAIN c.soft = DOMAIN EmptySoft
                         /\ c = [hard |-> c.hard, soft |-> c.soft]
         /\ \A h, s : IsHard(h) /\ IsSoft(s) => Shaped([hard |-> h, soft |-> s])
BY DEF Shaped, IsHard, IsSoft

\* The validation leaves nothing of Consistent out but the flags.
LEMMA AcceptedIsConsistent ==
  ASSUME NEW c, Accepted(c), Normal(c.hard)
  PROVE  Consistent(c)
<1>1. \A i, j \in 1..4 : i # j => CourseLists(c)[i] \cap CourseLists(c)[j] = {}
  <2> DEFINE r == c.hard.required_course_ids
             x == c.hard.excluded_course_ids
             p == c.soft.preferred_course_ids
             d == c.soft.disliked_course_ids
  <2>1. /\ r \cap x = {} /\ p \cap d = {} /\ r \cap p = {}
        /\ r \cap d = {} /\ x \cap p = {} /\ x \cap d = {}
    BY DEF Accepted, HardAccepted, SoftAccepted, Compatible
  <2>2. /\ CourseLists(c)[1] = r /\ CourseLists(c)[2] = x
        /\ CourseLists(c)[3] = p /\ CourseLists(c)[4] = d
    BY DEF CourseLists
  <2> HIDE DEF r, x, p, d
  <2>3. 1..4 = {1, 2, 3, 4}
    OBVIOUS
  <2> QED
    BY <2>1, <2>2, <2>3
<1>2. Before(c.hard.min_credit, c.hard.max_credit)
  BY DEF Accepted, HardAccepted, Before
<1>3. /\ ~c.hard.min_credit_inclusive =>
           c.hard.min_credit # None /\ c.hard.min_credit # c.hard.max_credit
      /\ ~c.hard.max_credit_inclusive =>
           c.hard.max_credit # None /\ c.hard.min_credit # c.hard.max_credit
  BY DEF Accepted, HardAccepted, Normal
<1>4. /\ Before(c.hard.earliest_start_time, c.soft.preferred_earliest_start_time)
      /\ Before(c.soft.preferred_latest_end_time, c.hard.latest_end_time)
  BY DEF Accepted, Compatible, Before
<1>5. /\ c.hard.required_free_days \cap c.soft.preferred_free_days = {}
      /\ OpenWindow(c.hard.earliest_start_time, c.hard.latest_end_time)
      /\ OpenWindow(c.soft.preferred_earliest_start_time,
                    c.soft.preferred_latest_end_time)
  BY DEF Accepted, HardAccepted, SoftAccepted, Compatible
<1> QED
  BY <1>1, <1>2, <1>3, <1>4, <1>5 DEF Consistent

-----------------------------------------------------------------------------
(* Every way to change conditions keeps them good. *)

\* Hard conditions that were rebuilt have an exclusive bound only where they have a
\* bound.
LEMMA BuiltIsNormal ==
  ASSUME NEW h, DOMAIN h = DOMAIN EmptyHard
  PROVE  /\ Normal(BuiltHard(h))
         /\ IsHard(BuiltHard(h))
<1> DEFINE b == BuiltHard(h)
<1>1. /\ "min_credit_inclusive" \in DOMAIN h
      /\ "max_credit_inclusive" \in DOMAIN h
  BY DEF EmptyHard
<1>2. /\ DOMAIN b = DOMAIN h
      /\ b.min_credit = h.min_credit
      /\ b.max_credit = h.max_credit
  BY DEF BuiltHard
<1>3. /\ b.min_credit_inclusive = (h.min_credit = None \/ h.min_credit_inclusive)
      /\ b.max_credit_inclusive = (h.max_credit = None \/ h.max_credit_inclusive)
  BY <1>1 DEF BuiltHard
<1>6. b = [field \in DOMAIN h |-> b[field]]
  BY DEF BuiltHard
<1> HIDE DEF b
<1>4. ~b.min_credit_inclusive => b.min_credit # None
  BY <1>2, <1>3, Zenon
<1>5. ~b.max_credit_inclusive => b.max_credit # None
  BY <1>2, <1>3, Zenon
<1> QED
  BY <1>4, <1>5, <1>6 DEF Normal, IsHard, b

\* A patch leaves conditions good, or is refused.
LEMMA PatchedIsGood ==
  ASSUME NEW c, NEW hardPatch, NEW softPatch, Shaped(c),
         NEW next \in Patched(c, hardPatch, softPatch)
  PROVE  Good(next)
<1>1. PICK hard \in PatchedHard(c.hard, hardPatch), soft \in PatchedSoft(c.soft, softPatch) :
        /\ next = [hard |-> hard, soft |-> HardPriority(hard, soft)]
        /\ Accepted(next)
  BY DEF Patched
<1>2. Normal(hard) /\ IsHard(hard)
  <2>1. PICK update : hard = BuiltHard(Updated(c.hard, update))
    BY <1>1 DEF PatchedHard
  <2>2. DOMAIN Updated(c.hard, update) = DOMAIN EmptyHard
    BY ShapedParts DEF Updated
  <2> QED
    BY <2>1, <2>2, BuiltIsNormal
<1>3. IsSoft(HardPriority(hard, soft))
  <2>1. PICK update : soft = Updated(c.soft, update)
    BY <1>1 DEF PatchedSoft
  <2>2. DOMAIN soft = DOMAIN EmptySoft
    BY <2>1, ShapedParts DEF Updated
  <2> QED
    BY <2>2 DEF HardPriority, IsSoft
<1>4. Shaped(next)
  BY <1>1, <1>2, <1>3, ShapedParts
<1>5. Consistent(next)
  BY <1>1, <1>2, AcceptedIsConsistent
<1> QED
  BY <1>4, <1>5 DEF Good

\* A reset leaves conditions good.
LEMMA ResetIsGood ==
  ASSUME NEW c, NEW target, Good(c)
  PROVE  Good(Reset(c, target))
<1>1. Shaped(Reset(c, target))
  <2>1. IsHard(EmptyHard) /\ IsSoft(EmptySoft)
    BY DEF IsHard, IsSoft, EmptyHard, EmptySoft
  <2>2. IsHard(c.hard) /\ IsSoft(c.soft)
    BY ShapedParts DEF Good
  <2> QED
    BY <2>1, <2>2, ShapedParts DEF Reset
<1>2. Consistent(NoConditions)
  BY DEF NoConditions, Consistent, EmptyHard, EmptySoft, CourseLists, Before, OpenWindow
<1>3. CASE target = "soft"
  BY <1>1, <1>3 DEF Good, Consistent, Reset, CourseLists, EmptySoft, Before, OpenWindow
<1>4. CASE target = "hard"
  BY <1>1, <1>4 DEF Good, Consistent, Reset, CourseLists, EmptyHard, Before, OpenWindow
<1>5. CASE target \notin {"hard", "soft"}
  BY <1>1, <1>2, <1>5 DEF Good, Reset, NoConditions
<1> QED
  BY <1>3, <1>4, <1>5

\* A command that leaves the bounds and flags on credits alone.
KeepsCredits(c, next) ==
  /\ Shaped(next)
  /\ \A field \in {"min_credit", "max_credit",
                   "min_credit_inclusive", "max_credit_inclusive"} :
       next.hard[field] = c.hard[field]

\* A change that leaves the bounds of the credits alone keeps their flags true to them.
LEMMA KeepingIsNormal ==
  ASSUME NEW c, NEW next, Normal(c.hard), KeepsCredits(c, next)
  PROVE  Normal(next.hard)
<1> DEFINE h == c.hard
           n == next.hard
<1>1. /\ n.min_credit = h.min_credit
      /\ n.max_credit = h.max_credit
      /\ n.min_credit_inclusive = h.min_credit_inclusive
      /\ n.max_credit_inclusive = h.max_credit_inclusive
  BY DEF KeepsCredits
<1> QED
  BY <1>1, Zenon DEF Normal

\* Commands about days and courses leave the bounds of the credits alone.
LEMMA CommandsKeepCredits ==
  ASSUME NEW c, Shaped(c), NEW on, NEW values
  PROVE  /\ KeepsCredits(c, OnRequiredDays(c, on, values))
         /\ KeepsCredits(c, OnHardCourses(c, "required_course_ids",
                                          "excluded_course_ids", on, values))
         /\ KeepsCredits(c, OnHardCourses(c, "excluded_course_ids",
                                          "required_course_ids", on, values))
         /\ KeepsCredits(c, OnPreferredDays(c, on, values))
         /\ \A list, other : \A next \in OnSoftCourses(c, list, other, on, values) :
              KeepsCredits(c, next)
         /\ \A field : KeepsCredits(c, OnSoftField(c, field, values))
<1> DEFINE Credits == {"min_credit", "max_credit",
                       "min_credit_inclusive", "max_credit_inclusive"}
<1>a. Credits \subseteq DOMAIN c.hard
  BY ShapedParts DEF EmptyHard
<1>b. DOMAIN c.hard = DOMAIN EmptyHard /\ DOMAIN c.soft = DOMAIN EmptySoft
  BY ShapedParts
<1>1. KeepsCredits(c, OnRequiredDays(c, on, values))
  <2> DEFINE next == OnRequiredDays(c, on, values)
  <2>1. /\ next = [hard |-> next.hard, soft |-> next.soft]
        /\ IsHard(next.hard) /\ IsSoft(next.soft)
    BY <1>b DEF OnRequiredDays, IsHard, IsSoft
  <2>2. \A field \in Credits : next.hard[field] = c.hard[field]
    BY <1>a DEF OnRequiredDays
  <2> HIDE DEF next
  <2>3. Shaped(next)
    BY <2>1, ShapedParts
  <2> QED
    BY <2>2, <2>3 DEF KeepsCredits, next
<1>2. ASSUME NEW list \in {"required_course_ids", "excluded_course_ids"},
             NEW other \in {"required_course_ids", "excluded_course_ids"}
      PROVE  KeepsCredits(c, OnHardCourses(c, list, other, on, values))
  <2> DEFINE next == OnHardCourses(c, list, other, on, values)
  <2>1. /\ next = [hard |-> next.hard, soft |-> next.soft]
        /\ IsHard(next.hard) /\ IsSoft(next.soft)
    BY <1>b DEF OnHardCourses, IsHard, IsSoft
  <2>2. \A field \in Credits : next.hard[field] = c.hard[field]
    BY <1>a DEF OnHardCourses
  <2> HIDE DEF next
  <2>3. Shaped(next)
    BY <2>1, ShapedParts
  <2> QED
    BY <2>2, <2>3 DEF KeepsCredits, next
<1>3. ASSUME NEW next, NEW soft, next = [c EXCEPT !.soft = soft], IsSoft(soft)
      PROVE  KeepsCredits(c, next)
  <2>1. next = [hard |-> c.hard, soft |-> soft]
    BY <1>3, ShapedParts
  <2>2. Shaped(next)
    BY <1>3, <2>1, ShapedParts
  <2> QED
    BY <2>1, <2>2 DEF KeepsCredits
<1>4. KeepsCredits(c, OnPreferredDays(c, on, values))
  <2>1. \E left : OnPreferredDays(c, on, values)
                    = [c EXCEPT !.soft = [c.soft EXCEPT !.preferred_free_days = left]]
    BY <1>b, ShapedParts DEF OnPreferredDays
  <2>2. \A left : IsSoft([c.soft EXCEPT !.preferred_free_days = left])
    BY <1>b DEF IsSoft
  <2> QED
    BY <1>3, <2>1, <2>2
<1>5. ASSUME NEW list, NEW other,
             NEW next \in OnSoftCourses(c, list, other, on, values)
      PROVE  KeepsCredits(c, next)
  <2>1. \/ next = c
        \/ \E kept, left : next = [c EXCEPT !.soft[list] = kept, !.soft[other] = left]
    BY DEF OnSoftCourses
  <2>2. CASE next = c
    BY <2>2 DEF KeepsCredits
  <2>3. ASSUME NEW kept, NEW left,
               next = [c EXCEPT !.soft[list] = kept, !.soft[other] = left]
        PROVE  KeepsCredits(c, next)
    <3> DEFINE soft == [c.soft EXCEPT ![list] = kept, ![other] = left]
    <3>1. next = [c EXCEPT !.soft = soft]
      BY <2>3, ShapedParts
    <3>2. IsSoft(soft)
      BY <1>b DEF IsSoft
    <3> QED
      BY <1>3, <3>1, <3>2
  <2> QED
    BY <2>1, <2>2, <2>3
<1>6. ASSUME NEW field
      PROVE  KeepsCredits(c, OnSoftField(c, field, values))
  <2> DEFINE soft == [c.soft EXCEPT ![field] = values]
  <2>1. OnSoftField(c, field, values) = [c EXCEPT !.soft = soft]
    BY ShapedParts DEF OnSoftField
  <2>2. IsSoft(soft)
    BY <1>b DEF IsSoft
  <2> QED
    BY <1>3, <2>1, <2>2
<1> QED
  BY <1>1, <1>2, <1>4, <1>5, <1>6

\* A command leaves conditions good.
LEMMA CommandedIsGood ==
  ASSUME NEW c, Good(c), NEW call, call.field \in CommandFields,
         NEW next \in Commanded(c, call)
  PROVE  Good(next)
<1> DEFINE field == call.field
<1>1. next \in Made(c, call) /\ Accepted(next)
  BY DEF Commanded
<1>2. Normal(c.hard) /\ Shaped(c)
  BY DEF Good, Consistent, Normal
<1>3. Shaped(next) /\ Normal(next.hard)
  <2>1. CASE field \in {"earliest_start_time", "latest_end_time"}
    <3> DEFINE h == [c.hard EXCEPT ![field] = call.values]
    <3>1. next = [c EXCEPT !.hard = BuiltHard(h)]
      BY <1>1, <2>1 DEF Made, OnHardField
    <3>2. DOMAIN h = DOMAIN EmptyHard
      BY <1>2, ShapedParts
    <3> HIDE DEF h
    <3>3. Normal(BuiltHard(h)) /\ IsHard(BuiltHard(h))
      BY <3>2, BuiltIsNormal
    <3>4. next = [hard |-> BuiltHard(h), soft |-> c.soft] /\ IsSoft(c.soft)
      BY <1>2, <3>1, ShapedParts
    <3> QED
      BY <3>3, <3>4, ShapedParts
  <2>2. CASE field \notin {"earliest_start_time", "latest_end_time"}
    <3>1. KeepsCredits(c, next)
      BY <1>1, <1>2, <2>2, CommandsKeepCredits DEF Made, CommandFields, EmptySoft
    <3> QED
      BY <1>2, <3>1, KeepingIsNormal DEF KeepsCredits
  <2> QED
    BY <2>1, <2>2
<1> QED
  BY <1>1, <1>3, AcceptedIsConsistent DEF Good

-----------------------------------------------------------------------------
(* Conditions stay consistent: everything that is on its way into the      *)
(* session is good, wherever the two requests stand.                       *)

GoodSession(s) ==
  /\ DOMAIN s = {"conditions", "majors", "version"}
  /\ Good(s.conditions)

\* A call that changes the session, and where turn and deletion keep it.
Pending(call) == call \in Calls /\ call.tool \notin ReadOnly

GoodEverywhere ==
  /\ session # None => GoodSession(session)
  /\ DOMAIN turn = DOMAIN NoTurn
  /\ DOMAIN deletion = DOMAIN NoDeletion
  /\ phase \in {"command", "save", "write"} => Pending(turn.call)
  /\ phase \in {"save", "write"} => GoodSession(turn.next)
  /\ deletion.phase \in {"save", "write"} => GoodSession(deletion.next)

\* Every outcome of a call leaves the session good.
LEMMA OutcomesAreGood ==
  ASSUME NEW s, GoodSession(s), NEW call, Pending(call),
         NEW next \in Outcomes(call, s)
  PROVE  GoodSession(next)
<1>1. call.tool \in {"update_selected_major_courses", "update_timetable_preferences",
                     "reset_session_preferences", "command"}
  BY CallsAreTools DEF Pending, Toolset, ReadOnly
<1>2. ASSUME NEW c, Good(c)
      PROVE  GoodSession([s EXCEPT !.conditions = c])
  BY <1>2 DEF GoodSession
<1>3. CASE call.tool = "update_timetable_preferences"
  BY <1>2, <1>3, PatchedIsGood DEF Outcomes, GoodSession, Good
<1>4. CASE call.tool = "reset_session_preferences"
  BY <1>2, <1>4, ResetIsGood DEF Outcomes, GoodSession
<1>5. CASE call.tool = "update_selected_major_courses"
  BY <1>5 DEF Outcomes, GoodSession
<1>6. CASE call.tool = "command"
  <2>1. call.field \in CommandFields
    BY <1>6, CallsAreTools DEF Pending
  <2>2. PICK c \in Commanded(s.conditions, call) : next = [s EXCEPT !.conditions = c]
    BY <1>6 DEF Outcomes
  <2>3. Good(c)
    BY <2>1, CommandedIsGood DEF GoodSession
  <2> QED
    BY <1>2, <2>2, <2>3
<1> QED
  BY <1>1, <1>3, <1>4, <1>5, <1>6

\* Writing a good session stores a good session.
LEMMA WrittenIsGood ==
  ASSUME NEW next, GoodSession(next)
  PROVE  GoodSession(Written(next))
BY DEF GoodSession, Written

\* What the steps of the turn do to the local variables.
LEMMA TurnKeepsItsParts ==
  ASSUME DOMAIN turn = DOMAIN NoTurn, NEW success, NEW changed
  PROVE  /\ DOMAIN Executed(success, changed) = DOMAIN NoTurn
         /\ DOMAIN ToolEnds(success, changed) = DOMAIN NoTurn
BY DEF Executed, ToolEnds

\* The first sessions are good.
LEMMA GoodEverywhereInit == Init => GoodEverywhere
BY StartsAreConsistent DEF Init, GoodEverywhere, GoodSession, Good, NoDeletion

\* No step leaves a session that is not good.
LEMMA GoodEverywhereNext == GoodEverywhere /\ [Next]_vars => GoodEverywhere'
<1> SUFFICES ASSUME GoodEverywhere, [Next]_vars
             PROVE  GoodEverywhere'
  OBVIOUS
<1> USE DEF GoodEverywhere, Quiet
\* Steps that leave the session and both pending writes alone.
<1>a. ASSUME Quiet, DOMAIN turn' = DOMAIN NoTurn,
             phase' \notin {"command", "save", "write"}
      PROVE  GoodEverywhere'
  BY <1>a
<1>b. ASSUME NEW result, Answer(result)
      PROVE  phase' \notin {"command", "save", "write"} /\ turn' = turn
  BY <1>b DEF Answer
<1>c. ASSUME ToolFails PROVE GoodEverywhere'
  BY <1>c, TurnKeepsItsParts DEF ToolFails
<1>1. ASSUME NEW message \in Messages, Receive(message) PROVE GoodEverywhere'
  <2>1. DOMAIN turn' = DOMAIN NoTurn /\ phase' \in {"first", "respond"} /\ Quiet
    BY <1>1 DEF Receive, Begun, NoTurn
  <2> QED
    BY <1>a, <2>1
<1>2. ASSUME NEW agent \in Direct, ReceiveDirect(agent) PROVE GoodEverywhere'
  <2>1. DOMAIN turn' = DOMAIN NoTurn /\ phase' = "first" /\ Quiet
    BY <1>2 DEF ReceiveDirect, Begun, NoTurn
  <2> QED
    BY <1>a, <2>1
<1>3. CASE FirstSummary
  <2>1. DOMAIN [Executed(TRUE, FALSE) EXCEPT !.summary = session] = DOMAIN NoTurn
    BY TurnKeepsItsParts
  <2> QED
    BY <1>3, <1>a, <1>b, <2>1 DEF FirstSummary
<1>4. CASE ModelFails
  BY <1>4, <1>a, <1>b DEF ModelFails
<1>5. CASE ModelStops
  BY <1>5, <1>a DEF ModelStops
<1>6. CASE ModelMisuses
  <2>1. PICK result : Answer(result) /\ Quiet
    BY <1>6 DEF ModelMisuses
  <2> QED
    BY <1>a, <1>b, <2>1
<1>7. ASSUME NEW call \in Calls, SummaryTool(call) PROVE GoodEverywhere'
  <2>1. \A summary : DOMAIN [Executed(session # None, FALSE) EXCEPT !.summary = summary]
                       = DOMAIN NoTurn
    BY TurnKeepsItsParts
  <2>2. \E summary : turn' = [Executed(session # None, FALSE) EXCEPT !.summary = summary]
    BY <1>7 DEF SummaryTool
  <2> QED
    BY <1>7, <1>a, <2>1, <2>2 DEF SummaryTool, Runs
<1>8. ASSUME NEW call \in Calls, LookupTool(call) PROVE GoodEverywhere'
  BY <1>8, <1>a, <1>b, TurnKeepsItsParts DEF LookupTool, Runs
<1>9. ASSUME NEW call \in Calls, ToolReadsBefore(call) PROVE GoodEverywhere'
  <2>1. CASE session = None
    BY <1>9, <1>c, <2>1 DEF ToolReadsBefore
  <2>2. CASE session # None
    BY <1>9, <2>2 DEF ToolReadsBefore, Pending, NoTurn
  <2> QED
    BY <2>1, <2>2
<1>10. CASE ToolCommands
  <2>1. CASE ToolFails
    BY <1>c, <2>1
  <2>2. CASE ~ToolFails
    <3>1. PICK next \in Outcomes(turn.call, session) :
            turn' = [turn EXCEPT !.read = session, !.next = next]
      BY <1>10, <2>2 DEF ToolCommands
    <3>2. GoodSession(next)
      BY <1>10, <2>2, OutcomesAreGood DEF ToolCommands
    <3> QED
      BY <1>10, <2>2, <3>1, <3>2 DEF ToolCommands, NoTurn
  <2> QED
    BY <2>1, <2>2
<1>11. CASE ToolTouches
  <2>1. CASE ToolFails
    BY <1>c, <2>1
  <2>2. CASE ~ToolFails
    BY <1>11, <2>2, TurnKeepsItsParts DEF ToolTouches, ToolSucceeds
  <2> QED
    BY <2>1, <2>2
<1>12. CASE ToolChecks
  BY <1>12, <1>c DEF ToolChecks
<1>13. CASE ToolWrites
  <2>1. CASE ToolFails
    BY <1>c, <2>1
  <2>2. CASE ~ToolFails
    <3>1. GoodSession(session')
      BY <1>13, <2>2, WrittenIsGood DEF ToolWrites
    <3>2. phase' = "model" /\ UNCHANGED deletion
      BY <1>13, <2>2 DEF ToolWrites, ToolSucceeds
    <3>3. DOMAIN turn' = DOMAIN NoTurn
      BY <1>13, <2>2, TurnKeepsItsParts DEF ToolWrites, ToolSucceeds
    <3> QED
      BY <3>1, <3>2, <3>3
  <2> QED
    BY <2>1, <2>2
<1>14. CASE FinalSummary
  BY <1>14, <1>a, TurnKeepsItsParts DEF FinalSummary
<1>15. CASE Respond
  BY <1>15, <1>a DEF Respond
<1>16. ASSUME NEW of \in Deletions, DeleteReads(of) PROVE GoodEverywhere'
  BY <1>16 DEF DeleteReads, NoDeletion
<1>17. CASE DeletePatches
  <2>1. CASE DeletionEnds
    BY <1>17, <2>1 DEF DeletePatches, DeletionEnds, NoDeletion
  <2>2. CASE ~DeletionEnds
    <3>1. PICK hp, sp, c :
            /\ session # None /\ c \in Patched(session.conditions, hp, sp)
            /\ deletion' = [deletion EXCEPT !.phase = "save", !.read = session,
                              !.next = [session EXCEPT !.conditions = c]]
      BY <1>17, <2>2 DEF DeletePatches
    <3>2. Good(c)
      BY <3>1, PatchedIsGood DEF GoodSession, Good
    <3>3. GoodSession([session EXCEPT !.conditions = c])
      BY <3>1, <3>2 DEF GoodSession
    <3> QED
      BY <1>17, <3>1, <3>3 DEF DeletePatches, NoDeletion
  <2> QED
    BY <2>1, <2>2
<1>18. CASE DeleteChecks
  BY <1>18 DEF DeleteChecks, DeletionEnds, NoDeletion
<1>19. CASE DeleteWrites
  BY <1>19, WrittenIsGood DEF DeleteWrites, DeletionEnds, NoDeletion
<1>20. CASE Expire
  BY <1>20 DEF Expire
<1>21. CASE UNCHANGED vars
  BY <1>21 DEF vars
<1> QED
  BY <1>1, <1>2, <1>3, <1>4, <1>5, <1>6, <1>7, <1>8, <1>9, <1>10, <1>11, <1>12,
     <1>13, <1>14, <1>15, <1>16, <1>17, <1>18, <1>19, <1>20, <1>21
  DEF Next, Turn

\* No interleaving of a chat turn and a deletion, and no call of the model,
\* leaves a session with conditions that contradict each other
\* (SessionService, PreferenceConflictValidator).
THEOREM ConditionsConsistent == Spec => []ConditionsStayConsistent
<1>1. GoodEverywhere => ConditionsStayConsistent
  BY DEF GoodEverywhere, ConditionsStayConsistent, GoodSession, Good
<1> QED
  BY <1>1, GoodEverywhereInit, GoodEverywhereNext, PTL DEF Spec

-----------------------------------------------------------------------------
(* The limits *)

Working == {"model", "command", "save", "write", "final"}
IsOver == phase \in {"respond", "answered"}

\* A tool that is running has been counted by nobody yet, so both counters are
\* below their limits until it ends.
WithinLimits ==
  /\ DOMAIN turn = DOMAIN NoTurn
  /\ DOMAIN history = {"start", "writes", "disturbed"}
  /\ turn.tools \in Nat /\ turn.mutations \in Nat /\ history.writes \in Nat
  /\ history.writes <= turn.mutations /\ turn.mutations <= MaxMutations
  /\ phase \in {"idle", "first"} => turn.tools = 0
  /\ phase \in {"command", "save", "write"} =>
       turn.tools < MaxTools /\ turn.mutations < MaxMutations
  /\ turn.tools <= MaxTools + 1 /\ (~IsOver => turn.tools <= MaxTools)
  /\ phase \in {"idle", "first"} \cup Working \cup {"respond", "answered"}

\* No call has been made at first.
LEMMA WithinLimitsInit == Init => WithinLimits
BY LimitsAreUsable DEF Init, WithinLimits, NoTurn, IsOver

\* What ends a tool does to the counters.
LEMMA Counted ==
  ASSUME WithinLimits, NEW success, NEW changed
  PROVE  /\ DOMAIN Executed(success, changed) = DOMAIN NoTurn
         /\ Executed(success, changed).tools = turn.tools + 1
         /\ Executed(success, changed).mutations = turn.mutations
         /\ DOMAIN ToolEnds(success, changed) = DOMAIN NoTurn
         /\ ToolEnds(success, changed).tools = turn.tools + 1
         /\ ToolEnds(success, changed).mutations = turn.mutations + 1
BY DEF WithinLimits, NoTurn, Executed, ToolEnds

\* No step exceeds the limits of a turn.
LEMMA WithinLimitsNext == WithinLimits /\ [Next]_vars => WithinLimits'
<1> SUFFICES ASSUME WithinLimits, [Next]_vars
             PROVE  WithinLimits'
  OBVIOUS
<1>0. \A success, changed :
        /\ DOMAIN Executed(success, changed) = DOMAIN NoTurn
        /\ Executed(success, changed).tools = turn.tools + 1
        /\ Executed(success, changed).mutations = turn.mutations
        /\ DOMAIN ToolEnds(success, changed) = DOMAIN NoTurn
        /\ ToolEnds(success, changed).tools = turn.tools + 1
        /\ ToolEnds(success, changed).mutations = turn.mutations + 1
  BY Counted
<1> USE LimitsAreUsable DEF WithinLimits, Quiet, IsOver, Working
\* A turn that goes on, or stops without running anything.
<1>a. ASSUME UNCHANGED history, turn' = turn \/ turn'.tools = turn.tools,
             turn'.mutations = turn.mutations, DOMAIN turn' = DOMAIN NoTurn,
             phase \notin {"idle", "first"} \/ phase' = phase, phase' # "idle",
             phase' = phase \/ phase' \in {"model", "final", "respond", "answered"},
             ~IsOver \/ phase' \in {"respond", "answered"}
      PROVE  WithinLimits'
  BY <1>a
<1>b. ASSUME NEW result, Answer(result), phase \notin {"idle", "first"}
      PROVE  WithinLimits'
  BY <1>b DEF Answer
\* A tool that was not counted yet ends.
<1>d. ASSUME turn.tools < MaxTools, turn.mutations < MaxMutations,
             DOMAIN turn' = DOMAIN NoTurn, turn'.tools = turn.tools + 1,
             turn'.mutations = turn.mutations + 1, phase' = "model",
             DOMAIN history' = DOMAIN history,
             history'.writes \in {history.writes, history.writes + 1}
      PROVE  WithinLimits'
  BY <1>d
<1>c. ASSUME ToolFails, turn.tools < MaxTools, turn.mutations < MaxMutations
      PROVE  WithinLimits'
  <2>1. turn' = ToolEnds(FALSE, FALSE) /\ phase' = "model" /\ UNCHANGED history
    BY <1>c DEF ToolFails
  <2> QED
    BY <1>0, <1>c, <1>d, <2>1
\* A tool that changes nothing ends.
<1>e. ASSUME turn.tools <= MaxTools, turn.tools < MaxTools \/ phase' # "model",
             DOMAIN turn' = DOMAIN NoTurn, turn'.tools = turn.tools + 1,
             turn'.mutations = turn.mutations, UNCHANGED history,
             phase' \in {"model", "respond", "answered"}
      PROVE  WithinLimits'
  BY <1>e
\* A turn begins.
<1>f. ASSUME NEW agent, Begun(agent), phase' \in {"first", "respond"}
      PROVE  WithinLimits'
  <2>1. /\ DOMAIN turn' = DOMAIN NoTurn /\ turn'.tools = 0 /\ turn'.mutations = 0
        /\ DOMAIN history' = {"start", "writes", "disturbed"} /\ history'.writes = 0
    BY <1>f DEF Begun, NoTurn
  <2>2. MaxTools \in Nat /\ MaxMutations \in Nat
    OBVIOUS
  <2> QED
    BY <1>f, <2>1, <2>2
<1>1. ASSUME NEW message \in Messages, Receive(message) PROVE WithinLimits'
  BY <1>1, <1>f DEF Receive
<1>2. ASSUME NEW agent \in Direct, ReceiveDirect(agent) PROVE WithinLimits'
  BY <1>2, <1>f DEF ReceiveDirect
<1>3. CASE FirstSummary
  <2>1. CASE session = None
    BY <1>3, <2>1 DEF FirstSummary, Answer
  <2>2. CASE session # None
    <3>1. /\ turn' = [Executed(TRUE, FALSE) EXCEPT !.summary = session]
          /\ phase = "first" /\ phase' = "model" /\ UNCHANGED history
      BY <1>3, <2>2 DEF FirstSummary
    <3>2. /\ DOMAIN turn' = DOMAIN NoTurn
          /\ turn'.tools = turn.tools + 1 /\ turn'.mutations = turn.mutations
      BY <1>0, <3>1 DEF NoTurn
    <3>3. turn.tools < MaxTools
      BY <3>1
    <3> QED
      BY <1>e, <3>1, <3>2, <3>3
  <2> QED
    BY <2>1, <2>2
<1>4. CASE ModelFails
  BY <1>4, <1>b DEF ModelFails
<1>5. CASE ModelStops
  BY <1>5 DEF ModelStops, NoTurn
<1>6. CASE ModelMisuses
  BY <1>6, <1>b DEF ModelMisuses
<1>7. ASSUME NEW call \in Calls, SummaryTool(call) PROVE WithinLimits'
  <2>1. PICK summary : turn' = [Executed(session # None, FALSE) EXCEPT !.summary = summary]
    BY <1>7 DEF SummaryTool
  <2>2. /\ DOMAIN turn' = DOMAIN NoTurn
        /\ turn'.tools = turn.tools + 1 /\ turn'.mutations = turn.mutations
    BY <1>0, <2>1 DEF NoTurn
  <2>3. turn.tools < MaxTools /\ phase = "model" /\ UNCHANGED <<phase, history>>
    BY <1>7 DEF SummaryTool, Runs, OverLimit
  <2> QED
    BY <2>2, <2>3
<1>8. ASSUME NEW call \in Calls, LookupTool(call) PROVE WithinLimits'
  <2>1. turn.tools < MaxTools /\ phase = "model"
    BY <1>8 DEF LookupTool, Runs, OverLimit
  <2>2. CASE Answer(Interrupted("INTERNAL_ERROR"))
    BY <1>b, <2>1, <2>2
  <2>3. CASE UNCHANGED <<phase, reply, history>>
             /\ \E found \in BOOLEAN : turn' = Executed(found, FALSE)
    <3>1. PICK found \in BOOLEAN : turn' = Executed(found, FALSE)
      BY <2>3
    <3> QED
      BY <1>0, <1>e, <2>1, <2>3, <3>1
  <2> QED
    BY <1>8, <2>2, <2>3 DEF LookupTool
<1>9. ASSUME NEW call \in Calls, ToolReadsBefore(call) PROVE WithinLimits'
  <2>1. /\ turn.tools < MaxTools /\ turn.mutations < MaxMutations
        /\ phase = "model"
    BY <1>9 DEF ToolReadsBefore, Runs, OverLimit
  <2> QED
    BY <1>9, <1>c, <2>1 DEF ToolReadsBefore, NoTurn
<1>10. CASE ToolCommands
  <2>1. CASE ToolFails
    BY <1>10, <1>c, <2>1 DEF ToolCommands
  <2>2. CASE ~ToolFails
    BY <1>10, <2>2 DEF ToolCommands, NoTurn
  <2> QED
    BY <2>1, <2>2
<1>11. CASE ToolTouches
  <2>1. CASE ToolFails
    BY <1>11, <1>c, <2>1 DEF ToolTouches
  <2>2. CASE ~ToolFails
    <3>1. PICK success, changed, after :
            turn' = [ToolEnds(success, changed) EXCEPT !.summary = after]
      BY <1>11, <2>2 DEF ToolTouches, ToolSucceeds
    <3>2. phase = "save" /\ phase' = "model" /\ UNCHANGED history
      BY <1>11, <2>2 DEF ToolTouches, ToolSucceeds
    <3>3. /\ DOMAIN turn' = DOMAIN NoTurn /\ turn'.tools = turn.tools + 1
          /\ turn'.mutations = turn.mutations + 1
      BY <1>0, <3>1 DEF NoTurn
    <3> QED
      BY <1>d, <3>2, <3>3
  <2> QED
    BY <2>1, <2>2
<1>12. CASE ToolChecks
  BY <1>12, <1>c DEF ToolChecks
<1>13. CASE ToolWrites
  <2>1. CASE ToolFails
    BY <1>13, <1>c, <2>1 DEF ToolWrites
  <2>2. CASE ~ToolFails
    <3>1. PICK success, changed, after :
            turn' = [ToolEnds(success, changed) EXCEPT !.summary = after]
      BY <1>13, <2>2 DEF ToolWrites, ToolSucceeds
    <3>2. /\ phase = "write" /\ phase' = "model"
          /\ history' = [history EXCEPT !.writes = @ + 1]
      BY <1>13, <2>2 DEF ToolWrites, ToolSucceeds
    <3>3. /\ DOMAIN turn' = DOMAIN NoTurn /\ turn'.tools = turn.tools + 1
          /\ turn'.mutations = turn.mutations + 1
      BY <1>0, <3>1 DEF NoTurn
    <3> QED
      BY <1>d, <3>2, <3>3
  <2> QED
    BY <2>1, <2>2
<1>14. CASE FinalSummary
  <2>1. PICK found : turn' = Executed(found, FALSE)
    BY <1>14 DEF FinalSummary
  <2>2. /\ phase = "final" /\ phase' \in {"respond", "answered"}
        /\ UNCHANGED history
    BY <1>14 DEF FinalSummary
  <2> QED
    BY <1>0, <1>e, <2>1, <2>2
<1>15. CASE Respond
  BY <1>15 DEF Respond
<1>16. ASSUME NEW of \in Deletions, DeleteReads(of) PROVE WithinLimits'
  BY <1>16 DEF DeleteReads
<1>17. CASE DeletePatches
  BY <1>17 DEF DeletePatches
<1>18. CASE DeleteChecks
  BY <1>18 DEF DeleteChecks
<1>19. CASE DeleteWrites
  BY <1>19 DEF DeleteWrites
<1>20. CASE Expire
  BY <1>20 DEF Expire
<1>21. CASE UNCHANGED vars
  BY <1>21 DEF vars
<1> QED
  BY <1>1, <1>2, <1>3, <1>4, <1>5, <1>6, <1>7, <1>8, <1>9, <1>10, <1>11, <1>12,
     <1>13, <1>14, <1>15, <1>16, <1>17, <1>18, <1>19, <1>20, <1>21
  DEF Next, Turn

\* Whatever the model asks for, a turn writes the session no more often and runs
\* no more tools than SessionStateAgent was configured to allow.
THEOREM LimitsKept == Spec => []ToolsStayWithinLimits
<1>1. WithinLimits => ToolsStayWithinLimits
  BY LimitsAreUsable DEF WithinLimits, ToolsStayWithinLimits, IsOver
<1> QED
  BY <1>1, WithinLimitsInit, WithinLimitsNext, PTL DEF Spec

-----------------------------------------------------------------------------
(* The summary in the answer *)

\* What an answer tells of the session is what the session is.
ShownBy(r, s) ==
  /\ r.summary # None => r.summary = s
  /\ r.conditions # None => r.conditions = s.conditions
  /\ r.changed => r.summary # None

AnswerParts ==
  {"success", "changed", "partially", "summary", "error", "message", "conditions"}

\* While nobody else writes, the last summary is the session.
SummaryIsCurrent ==
  /\ DOMAIN turn = DOMAIN NoTurn
  /\ DOMAIN history = {"start", "writes", "disturbed"}
  /\ phase \in Working /\ Undisturbed => turn.summary = session
  /\ phase = "respond" \/ (phase = "answered" /\ reply # None) =>
       /\ DOMAIN reply = AnswerParts
       /\ Undisturbed => ShownBy(reply, session)

\* No summary has been answered at first.
LEMMA SummaryIsCurrentInit == Init => SummaryIsCurrent
BY DEF Init, SummaryIsCurrent, Working

\* An answer about a session shows that session.
LEMMA AnswersShow ==
  ASSUME NEW s, s # None,
         NEW success, NEW changed, NEW partially, NEW error
  PROVE  ShownBy(Result(success, changed, partially, s, error), s)
BY DEF ShownBy, Result

\* The fields of an answer.
LEMMA ResultParts ==
  ASSUME NEW success, NEW changed, NEW partially, NEW summary, NEW error
  PROVE  DOMAIN Result(success, changed, partially, summary, error) = AnswerParts
BY DEF Result, AnswerParts

\* No step answers with another session's summary.
LEMMA SummaryIsCurrentNext == SummaryIsCurrent /\ [Next]_vars => SummaryIsCurrent'
<1> SUFFICES ASSUME SummaryIsCurrent, [Next]_vars
             PROVE  SummaryIsCurrent'
  OBVIOUS
<1> USE DEF SummaryIsCurrent, Quiet
<1>0. \A success, changed :
        /\ DOMAIN Executed(success, changed) = DOMAIN NoTurn
        /\ Executed(success, changed).summary = turn.summary
        /\ DOMAIN ToolEnds(success, changed) = DOMAIN NoTurn
        /\ ToolEnds(success, changed).summary = turn.summary
  BY DEF Executed, ToolEnds, NoTurn
\* A step inside the turn that writes nothing.
<1>a. ASSUME UNCHANGED <<session, history>>, phase' \in Working, phase \in Working,
             DOMAIN turn' = DOMAIN NoTurn, turn'.summary \in {turn.summary, session}
      PROVE  SummaryIsCurrent'
  BY <1>a DEF Working, Undisturbed
<1>b. ASSUME NEW r, Answer(r), UNCHANGED session, DOMAIN r = AnswerParts,
             Undisturbed => ShownBy(r, session)
      PROVE  SummaryIsCurrent'
  <2>1. /\ phase' \in {"respond", "answered"} /\ reply' = r
        /\ UNCHANGED <<turn, history>>
    BY <1>b DEF Answer
  <2> QED
    BY <1>b, <2>1 DEF Working, Undisturbed
<1>c. ASSUME ToolFails, phase \in Working PROVE SummaryIsCurrent'
  <2>1. /\ turn' = ToolEnds(FALSE, FALSE) /\ phase' = "model"
        /\ UNCHANGED <<session, history>>
    BY <1>c DEF ToolFails
  <2> QED
    BY <1>0, <1>a, <1>c, <2>1 DEF Working
\* A step outside the turn: it writes and disturbs, or ends the session.
<1>d. ASSUME UNCHANGED <<phase, turn, reply>>, Undisturbed' => Undisturbed,
             Undisturbed' => session' = session, DOMAIN history' = DOMAIN history
      PROVE  SummaryIsCurrent'
  BY <1>d DEF ShownBy
\* An answer that shows the summary of the turn.
<1>e. ASSUME phase \in Working, UNCHANGED session, NEW success, NEW changed,
             NEW partially, NEW error,
             Answer(Result(success, changed, partially, turn.summary, error))
      PROVE  SummaryIsCurrent'
  <2> DEFINE r == Result(success, changed, partially, turn.summary, error)
  <2>1. DOMAIN r = AnswerParts
    BY ResultParts
  <2>2. ASSUME Undisturbed PROVE ShownBy(r, session)
    <3>1. turn.summary = session /\ session # None
      BY <1>e, <2>2 DEF Undisturbed
    <3> QED
      BY <3>1, AnswersShow
  <2>3. Answer(r)
    BY <1>e
  <2> HIDE DEF r
  <2> QED
    BY <1>b, <1>e, <2>1, <2>2, <2>3
<1>1. ASSUME NEW message \in Messages, Receive(message) PROVE SummaryIsCurrent'
  <2>1. /\ DOMAIN turn' = DOMAIN NoTurn
        /\ DOMAIN history' = {"start", "writes", "disturbed"}
    BY <1>1 DEF Receive, Begun, NoTurn
  <2>2. CASE phase' = "first"
    BY <2>1, <2>2 DEF Working
  <2>3. CASE phase' # "first"
    <3>1. /\ phase' = "respond"
          /\ reply' = [Result(FALSE, FALSE, FALSE, None, "NOT_MY_RESPONSIBILITY")
                         EXCEPT !.message = message]
      BY <1>1, <2>3 DEF Receive
    <3>2. DOMAIN reply' = AnswerParts /\ ShownBy(reply', session')
      BY <3>1 DEF ShownBy, Result, AnswerParts
    <3> QED
      BY <2>1, <3>1, <3>2 DEF Working
  <2> QED
    BY <2>2, <2>3
<1>2. ASSUME NEW agent \in Direct, ReceiveDirect(agent) PROVE SummaryIsCurrent'
  BY <1>2 DEF ReceiveDirect, Begun, NoTurn, Working
<1>3. CASE FirstSummary
  <2>1. CASE session = None
    <3> DEFINE r == Result(FALSE, FALSE, FALSE, None, "SESSION_NOT_AVAILABLE")
    <3>1. Answer(r) /\ UNCHANGED session
      BY <1>3, <2>1 DEF FirstSummary
    <3>2. DOMAIN r = AnswerParts /\ ~Undisturbed
      BY <2>1, ResultParts DEF Undisturbed
    <3> HIDE DEF r
    <3> QED
      BY <1>b, <3>1, <3>2
  <2>2. CASE session # None
    <3>1. /\ turn' = [Executed(TRUE, FALSE) EXCEPT !.summary = session]
          /\ phase' = "model" /\ UNCHANGED <<session, history>>
      BY <1>3, <2>2 DEF FirstSummary
    <3>2. DOMAIN turn' = DOMAIN NoTurn /\ turn'.summary = session
      BY <1>0, <3>1 DEF NoTurn
    <3> QED
      BY <3>1, <3>2
  <2> QED
    BY <2>1, <2>2
<1>4. CASE ModelFails
  BY <1>4, <1>e DEF ModelFails, Failure, Working
<1>5. CASE ModelStops
  BY <1>5, <1>a DEF ModelStops, NoTurn, Working
<1>6. CASE ModelMisuses
  <2>1. phase \in Working /\ UNCHANGED session
    BY <1>6 DEF ModelMisuses, Working
  <2>2. \/ Answer(Failure("UNKNOWN_TOOL"))
        \/ Answer(Interrupted("INVALID_TOOL_ARGUMENTS"))
        \/ Answer(LimitError)
    BY <1>6 DEF ModelMisuses
  <2> QED
    BY <1>e, <2>1, <2>2 DEF Failure, Interrupted, LimitError
<1>7. ASSUME NEW call \in Calls, SummaryTool(call) PROVE SummaryIsCurrent'
  <2> DEFINE e == Executed(session # None, FALSE)
  <2>1. DOMAIN e = DOMAIN NoTurn /\ e.summary = turn.summary
    BY <1>0
  <2>2. DOMAIN turn' = DOMAIN NoTurn /\ turn'.summary \in {turn.summary, session}
    <3>1. turn' = [e EXCEPT !.summary = IF session = None THEN @ ELSE session]
      BY <1>7 DEF SummaryTool
    <3> HIDE DEF e
    <3> QED
      BY <2>1, <3>1 DEF NoTurn
  <2> QED
    BY <1>7, <1>a, <2>2 DEF SummaryTool, Runs, Working
<1>8. ASSUME NEW call \in Calls, LookupTool(call) PROVE SummaryIsCurrent'
  <2>1. phase = "model" /\ Quiet
    BY <1>8 DEF LookupTool, Runs
  <2>2. CASE Answer(Interrupted("INTERNAL_ERROR"))
    BY <1>e, <2>1, <2>2 DEF Interrupted, Working
  <2>3. CASE ~Answer(Interrupted("INTERNAL_ERROR"))
    <3>1. PICK found : turn' = Executed(found, FALSE)
      BY <1>8, <2>3 DEF LookupTool
    <3>2. UNCHANGED <<phase, history>>
      BY <1>8, <2>3 DEF LookupTool
    <3> QED
      BY <1>0, <1>a, <2>1, <3>1, <3>2 DEF Working
  <2> QED
    BY <2>2, <2>3
<1>9. ASSUME NEW call \in Calls, ToolReadsBefore(call) PROVE SummaryIsCurrent'
  <2>1. phase = "model"
    BY <1>9 DEF ToolReadsBefore, Runs
  <2>2. CASE session = None
    BY <1>9, <1>c, <2>1, <2>2 DEF ToolReadsBefore, Working
  <2>3. CASE session # None
    BY <1>9, <1>a, <2>1, <2>3 DEF ToolReadsBefore, NoTurn, Working
  <2> QED
    BY <2>2, <2>3
<1>10. CASE ToolCommands
  <2>1. CASE ToolFails
    BY <1>10, <1>c, <2>1 DEF ToolCommands, Working
  <2>2. CASE ~ToolFails
    <3>1. PICK next : turn' = [turn EXCEPT !.read = session, !.next = next]
      BY <1>10, <2>2 DEF ToolCommands
    <3>2. phase = "command" /\ phase' = "save" /\ UNCHANGED <<session, history>>
      BY <1>10, <2>2 DEF ToolCommands
    <3> QED
      BY <1>a, <3>1, <3>2 DEF NoTurn, Working
  <2> QED
    BY <2>1, <2>2
<1>11. CASE ToolTouches
  <2>1. CASE ToolFails
    BY <1>11, <1>c, <2>1 DEF ToolTouches, Working
  <2>2. CASE ~ToolFails
    <3>1. PICK success, changed :
            turn' = [ToolEnds(success, changed) EXCEPT !.summary = session]
      BY <1>11, <2>2 DEF ToolTouches, ToolSucceeds
    <3>2. phase = "save" /\ phase' = "model" /\ UNCHANGED <<session, history>>
      BY <1>11, <2>2 DEF ToolTouches, ToolSucceeds
    <3> QED
      BY <1>0, <1>a, <3>1, <3>2 DEF NoTurn, Working
  <2> QED
    BY <2>1, <2>2
<1>12. CASE ToolChecks
  <2>1. CASE ToolFails
    BY <1>12, <1>c, <2>1 DEF ToolChecks, Working
  <2>2. CASE ~ToolFails
    BY <1>12, <1>a, <2>2 DEF ToolChecks, Working
  <2> QED
    BY <2>1, <2>2
<1>13. CASE ToolWrites
  <2>1. CASE ToolFails
    BY <1>13, <1>c, <2>1 DEF ToolWrites, Working
  <2>2. CASE ~ToolFails
    <3>1. PICK success, changed :
            turn' = [ToolEnds(success, changed) EXCEPT !.summary = session']
      BY <1>13, <2>2 DEF ToolWrites, ToolSucceeds
    <3>2. phase' = "model" /\ DOMAIN history' = DOMAIN history
      BY <1>13, <2>2 DEF ToolWrites, ToolSucceeds
    <3>3. DOMAIN turn' = DOMAIN NoTurn /\ turn'.summary = session'
      BY <1>0, <3>1 DEF NoTurn
    <3> QED
      BY <3>2, <3>3 DEF Working
  <2> QED
    BY <2>1, <2>2
<1>14. CASE FinalSummary
  <2>1. PICK found : turn' = Executed(found, FALSE)
    BY <1>14 DEF FinalSummary
  <2>2. /\ phase \in Working /\ phase' \in {"respond", "answered"}
        /\ UNCHANGED <<session, history>>
    BY <1>14 DEF FinalSummary, Working
  <2>3. DOMAIN reply' = AnswerParts
    BY <1>14, ResultParts DEF FinalSummary, Interrupted
  <2>4. ASSUME Undisturbed PROVE ShownBy(reply', session)
    <3>1. PICK success, changed, partially, error :
            reply' = Result(success, changed, partially, session, error)
      BY <1>14, <2>4 DEF FinalSummary, Undisturbed
    <3> QED
      BY <2>4, <3>1, AnswersShow DEF Undisturbed
  <2> QED
    BY <1>0, <2>1, <2>2, <2>3, <2>4 DEF Working, Undisturbed
<1>15. CASE Respond
  <2>1. CASE reply' = None
    BY <1>15, <2>1 DEF Respond, Working
  <2>2. CASE reply' # None
    <3>1. /\ phase = "respond" /\ phase' = "answered"
          /\ UNCHANGED <<session, turn, history>>
          /\ reply' = [reply EXCEPT !.conditions = session.conditions]
      BY <1>15, <2>2 DEF Respond
    <3>2. DOMAIN reply' = AnswerParts
      BY <3>1 DEF AnswerParts
    <3>3. ASSUME Undisturbed PROVE ShownBy(reply', session)
      BY <3>1, <3>3 DEF ShownBy, AnswerParts
    <3> QED
      BY <3>1, <3>2, <3>3 DEF Working, Undisturbed
  <2> QED
    BY <2>1, <2>2
<1>16. ASSUME NEW of \in Deletions, DeleteReads(of) PROVE SummaryIsCurrent'
  BY <1>16, <1>d DEF DeleteReads, Undisturbed
<1>17. CASE DeletePatches
  BY <1>17, <1>d DEF DeletePatches, Undisturbed
<1>18. CASE DeleteChecks
  BY <1>18, <1>d DEF DeleteChecks, Undisturbed
<1>19. CASE DeleteWrites
  BY <1>19, <1>d DEF DeleteWrites, Undisturbed
<1>20. CASE Expire
  BY <1>20, <1>d DEF Expire, Undisturbed
<1>21. CASE UNCHANGED vars
  BY <1>21, <1>d DEF vars, Undisturbed
<1> QED
  BY <1>1, <1>2, <1>3, <1>4, <1>5, <1>6, <1>7, <1>8, <1>9, <1>10, <1>11, <1>12,
     <1>13, <1>14, <1>15, <1>16, <1>17, <1>18, <1>19, <1>20, <1>21
  DEF Next, Turn

\* However a turn ends, its answer shows the session as the turn left it, unless
\* another request wrote the session meanwhile or it expired.
THEOREM AnswersShowSession == Spec => []AnswerShowsSession
<1>1. SummaryIsCurrent => AnswerShowsSession
  BY DEF SummaryIsCurrent, AnswerShowsSession, Over, ShownBy
<1> QED
  BY <1>1, SummaryIsCurrentInit, SummaryIsCurrentNext, PTL DEF Spec

-----------------------------------------------------------------------------
(* What the answer says was changed *)

CallTools ==
  {"update_selected_major_courses", "update_timetable_preferences",
   "reset_session_preferences", "command"}

\* A pending call names one of the tools, its field and its operation.
LEMMA PendingTools ==
  ASSUME NEW call, Pending(call)
  PROVE  /\ call.tool \in CallTools
         /\ call.tool = "command" =>
              /\ call.field \in CommandFields
              /\ call.field \in Lists => call.on \in {"add", "remove", "replace"}
BY CallsAreTools DEF Pending, Toolset, ReadOnly, CallTools

\* The fields of conditions, each in its own model.
LEMMA FieldsOfModels ==
  ASSUME NEW c, Shaped(c)
  PROVE  /\ \A field \in DOMAIN EmptyHard : FieldsOf(c)[field] = c.hard[field]
         /\ \A field \in DOMAIN EmptySoft : FieldsOf(c)[field] = c.soft[field]
<1>1. DOMAIN EmptyHard \cap DOMAIN EmptySoft = {}
  BY DEF EmptyHard, EmptySoft
<1>2. DOMAIN c.hard = DOMAIN EmptyHard /\ DOMAIN c.soft = DOMAIN EmptySoft
  BY ShapedParts
<1> QED
  BY <1>1, <1>2 DEF FieldsOf, Merged

\* What Listed lets through.
LEMMA ListedAlike ==
  ASSUME NEW s, NEW t, s.majors = t.majors, s.conditions.soft = t.conditions.soft,
         \A field \in DOMAIN EmptyHard \ Unlisted :
           s.conditions.hard[field] = t.conditions.hard[field]
  PROVE  Listed(s) = Listed(t)
<1> DEFINE listed(h) == [field \in DOMAIN EmptyHard \ Unlisted |-> h[field]]
<1>1. listed(s.conditions.hard) = listed(t.conditions.hard)
  OBVIOUS
<1> QED
  BY <1>1 DEF Listed

\* Models with the same fields are the same.
LEMMA SameModel ==
  ASSUME NEW c, NEW d, Shaped(c), Shaped(d)
  PROVE  /\ (\A field \in DOMAIN EmptyHard : c.hard[field] = d.hard[field])
              => c.hard = d.hard
         /\ (\A field \in DOMAIN EmptySoft : c.soft[field] = d.soft[field])
              => c.soft = d.soft
<1>1. ASSUME NEW f, NEW g, NEW S, f = [x \in S |-> f[x]], g = [x \in S |-> g[x]],
             \A x \in S : f[x] = g[x]
      PROVE  f = g
  BY <1>1
<1>2. IsHard(c.hard) /\ IsHard(d.hard) /\ IsSoft(c.soft) /\ IsSoft(d.soft)
  BY ShapedParts
<1>3. ASSUME \A field \in DOMAIN EmptyHard : c.hard[field] = d.hard[field]
      PROVE  c.hard = d.hard
  BY <1>1, <1>2, <1>3, Zenon DEF IsHard
<1>4. ASSUME \A field \in DOMAIN EmptySoft : c.soft[field] = d.soft[field]
      PROVE  c.soft = d.soft
  BY <1>1, <1>2, <1>4, Zenon DEF IsSoft
<1> QED
  BY <1>3, <1>4

\* A tool reports nothing of a session that stayed as it was.
LEMMA UnchangedIsUnreported ==
  ASSUME NEW s, NEW call, Pending(call)
  PROVE  ~Reported(call, s, s)
BY PendingTools DEF Reported, DiffersOn, CallTools

\* A call reports a change or none.
LEMMA ReportedIsBoolean ==
  ASSUME NEW s, NEW t, NEW call, Pending(call)
  PROVE  Reported(call, s, t) \in BOOLEAN
BY PendingTools DEF Reported, DiffersOn, CallTools

\* A list that a change leaves alone had what was entered.
LEMMA EnteredWereThere ==
  ASSUME NEW list, NEW on \in {"add", "remove", "replace"}, NEW values,
         Changed(list, on, values) = list
  PROVE  Entered(on, values) \subseteq list
BY DEF Changed, Entered

\* A command that leaves the hard constraints alone, though it is about one of
\* their fields, leaves the preferences alone: what it would take from them was
\* in the hard list already, and so not in theirs.
LEMMA HardCommandsReport ==
  ASSUME NEW c, Good(c), NEW call, call.field \in DOMAIN EmptyHard \cap CommandFields,
         call.field \in Lists => call.on \in {"add", "remove", "replace"},
         NEW next \in Made(c, call), next.hard = c.hard
  PROVE  next.soft = c.soft
<1> DEFINE h == c.hard
           p == c.soft
           e == Entered(call.on, call.values)
<1>1. IsSoft(p) /\ DOMAIN p = DOMAIN EmptySoft /\ DOMAIN h = DOMAIN EmptyHard
  BY ShapedParts DEF Good
<1>2. CASE call.field = "required_free_days"
  <2>1. next = OnRequiredDays(c, call.on, call.values)
    BY <1>2 DEF Made
  <2>2. Changed(h.required_free_days, call.on, call.values) = h.required_free_days
    BY <1>1, <2>1 DEF OnRequiredDays, EmptyHard
  <2>3. e \subseteq h.required_free_days
    BY <1>2, <2>2, EnteredWereThere DEF Lists
  <2>4. h.required_free_days \cap p.preferred_free_days = {}
    BY DEF Good, Consistent
  <2>5. p.preferred_free_days \ e = p.preferred_free_days
    BY <2>3, <2>4
  <2>6. next.soft = [p EXCEPT !.preferred_free_days = @ \ e]
    BY <2>1 DEF OnRequiredDays
  <2> HIDE DEF p, e
  <2> QED
    BY <1>1, <2>5, <2>6 DEF IsSoft, p
<1>3. ASSUME NEW list \in {"required_course_ids", "excluded_course_ids"},
             NEW other \in {"required_course_ids", "excluded_course_ids"},
             list # other, call.field = list,
             next = OnHardCourses(c, list, other, call.on, call.values)
      PROVE  next.soft = c.soft
  <2>1. Changed(h[list], call.on, call.values) = h[list]
    BY <1>1, <1>3 DEF OnHardCourses, EmptyHard
  <2>2. e \subseteq h[list]
    BY <1>3, <2>1, EnteredWereThere DEF Lists
  <2>3. /\ h[list] \cap p.preferred_course_ids = {}
        /\ h[list] \cap p.disliked_course_ids = {}
    <3>1. CourseLists(c) = <<h.required_course_ids, h.excluded_course_ids,
                             p.preferred_course_ids, p.disliked_course_ids>>
      BY DEF CourseLists
    <3>2. \A i, j \in 1..4 : i # j => CourseLists(c)[i] \cap CourseLists(c)[j] = {}
      BY DEF Good, Consistent
    <3> HIDE DEF h, p
    <3> QED
      BY <1>3, <3>1, <3>2
  <2>4. /\ p.preferred_course_ids \ e = p.preferred_course_ids
        /\ p.disliked_course_ids \ e = p.disliked_course_ids
    BY <2>2, <2>3
  <2>5. next.soft = [p EXCEPT !.preferred_course_ids = @ \ e,
                              !.disliked_course_ids  = @ \ e]
    BY <1>3 DEF OnHardCourses
  <2> HIDE DEF p, e
  <2> QED
    BY <1>1, <2>4, <2>5 DEF IsSoft, p
<1>4. CASE call.field = "required_course_ids"
  BY <1>3, <1>4 DEF Made
<1>5. CASE call.field = "excluded_course_ids"
  BY <1>3, <1>5 DEF Made
<1>6. CASE call.field \in {"earliest_start_time", "latest_end_time"}
  <2>1. next = [c EXCEPT !.hard = BuiltHard([@ EXCEPT ![call.field] = call.values])]
    BY <1>6 DEF Made, OnHardField
  <2> QED
    BY <2>1, ShapedParts DEF Good
<1> QED
  BY <1>2, <1>4, <1>5, <1>6 DEF CommandFields, EmptyHard, EmptySoft

\* A command about a preference leaves the hard constraints alone.
LEMMA SoftCommandsAreSoft ==
  ASSUME NEW c, Good(c), NEW call, call.field \in DOMAIN EmptySoft,
         NEW next \in Made(c, call)
  PROVE  next.hard = c.hard
<1>0. DOMAIN c = {"hard", "soft"}
  BY ShapedParts DEF Good
<1>1. CASE call.field = "preferred_free_days"
  BY <1>0, <1>1 DEF Made, OnPreferredDays
<1>2. ASSUME NEW list, NEW other,
             next \in OnSoftCourses(c, list, other, call.on, call.values)
      PROVE  next.hard = c.hard
  <2>1. \/ next = c
        \/ \E kept, left : next = [c EXCEPT !.soft[list] = kept, !.soft[other] = left]
    BY <1>2 DEF OnSoftCourses
  <2> QED
    BY <1>0, <2>1
<1>3. CASE call.field \in {"preferred_course_ids", "disliked_course_ids"}
  BY <1>2, <1>3 DEF Made
<1>4. CASE call.field \in {"preferred_earliest_start_time",
                           "preferred_latest_end_time", "compact_schedule"}
  BY <1>0, <1>4 DEF Made, OnSoftField
<1> QED
  BY <1>1, <1>3, <1>4 DEF EmptySoft

\* What a tool does not report shows nowhere but in the fields it does not
\* compare.
LEMMA UnreportedIsUnlisted ==
  ASSUME NEW s, GoodSession(s), NEW call, Pending(call),
         NEW next \in Outcomes(call, s), NEW after, DOMAIN after = DOMAIN next,
         after.conditions = next.conditions, after.majors = next.majors,
         ~Reported(call, s, after)
  PROVE  Listed(after) = Listed(s)
<1> DEFINE c == s.conditions
           d == after.conditions
<1>1. call.tool \in CallTools
  BY PendingTools
<1>2. Shaped(c) /\ Shaped(d) /\ Good(c)
  BY OutcomesAreGood DEF GoodSession, Good
<1>3. \/ call.tool = "update_selected_major_courses" /\ d = c
      \/ call.tool # "update_selected_major_courses" /\ after.majors = s.majors
  BY <1>1 DEF Outcomes, GoodSession, CallTools
<1>4. ASSUME after.majors = s.majors,
             \A field \in (DOMAIN EmptyHard \ Unlisted) \cup DOMAIN EmptySoft :
               FieldsOf(c)[field] = FieldsOf(d)[field]
      PROVE  Listed(after) = Listed(s)
  <2>1. \A field \in DOMAIN EmptyHard \ Unlisted : c.hard[field] = d.hard[field]
    BY <1>2, <1>4, FieldsOfModels
  <2>2. \A field \in DOMAIN EmptySoft : c.soft[field] = d.soft[field]
    BY <1>2, <1>4, FieldsOfModels
  <2>3. c.soft = d.soft
    BY <1>2, <2>2, SameModel
  <2> QED
    BY <1>2, <1>4, <2>1, <2>3, ListedAlike
<1>5. CASE call.tool = "update_timetable_preferences"
  <2>1. \A field \in ComparedByUpdate : FieldsOf(c)[field] = FieldsOf(d)[field]
    BY <1>5 DEF Reported, DiffersOn
  <2> QED
    BY <1>3, <1>4, <1>5, <2>1 DEF ComparedByUpdate, Unlisted
<1>6. CASE call.tool = "reset_session_preferences"
  <2>1. \A field \in ComparedByReset : FieldsOf(c)[field] = FieldsOf(d)[field]
    BY <1>6 DEF Reported, DiffersOn
  <2>2. "excluded_elective_areas" \notin DOMAIN EmptySoft
    BY DEF EmptySoft
  <2> QED
    BY <1>3, <1>4, <1>6, <2>1, <2>2 DEF ComparedByReset, ComparedByUpdate, Unlisted
<1>7. CASE call.tool = "update_selected_major_courses"
  <2>1. after.majors = s.majors
    BY <1>7 DEF Reported
  <2> QED
    BY <1>2, <1>3, <1>7, <2>1, ListedAlike
<1>8. CASE call.tool = "command"
  <2>1. d \in Made(c, call)
    <3>1. PICK m \in Commanded(c, call) : next = [s EXCEPT !.conditions = m]
      BY <1>8 DEF Outcomes
    <3>2. d = m
      BY <3>1 DEF GoodSession
    <3> QED
      BY <3>1, <3>2 DEF Commanded
  <2>2. /\ call.field \in CommandFields
        /\ call.field \in Lists => call.on \in {"add", "remove", "replace"}
    BY <1>8, PendingTools
  <2>3. d.hard = c.hard /\ d.soft = c.soft
    <3>1. CASE call.field \in DOMAIN EmptyHard
      <4>1. d.hard = c.hard
        BY <1>8, <3>1 DEF Reported
      <4> QED
        BY <1>2, <2>1, <2>2, <3>1, <4>1, HardCommandsReport
    <3>2. CASE call.field \notin DOMAIN EmptyHard
      <4>1. d.soft = c.soft
        BY <1>8, <3>2 DEF Reported
      <4>2. call.field \in DOMAIN EmptySoft
        BY <2>2, <3>2 DEF CommandFields, EmptyHard
      <4> QED
        BY <1>2, <2>1, <4>1, <4>2, SoftCommandsAreSoft
    <3> QED
      BY <3>1, <3>2
  <2> QED
    BY <1>2, <1>3, <1>8, <2>3, ListedAlike
<1> QED
  BY <1>1, <1>5, <1>6, <1>7, <1>8 DEF CallTools

Running == {"command", "save", "write"}

\* What a turn, or its answer, that says "changed" or not tells of the session.
Told(changed) ==
  /\ ~changed => Listed(session) = Listed(history.start)
  /\ changed => history.writes > 0

\* While nobody else writes, a tool that runs is about the session as it is, and
\* what the turn holds to have changed so far is what it changed.
ChangesSoFar ==
  /\ turn.ran = turn.changed /\ turn.changed \in BOOLEAN
  /\ phase \in {"first"} \cup Working /\ Undisturbed => Told(turn.changed)
  /\ phase \in Running /\ Undisturbed => turn.before = session
  /\ phase \in {"save", "write"} /\ Undisturbed =>
       turn.read = session /\ turn.next \in Outcomes(turn.call, session)
  /\ phase = "respond" \/ (phase = "answered" /\ reply # None) =>
       /\ reply.partially => reply.changed
       /\ Undisturbed => Told(reply.changed)

\* What the proof of ChangesSoFar knows already.
TurnFacts == GoodEverywhere /\ WithinLimits /\ SummaryIsCurrent

\* No turn has changed anything at first.
LEMMA ChangesSoFarInit == Init => ChangesSoFar
BY DEF Init, ChangesSoFar, NoTurn, Working, Running

\* What the steps of the turn do to what it holds to have changed.
LEMMA ChangesCounted ==
  ASSUME DOMAIN turn = DOMAIN NoTurn, ChangesSoFar, NEW success, NEW changed \in BOOLEAN
  PROVE  /\ DOMAIN Executed(success, FALSE) = DOMAIN NoTurn
         /\ Executed(success, FALSE).changed = turn.changed
         /\ Executed(success, FALSE).ran = turn.ran
         /\ DOMAIN ToolEnds(success, changed) = DOMAIN NoTurn
         /\ ToolEnds(success, changed).changed = (turn.changed \/ changed)
         /\ ToolEnds(success, changed).ran = (turn.changed \/ changed)
BY DEF Executed, ToolEnds, NoTurn, ChangesSoFar

\* No step loses a change of the turn.
LEMMA ChangesSoFarNext ==
  TurnFacts /\ ChangesSoFar /\ [Next]_vars => ChangesSoFar'
<1> SUFFICES ASSUME TurnFacts, ChangesSoFar, [Next]_vars
             PROVE  ChangesSoFar'
  OBVIOUS
<1> USE DEF Quiet
<1>0. /\ DOMAIN turn = DOMAIN NoTurn
      /\ DOMAIN history = {"start", "writes", "disturbed"}
      /\ history.writes \in Nat
  BY DEF TurnFacts, WithinLimits
<1>k. turn.ran = turn.changed /\ turn.changed \in BOOLEAN
  BY DEF ChangesSoFar
<1>n. \A success : \A changed \in BOOLEAN :
        /\ DOMAIN Executed(success, FALSE) = DOMAIN NoTurn
        /\ Executed(success, FALSE).changed = turn.changed
        /\ Executed(success, FALSE).ran = turn.ran
        /\ DOMAIN ToolEnds(success, changed) = DOMAIN NoTurn
        /\ ToolEnds(success, changed).changed = (turn.changed \/ changed)
        /\ ToolEnds(success, changed).ran = (turn.changed \/ changed)
  BY <1>0, ChangesCounted
\* A step inside the turn that writes nothing and ends no tool.
<1>a. ASSUME UNCHANGED <<session, history>>, phase \in {"first"} \cup Working,
             phase' \in Working \ Running,
             turn'.changed = turn.changed, turn'.ran = turn.ran
      PROVE  ChangesSoFar'
  BY <1>a, <1>k DEF ChangesSoFar, Told, Undisturbed, Working, Running
\* An answer with what the turn holds to have changed.
<1>b. ASSUME NEW r, Answer(r), UNCHANGED session, phase \in {"first"} \cup Working,
             r.changed = turn.changed, r.partially => r.changed
      PROVE  ChangesSoFar'
  <2>1. /\ phase' \in {"respond", "answered"} /\ reply' = r
        /\ UNCHANGED <<turn, history>>
    BY <1>b DEF Answer
  <2>2. Undisturbed' => Told(turn.changed)
    BY <1>b, <2>1 DEF ChangesSoFar, Undisturbed
  <2>3. Undisturbed' => Told(reply.changed)'
    BY <1>b, <2>1, <2>2 DEF Told
  <2> QED
    BY <1>b, <1>k, <2>1, <2>3 DEF ChangesSoFar, Working, Running
<1>c. ASSUME ToolFails, phase \in Working PROVE ChangesSoFar'
  <2>1. /\ turn' = ToolEnds(FALSE, FALSE) /\ phase' = "model"
        /\ UNCHANGED <<session, history>>
    BY <1>c DEF ToolFails
  <2>2. turn'.changed = turn.changed /\ turn'.ran = turn.ran
    BY <1>k, <1>n, <2>1
  <2> QED
    BY <1>a, <1>c, <2>1, <2>2 DEF Working, Running
\* A step outside the turn: it writes and disturbs, or ends the session.
<1>d. ASSUME UNCHANGED <<phase, turn, reply>>, Undisturbed' => Undisturbed,
             Undisturbed' => UNCHANGED <<session, history>>
      PROVE  ChangesSoFar'
  <2>1. ASSUME Undisturbed', NEW changed, Told(changed) PROVE Told(changed)'
    BY <1>d, <2>1 DEF Told
  <2> QED
    BY <1>d, <2>1 DEF ChangesSoFar, Told
\* A turn begins.
<1>e. ASSUME NEW agent, Begun(agent), phase' \in {"first", "respond"},
             phase' = "respond" => ~reply'.changed /\ ~reply'.partially
      PROVE  ChangesSoFar'
  <2>1. /\ turn'.changed = FALSE /\ turn'.ran = FALSE
        /\ history'.start = session' /\ history'.writes = 0
    BY <1>e DEF Begun, NoTurn
  <2> QED
    BY <1>e, <2>1 DEF ChangesSoFar, Told, Working, Running
<1>1. ASSUME NEW message \in Messages, Receive(message) PROVE ChangesSoFar'
  BY <1>1, <1>e DEF Receive, Result
<1>2. ASSUME NEW agent \in Direct, ReceiveDirect(agent) PROVE ChangesSoFar'
  BY <1>2, <1>e DEF ReceiveDirect
<1>3. CASE FirstSummary
  <2>1. CASE session = None
    <3>1. /\ phase' \in {"respond", "answered"} /\ UNCHANGED <<session, turn>>
          /\ ~reply'.partially
      BY <1>3, <2>1 DEF FirstSummary, Answer, Result
    <3> QED
      BY <1>k, <2>1, <3>1 DEF ChangesSoFar, Undisturbed, Working, Running
  <2>2. CASE session # None
    <3>1. /\ turn' = [Executed(TRUE, FALSE) EXCEPT !.summary = session]
          /\ phase = "first" /\ phase' = "model" /\ UNCHANGED <<session, history>>
      BY <1>3, <2>2 DEF FirstSummary
    <3>2. turn'.changed = turn.changed /\ turn'.ran = turn.ran
      BY <1>n, <3>1 DEF NoTurn
    <3> QED
      BY <1>a, <3>1, <3>2 DEF Working, Running
  <2> QED
    BY <2>1, <2>2
<1>4. CASE ModelFails
  <2> DEFINE r == Failure("MODEL_CALL_FAILED")
  <2>1. r.changed = turn.changed /\ (r.partially => r.changed)
    BY DEF Failure, Result
  <2> QED
    BY <1>4, <1>b, <2>1 DEF ModelFails, Working
<1>5. CASE ModelStops
  <2>1. turn'.changed = turn.changed /\ turn'.ran = turn.ran
    BY <1>5, <1>0 DEF ModelStops, NoTurn
  <2> QED
    BY <1>5, <1>a, <2>1 DEF ModelStops, Working, Running
<1>6. CASE ModelMisuses
  <2>1. phase \in Working /\ UNCHANGED session
    BY <1>6 DEF ModelMisuses, Working
  <2>2. \/ Answer(Failure("UNKNOWN_TOOL"))
        \/ Answer(Interrupted("INVALID_TOOL_ARGUMENTS"))
        \/ Answer(LimitError)
    BY <1>6 DEF ModelMisuses
  <2>3. ASSUME NEW error
        PROVE  /\ Failure(error).changed = turn.changed
               /\ Failure(error).partially => Failure(error).changed
               /\ Interrupted(error).changed = turn.changed
               /\ Interrupted(error).partially => Interrupted(error).changed
    BY DEF Failure, Interrupted, Result
  <2>4. LimitError.changed = turn.changed /\ (LimitError.partially => LimitError.changed)
    BY <1>k DEF LimitError, Result
  <2> QED
    BY <1>b, <2>1, <2>2, <2>3, <2>4
<1>7. ASSUME NEW call \in Calls, SummaryTool(call) PROVE ChangesSoFar'
  <2> DEFINE e == Executed(session # None, FALSE)
  <2>1. /\ DOMAIN e = DOMAIN NoTurn
        /\ e.changed = turn.changed /\ e.ran = turn.ran
    BY <1>n
  <2>2. turn'.changed = turn.changed /\ turn'.ran = turn.ran
    <3>1. turn' = [e EXCEPT !.summary = IF session = None THEN @ ELSE session]
      BY <1>7 DEF SummaryTool
    <3> HIDE DEF e
    <3> QED
      BY <2>1, <3>1 DEF NoTurn
  <2> QED
    BY <1>7, <1>a, <2>2 DEF SummaryTool, Runs, Working, Running
<1>8. ASSUME NEW call \in Calls, LookupTool(call) PROVE ChangesSoFar'
  <2>1. phase = "model" /\ Quiet
    BY <1>8 DEF LookupTool, Runs
  <2>2. CASE Answer(Interrupted("INTERNAL_ERROR"))
    <3> DEFINE r == Interrupted("INTERNAL_ERROR")
    <3>1. r.changed = turn.changed /\ (r.partially => r.changed)
      BY DEF Interrupted, Result
    <3> QED
      BY <1>b, <2>1, <2>2, <3>1 DEF Working
  <2>3. CASE ~Answer(Interrupted("INTERNAL_ERROR"))
    <3>1. PICK found \in BOOLEAN : turn' = Executed(found, FALSE)
      BY <1>8, <2>3 DEF LookupTool
    <3>2. UNCHANGED <<phase, history>>
      BY <1>8, <2>3 DEF LookupTool
    <3>3. turn'.changed = turn.changed /\ turn'.ran = turn.ran
      BY <1>n, <3>1
    <3> QED
      BY <1>a, <2>1, <3>2, <3>3 DEF Working, Running
  <2> QED
    BY <2>2, <2>3
<1>9. ASSUME NEW call \in Calls, ToolReadsBefore(call) PROVE ChangesSoFar'
  <2>1. phase = "model"
    BY <1>9 DEF ToolReadsBefore, Runs
  <2>2. CASE session = None
    BY <1>9, <1>c, <2>1, <2>2 DEF ToolReadsBefore, Working
  <2>3. CASE session # None
    <3>1. /\ turn' = [turn EXCEPT !.call = call, !.before = session]
          /\ phase' = "command" /\ UNCHANGED <<session, history>>
      BY <1>9, <2>3 DEF ToolReadsBefore
    <3>2. /\ turn'.changed = turn.changed /\ turn'.ran = turn.ran
          /\ turn'.before = session
      BY <1>0, <3>1 DEF NoTurn
    <3> QED
      BY <1>k, <2>1, <3>1, <3>2
      DEF ChangesSoFar, Told, Undisturbed, Working, Running
  <2> QED
    BY <2>2, <2>3
<1>10. CASE ToolCommands
  <2>1. CASE ToolFails
    BY <1>10, <1>c, <2>1 DEF ToolCommands, Working
  <2>2. CASE ~ToolFails
    <3>1. PICK next \in Outcomes(turn.call, session) :
            turn' = [turn EXCEPT !.read = session, !.next = next]
      BY <1>10, <2>2 DEF ToolCommands
    <3>2. phase = "command" /\ phase' = "save" /\ UNCHANGED <<session, history>>
      BY <1>10, <2>2 DEF ToolCommands
    <3>3. /\ turn'.changed = turn.changed /\ turn'.ran = turn.ran
          /\ turn'.before = turn.before /\ turn'.call = turn.call
          /\ turn'.read = session /\ turn'.next = next
      BY <1>0, <3>1 DEF NoTurn
    <3> QED
      BY <1>k, <3>1, <3>2, <3>3
      DEF ChangesSoFar, Told, Undisturbed, Working, Running
  <2> QED
    BY <2>1, <2>2
<1>11. CASE ToolTouches
  <2>1. CASE ToolFails
    BY <1>11, <1>c, <2>1 DEF ToolTouches, Working
  <2>2. CASE ~ToolFails
    <3> DEFINE reported == Reported(turn.call, turn.before, session)
    <3>1. turn' = [ToolEnds(TRUE, reported) EXCEPT !.summary = session]
      BY <1>11, <2>2 DEF ToolTouches, ToolSucceeds
    <3>2. phase = "save" /\ phase' = "model" /\ UNCHANGED <<session, history>>
      BY <1>11, <2>2 DEF ToolTouches, ToolSucceeds
    <3>3. Pending(turn.call)
      BY <3>2 DEF TurnFacts, GoodEverywhere
    <3>4. reported \in BOOLEAN
      BY <3>3, ReportedIsBoolean
    <3>5. Undisturbed => ~reported
      BY <3>2, <3>3, UnchangedIsUnreported DEF ChangesSoFar, Running
    <3> HIDE DEF reported
    <3>6. /\ turn'.changed = (turn.changed \/ reported)
          /\ turn'.ran = (turn.changed \/ reported)
      BY <1>n, <3>1, <3>4 DEF NoTurn
    <3>7. turn'.ran = turn'.changed /\ turn'.changed \in BOOLEAN
      BY <3>6
    <3>8. Undisturbed => turn'.changed = turn.changed
      BY <1>k, <3>4, <3>5, <3>6
    <3>9. Undisturbed' => Told(turn.changed)'
      BY <3>2, <3>8 DEF ChangesSoFar, Undisturbed, Told, Working
    <3> QED
      BY <3>2, <3>7, <3>9 DEF ChangesSoFar, Working, Running
  <2> QED
    BY <2>1, <2>2
<1>12. CASE ToolChecks
  <2>1. CASE ToolFails
    BY <1>12, <1>c, <2>1 DEF ToolChecks, Working
  <2>2. CASE ~ToolFails
    BY <1>12, <1>k, <2>2 DEF ToolChecks, ChangesSoFar, Told, Undisturbed, Working, Running
  <2> QED
    BY <2>1, <2>2
<1>13. CASE ToolWrites
  <2>1. CASE ToolFails
    BY <1>13, <1>c, <2>1 DEF ToolWrites, Working
  <2>2. CASE ~ToolFails
    <3> DEFINE reported == Reported(turn.call, turn.before, session')
    <3>1. /\ session # None /\ session' = Written(turn.next)
          /\ turn' = [ToolEnds(TRUE, reported) EXCEPT !.summary = session']
          /\ phase = "write" /\ phase' = "model"
          /\ history' = [history EXCEPT !.writes = @ + 1]
      BY <1>13, <2>2 DEF ToolWrites, ToolSucceeds
    <3>2. Pending(turn.call) /\ GoodSession(turn.next) /\ GoodSession(session)
      BY <3>1 DEF TurnFacts, GoodEverywhere
    <3>3. reported \in BOOLEAN
      BY <3>2, ReportedIsBoolean
    <3>4. ASSUME Undisturbed, ~reported
          PROVE  Listed(session') = Listed(session)
      <4>1. turn.before = session /\ turn.next \in Outcomes(turn.call, session)
        BY <3>1, <3>4 DEF ChangesSoFar, Running
      <4>2. /\ DOMAIN session' = DOMAIN turn.next
            /\ session'.conditions = turn.next.conditions
            /\ session'.majors = turn.next.majors
        BY <3>1, <3>2 DEF Written, GoodSession
      <4>3. ~Reported(turn.call, session, session')
        BY <3>4, <4>1
      <4> HIDE DEF reported
      <4> QED
        BY <3>2, <4>1, <4>2, <4>3, UnreportedIsUnlisted
    <3> HIDE DEF reported
    <3>5. /\ turn'.changed = (turn.changed \/ reported)
          /\ turn'.ran = (turn.changed \/ reported)
      BY <1>n, <3>1, <3>3 DEF NoTurn
    <3>6. turn'.ran = turn'.changed /\ turn'.changed \in BOOLEAN
      BY <3>5
    <3>7. /\ history'.start = history.start
          /\ history'.disturbed = history.disturbed
          /\ history'.writes > 0
      BY <1>0, <3>1
    <3>8. ASSUME Undisturbed' PROVE Told(turn.changed)'
      <4>1. Undisturbed
        BY <3>1, <3>7, <3>8 DEF Undisturbed
      <4>2. CASE ~turn'.changed
        <5>1. ~turn.changed /\ ~reported
          BY <1>k, <3>3, <3>5, <4>2
        <5>2. Listed(session) = Listed(history.start)
          BY <3>1, <4>1, <5>1 DEF ChangesSoFar, Told, Working
        <5> QED
          BY <3>4, <3>7, <4>1, <4>2, <5>1, <5>2 DEF Told
      <4>3. CASE turn'.changed
        BY <3>7, <4>3 DEF Told
      <4> QED
        BY <4>2, <4>3
    <3> QED
      BY <3>1, <3>6, <3>8 DEF ChangesSoFar, Working, Running
  <2> QED
    BY <2>1, <2>2
<1>14. CASE FinalSummary
  <2>1. /\ phase = "final" /\ phase' \in {"respond", "answered"}
        /\ UNCHANGED <<session, history>>
        /\ turn' = Executed(session # None, FALSE)
    BY <1>14 DEF FinalSummary
  <2>2. turn'.changed = turn.changed /\ turn'.ran = turn.ran
    BY <1>n, <2>1
  <2>3. reply'.changed = turn.changed /\ (reply'.partially => reply'.changed)
    BY <1>14 DEF FinalSummary, Interrupted, Result
  <2>4. Undisturbed' => Told(reply.changed)'
    BY <2>1, <2>3 DEF ChangesSoFar, Undisturbed, Told, Working
  <2> QED
    BY <1>k, <2>1, <2>2, <2>3, <2>4 DEF ChangesSoFar, Working, Running
<1>15. CASE Respond
  <2>1. CASE reply' = None
    BY <1>15, <1>k, <2>1 DEF Respond, ChangesSoFar, Working, Running
  <2>2. CASE reply' # None
    <3>1. /\ phase = "respond" /\ phase' = "answered"
          /\ UNCHANGED <<session, turn, history>>
          /\ reply' = [reply EXCEPT !.conditions = session.conditions]
      BY <1>15, <2>2 DEF Respond
    <3>2. DOMAIN reply = AnswerParts
      BY <3>1 DEF TurnFacts, SummaryIsCurrent
    <3>3. reply'.changed = reply.changed /\ reply'.partially = reply.partially
      BY <3>1, <3>2 DEF AnswerParts
    <3> QED
      BY <1>k, <3>1, <3>3 DEF ChangesSoFar, Told, Undisturbed, Working, Running
  <2> QED
    BY <2>1, <2>2
<1>16. ASSUME NEW of \in Deletions, DeleteReads(of) PROVE ChangesSoFar'
  BY <1>16, <1>d DEF DeleteReads, Undisturbed
<1>17. CASE DeletePatches
  BY <1>17, <1>d DEF DeletePatches, Undisturbed
<1>18. CASE DeleteChecks
  BY <1>18, <1>d DEF DeleteChecks, Undisturbed
<1>19. CASE DeleteWrites
  <2>1. ~Undisturbed'
    BY <1>0, <1>19 DEF DeleteWrites, Undisturbed
  <2> QED
    BY <1>19, <1>d, <2>1 DEF DeleteWrites
<1>20. CASE Expire
  BY <1>20, <1>d DEF Expire, Undisturbed
<1>21. CASE UNCHANGED vars
  BY <1>21, <1>d DEF vars, Undisturbed
<1> QED
  BY <1>1, <1>2, <1>3, <1>4, <1>5, <1>6, <1>7, <1>8, <1>9, <1>10, <1>11, <1>12,
     <1>13, <1>14, <1>15, <1>16, <1>17, <1>18, <1>19, <1>20, <1>21
  DEF Next, Turn

\* However a turn ends (SessionStateAgent.run: at a limit, in an error, after a
\* tool that failed), an answer that says "unchanged" leaves the session as the
\* turn found it, but for the fields the tools do not compare, and one that says
\* "changed" comes of a turn that wrote it.
THEOREM AnswersReportChanges == Spec => []AnswerReportsChanges
<1>1. TurnFacts /\ ChangesSoFar => AnswerReportsChanges
  BY DEF ChangesSoFar, AnswerReportsChanges, Over, Told
<1>2. Init => TurnFacts /\ ChangesSoFar
  BY GoodEverywhereInit, WithinLimitsInit, SummaryIsCurrentInit, ChangesSoFarInit
  DEF TurnFacts
<1>3. TurnFacts /\ ChangesSoFar /\ [Next]_vars => (TurnFacts /\ ChangesSoFar)'
  BY GoodEverywhereNext, WithinLimitsNext, SummaryIsCurrentNext, ChangesSoFarNext
  DEF TurnFacts
<1> QED
  BY <1>1, <1>2, <1>3, PTL DEF Spec

-----------------------------------------------------------------------------
(* Deleting one condition *)

\* Merged patches have the fields of both.
LEMMA MergedDomain ==
  ASSUME NEW f, NEW g
  PROVE  DOMAIN Merged(f, g) = DOMAIN f \cup DOMAIN g
BY DEF Merged

\* The first of two merged patches wins.
LEMMA MergedFirst ==
  ASSUME NEW f, NEW g, NEW x \in DOMAIN f
  PROVE  Merged(f, g)[x] = f[x]
BY DEF Merged

\* A field of the second patch alone keeps its value.
LEMMA MergedSecond ==
  ASSUME NEW f, NEW g, NEW x \in DOMAIN g, x \notin DOMAIN f
  PROVE  Merged(f, g)[x] = g[x]
BY DEF Merged

\* An updated model has the fields of the update and keeps the others.
LEMMA UpdatedModel ==
  ASSUME NEW m, NEW update, NEW n,
         \/ IsHard(m) /\ IsHard(n) /\ \A field \in DOMAIN EmptyHard :
              n[field] = IF field \in DOMAIN update THEN update[field] ELSE m[field]
         \/ IsSoft(m) /\ IsSoft(n) /\ \A field \in DOMAIN EmptySoft :
              n[field] = IF field \in DOMAIN update THEN update[field] ELSE m[field]
  PROVE  Updated(m, update) = n
<1>1. ASSUME NEW S, m = [field \in S |-> m[field]], n = [field \in S |-> n[field]],
             \A field \in S :
               n[field] = IF field \in DOMAIN update THEN update[field] ELSE m[field]
      PROVE  Updated(m, update) = n
  <2>1. DOMAIN m = S
    BY <1>1
  <2>2. Updated(m, update) = [field \in S |-> n[field]]
    BY <1>1, <2>1 DEF Updated
  <2> QED
    BY <1>1, <2>2
<1> QED
  BY <1>1 DEF IsHard, IsSoft

\* A patch that sets or clears one field, and one about no field.
AboutOne(patch, key, value, cleared) ==
  \/ DOMAIN patch.set = {key} /\ patch.set[key] = value /\ patch.clear = {}
  \/ DOMAIN patch.set = {} /\ patch.clear = {key} /\ value = cleared[key]
AboutNone(patch) == DOMAIN patch.set = {} /\ patch.clear = {}

\* A patch about one field supplies that field.
LEMMA SuppliedOne ==
  ASSUME NEW patch, NEW cleared, NEW key, NEW value,
         AboutOne(patch, key, value, cleared)
  PROVE  /\ DOMAIN Supplied(patch, cleared) = {key}
         /\ Supplied(patch, cleared)[key] = value
BY DEF AboutOne, Supplied, Merged

\* A patch about no field supplies nothing.
LEMMA SuppliedNone ==
  ASSUME NEW patch, NEW cleared, AboutNone(patch)
  PROVE  DOMAIN Supplied(patch, cleared) = {}
BY DEF AboutNone, Supplied, Merged

\* Nothing is left to swap: a course is in one of the two hard lists only.
LEMMA DeletionSwapsNothing ==
  ASSUME NEW h, h.required_course_ids \cap h.excluded_course_ids = {}, NEW given,
         "required_course_ids" \in DOMAIN given =>
           given.required_course_ids \subseteq h.required_course_ids,
         "excluded_course_ids" \in DOMAIN given =>
           given.excluded_course_ids \subseteq h.excluded_course_ids
  PROVE  \A field \in DOMAIN CourseSwap(h, given) :
           CourseSwap(h, given)[field] = h[field]
<1> DEFINE r == h.required_course_ids
           x == h.excluded_course_ids
<1>1. DOMAIN <<>> = {}
  OBVIOUS
<1>2. CASE /\ "required_course_ids" \in DOMAIN given
           /\ "excluded_course_ids" \notin DOMAIN given
  <2>1. CourseSwap(h, given) = One("excluded_course_ids", x \ given.required_course_ids)
    BY <1>2 DEF CourseSwap
  <2>2. x \ given.required_course_ids = x
    BY <1>2
  <2> QED
    BY <2>1, <2>2 DEF One
<1>3. CASE /\ "excluded_course_ids" \in DOMAIN given
           /\ "required_course_ids" \notin DOMAIN given
  <2>1. CourseSwap(h, given) = One("required_course_ids", r \ given.excluded_course_ids)
    BY <1>3 DEF CourseSwap
  <2>2. r \ given.excluded_course_ids = r
    BY <1>3
  <2> QED
    BY <2>1, <2>2 DEF One
<1>4. CASE ("required_course_ids" \in DOMAIN given) = ("excluded_course_ids" \in DOMAIN given)
  <2>1. CourseSwap(h, given) = <<>>
    BY <1>4 DEF CourseSwap
  <2> QED
    BY <1>1, <2>1
<1> QED
  BY <1>2, <1>3, <1>4

\* What is supplied when a patch has neither bounds with a value nor flags.
LEMMA HardUpdateFields ==
  ASSUME NEW h, NEW patch,
         DOMAIN patch = {"set", "clear"},
         DOMAIN patch.set \cap (Flags \cup {"min_credit", "max_credit"}) = {},
         NEW value, NEW key, key \in DOMAIN EmptyHard \ Flags,
         h.required_course_ids \cap h.excluded_course_ids = {},
         \/ AboutNone(patch)
         \/ /\ AboutOne(patch, key, value, EmptyHard)
            /\ key \in {"required_course_ids", "excluded_course_ids"} =>
                 value \subseteq h[key]
  PROVE  /\ \A field \in DOMAIN HardUpdate(h, patch) \ {key} :
              HardUpdate(h, patch)[field] = h[field]
         /\ AboutNone(patch) /\ key \in DOMAIN HardUpdate(h, patch) =>
              HardUpdate(h, patch)[key] = h[key]
         /\ ~AboutNone(patch) =>
              key \in DOMAIN HardUpdate(h, patch) /\ HardUpdate(h, patch)[key] = value
<1> DEFINE plain == [patch EXCEPT
                       !.set = [field \in DOMAIN @ \ Flags |-> @[field]]]
           flags == Merged(BoundFlag(h, patch, "min_credit", "min_credit_inclusive"),
                           BoundFlag(h, patch, "max_credit", "max_credit_inclusive"))
           supplied == Supplied(plain, EmptyHard)
           given == Merged(flags, supplied)
           swap == CourseSwap(h, given)
<1>1. HardUpdate(h, patch) = Merged(given, swap)
  BY DEF HardUpdate
<1>2. DOMAIN flags = {}
  <2>1. /\ BoundFlag(h, patch, "min_credit", "min_credit_inclusive") = <<>>
        /\ BoundFlag(h, patch, "max_credit", "max_credit_inclusive") = <<>>
    BY DEF BoundFlag, Flags
  <2>2. DOMAIN <<>> = {}
    OBVIOUS
  <2>3. DOMAIN Merged(<<>>, <<>>) = {}
    BY <2>2, MergedDomain
  <2> QED
    BY <2>1, <2>3
<1>3. /\ AboutNone(patch) => AboutNone(plain)
      /\ AboutOne(patch, key, value, EmptyHard) => AboutOne(plain, key, value, EmptyHard)
  <2>1. /\ DOMAIN plain.set = DOMAIN patch.set
        /\ \A field \in DOMAIN patch.set : plain.set[field] = patch.set[field]
        /\ plain.clear = patch.clear
    OBVIOUS
  <2> HIDE DEF plain
  <2> QED
    BY <2>1 DEF AboutNone, AboutOne
<1> HIDE DEF plain
<1>a. AboutNone(patch) => DOMAIN supplied = {}
  BY <1>3, SuppliedNone
<1>b. AboutOne(patch, key, value, EmptyHard) => DOMAIN supplied = {key}
  BY <1>3, SuppliedOne
<1>4. AboutOne(patch, key, value, EmptyHard) => supplied[key] = value
  BY <1>3, SuppliedOne
<1> HIDE DEF flags, supplied
<1>c. DOMAIN given = DOMAIN flags \cup DOMAIN supplied
  BY MergedDomain
<1>8. \A field \in DOMAIN supplied \ DOMAIN flags : given[field] = supplied[field]
  BY MergedSecond
<1>5. /\ AboutNone(patch) => DOMAIN given = {}
      /\ AboutOne(patch, key, value, EmptyHard) =>
           DOMAIN given = {key} /\ given[key] = value
  BY <1>2, <1>4, <1>a, <1>b, <1>8, <1>c
<1> HIDE DEF given
<1>6. \A field \in DOMAIN swap : swap[field] = h[field]
  BY <1>5, DeletionSwapsNothing
<1> HIDE DEF swap
<1>7. ~AboutNone(patch) => DOMAIN given = {key} /\ given[key] = value
  BY <1>5
<1>9. DOMAIN HardUpdate(h, patch) = DOMAIN given \cup DOMAIN swap
  BY <1>1, MergedDomain
<1>10. \A field \in DOMAIN given : HardUpdate(h, patch)[field] = given[field]
  BY <1>1, MergedFirst
<1>11. \A field \in DOMAIN swap \ DOMAIN given : HardUpdate(h, patch)[field] = swap[field]
  BY <1>1, MergedSecond
<1> QED
  BY <1>5, <1>6, <1>7, <1>9, <1>10, <1>11

\* The priority of hard conditions takes nothing from soft ones that do not meet them.
LEMMA PriorityTakesNothing ==
  ASSUME NEW h, NEW s, IsSoft(s),
         h.required_free_days \cap s.preferred_free_days = {},
         (h.required_course_ids \cup h.excluded_course_ids)
           \cap (s.preferred_course_ids \cup s.disliked_course_ids) = {}
  PROVE  HardPriority(h, s) = s
<1> DEFINE decided == h.required_course_ids \cup h.excluded_course_ids
<1>1. /\ s.preferred_free_days \ h.required_free_days = s.preferred_free_days
      /\ s.preferred_course_ids \ decided = s.preferred_course_ids
      /\ s.disliked_course_ids \ decided = s.disliked_course_ids
  OBVIOUS
<1>2. HardPriority(h, s) = [s EXCEPT !.preferred_free_days  = s.preferred_free_days,
                                     !.preferred_course_ids = s.preferred_course_ids,
                                     !.disliked_course_ids  = s.disliked_course_ids]
  BY <1>1 DEF HardPriority
<1> QED
  BY <1>2 DEF IsSoft

\* The lists of good conditions are disjoint.
LEMMA GoodLists ==
  ASSUME NEW c, Good(c)
  PROVE  /\ c.hard.required_course_ids \cap c.hard.excluded_course_ids = {}
         /\ c.hard.required_free_days \cap c.soft.preferred_free_days = {}
         /\ (c.hard.required_course_ids \cup c.hard.excluded_course_ids)
              \cap (c.soft.preferred_course_ids \cup c.soft.disliked_course_ids) = {}
<1> DEFINE r == c.hard.required_course_ids
           x == c.hard.excluded_course_ids
           p == c.soft.preferred_course_ids
           d == c.soft.disliked_course_ids
<1>1. CourseLists(c) = <<r, x, p, d>>
  BY DEF CourseLists
<1>2. /\ \A i, j \in 1..4 : i # j => CourseLists(c)[i] \cap CourseLists(c)[j] = {}
      /\ c.hard.required_free_days \cap c.soft.preferred_free_days = {}
  BY DEF Good, Consistent
<1> HIDE DEF r, x, p, d
<1>3. r \cap x = {} /\ r \cap p = {} /\ r \cap d = {} /\ x \cap p = {} /\ x \cap d = {}
  BY <1>1, <1>2
<1> QED
  BY <1>2, <1>3 DEF r, x, p, d

\* The deleting patch takes away what it is to take away, and nothing else.
LEMMA DeletionIsExact ==
  ASSUME NEW c, Good(c), NEW of \in Deletions, NEW hardPatch, NEW softPatch,
         hardPatch = IF of.scope = "hard" THEN DeletePatch(of, c) ELSE NoPatch,
         softPatch = IF of.scope = "soft" THEN DeletePatch(of, c) ELSE NoPatch,
         NEW next \in Patched(c, hardPatch, softPatch)
  PROVE  next = Without(c, of)
<1> DEFINE h == c.hard
           s == c.soft
           key == of.key
           left == Left(c, of)
<1>1. /\ IsHard(h) /\ IsSoft(s) /\ c = [hard |-> h, soft |-> s]
      /\ DOMAIN h = DOMAIN EmptyHard /\ DOMAIN s = DOMAIN EmptySoft
  BY ShapedParts DEF Good
<1>2. PICK hard \in PatchedHard(h, hardPatch), soft \in PatchedSoft(s, softPatch) :
        next = [hard |-> hard, soft |-> HardPriority(hard, soft)]
  BY DEF Patched
<1>3. /\ hard = BuiltHard(Updated(h, HardUpdate(h, hardPatch)))
      /\ soft = Updated(s, Supplied(softPatch, EmptySoft))
  BY <1>2 DEF PatchedHard, PatchedSoft
<1>4. /\ of.scope \in {"hard", "soft"}
      /\ of.scope = "hard" => key \in DOMAIN EmptyHard \ Flags
      /\ of.scope = "soft" => key \in DOMAIN EmptySoft \ Flags
  BY DeletionsAreFields DEF NoConditions
<1>5. /\ DOMAIN DeletePatch(of, c) = {"set", "clear"}
      /\ AboutOne(DeletePatch(of, c), key, left, NoConditions[of.scope])
      /\ ~AboutNone(DeletePatch(of, c))
      /\ DOMAIN DeletePatch(of, c).set \subseteq {key} \cap Lists
  <2>1. CASE of.value = None \/ key \notin Lists
    <3>1. DeletePatch(of, c) = [set |-> <<>>, clear |-> {key}]
      BY <2>1 DEF DeletePatch
    <3>2. DOMAIN <<>> = {}
      OBVIOUS
    <3> QED
      BY <2>1, <3>1, <3>2 DEF AboutOne, AboutNone, Left
  <2>2. CASE ~(of.value = None \/ key \notin Lists)
    <3>1. DeletePatch(of, c)
            = [set |-> One(key, c[of.scope][key] \ {of.value}), clear |-> {}]
      BY <2>2 DEF DeletePatch
    <3> QED
      BY <2>2, <3>1 DEF AboutOne, AboutNone, One, Left
  <2> QED
    BY <2>1, <2>2
<1>6. /\ DOMAIN NoPatch = {"set", "clear"} /\ AboutNone(NoPatch) /\ DOMAIN NoPatch.set = {}
  BY DEF NoPatch, AboutNone
<1>7. of.scope \in {"hard", "soft"} => (key \in Lists => left \subseteq c[of.scope][key])
  <2>1. key \in Lists => NoConditions[of.scope][key] = {}
    BY <1>4 DEF Lists, NoConditions, EmptyHard, EmptySoft
  <2> QED
    BY <2>1 DEF Left
<1>8. CASE of.scope = "hard"
  <2> DEFINE g == [h EXCEPT ![key] = left]
             update == HardUpdate(h, hardPatch)
  <2>1. hardPatch = DeletePatch(of, c) /\ softPatch = NoPatch
    BY <1>8
  <2>2. /\ key \in DOMAIN EmptyHard \ Flags
        /\ AboutOne(hardPatch, key, left, EmptyHard)
        /\ key \in Lists => left \subseteq h[key]
        /\ DOMAIN hardPatch.set \cap (Flags \cup {"min_credit", "max_credit"}) = {}
    BY <1>4, <1>5, <1>7, <1>8, <2>1 DEF NoConditions, Lists, Flags
  <2> HIDE DEF left
  <2>3. /\ \A field \in DOMAIN update \ {key} : update[field] = h[field]
        /\ key \in DOMAIN update /\ update[key] = left
    BY <1>5, <2>1, <2>2, GoodLists, HardUpdateFields DEF Lists
  <2>4. /\ IsHard(g) /\ DOMAIN g = DOMAIN EmptyHard /\ g[key] = left
        /\ \A field \in DOMAIN EmptyHard \ {key} : g[field] = h[field]
    BY <1>1, <2>2 DEF IsHard
  <2>5. Without(c, of) = [hard |-> BuiltHard(g), soft |-> s]
    BY <1>8 DEF Without, left
  <2> HIDE DEF g, update
  <2>6. Updated(h, update) = g
    BY <1>1, <2>3, <2>4, UpdatedModel
  <2>7. hard = BuiltHard(g)
    BY <1>3, <2>6 DEF update
  <2>8. soft = s
    <3>1. DOMAIN Supplied(softPatch, EmptySoft) = {}
      BY <1>6, <2>1, SuppliedNone
    <3> QED
      BY <1>1, <1>3, <3>1, UpdatedModel
  <2>9. HardPriority(hard, s) = s
    <3>1. \A field \in DOMAIN EmptyHard \cap Lists : g[field] \subseteq h[field]
      BY <2>2, <2>4
    <3>2. \A field \in DOMAIN EmptyHard \ Flags : hard[field] = g[field]
      BY <2>4, <2>7 DEF BuiltHard, Flags
    <3>3. {"required_free_days", "required_course_ids", "excluded_course_ids"}
            \subseteq (DOMAIN EmptyHard \cap Lists) \ Flags
      BY DEF EmptyHard, Lists, Flags
    <3>4. /\ hard.required_free_days \subseteq h.required_free_days
          /\ hard.required_course_ids \subseteq h.required_course_ids
          /\ hard.excluded_course_ids \subseteq h.excluded_course_ids
      BY <3>1, <3>2, <3>3
    <3>5. /\ hard.required_free_days \cap s.preferred_free_days = {}
          /\ (hard.required_course_ids \cup hard.excluded_course_ids)
               \cap (s.preferred_course_ids \cup s.disliked_course_ids) = {}
      BY <3>4, GoodLists
    <3> QED
      BY <1>1, <3>5, PriorityTakesNothing
  <2> QED
    BY <1>2, <2>5, <2>7, <2>8, <2>9
<1>9. CASE of.scope = "soft"
  <2> DEFINE g == [s EXCEPT ![key] = left]
             update == Supplied(softPatch, EmptySoft)
  <2>1. hardPatch = NoPatch /\ softPatch = DeletePatch(of, c)
    BY <1>9
  <2>2. /\ key \in DOMAIN EmptySoft /\ AboutOne(softPatch, key, left, EmptySoft)
        /\ key \in Lists => left \subseteq s[key]
    BY <1>4, <1>5, <1>7, <1>9, <2>1 DEF NoConditions
  <2> HIDE DEF left
  <2>3. DOMAIN update = {key} /\ update[key] = left
    BY <2>2, SuppliedOne
  <2>4. /\ IsSoft(g) /\ DOMAIN g = DOMAIN EmptySoft /\ g[key] = left
        /\ \A field \in DOMAIN EmptySoft \ {key} : g[field] = s[field]
    BY <1>1, <2>2 DEF IsSoft
  <2>5. Without(c, of) = [hard |-> BuiltHard(h), soft |-> g]
    BY <1>9 DEF Without, left
  <2> HIDE DEF g, update
  <2>6. soft = g
    <3>1. Updated(s, update) = g
      BY <1>1, <2>3, <2>4, UpdatedModel
    <3> QED
      BY <1>3, <3>1 DEF update
  <2>7. hard = BuiltHard(h)
    <3>1. "required_free_days" \in DOMAIN EmptyHard \ Flags
      BY DEF EmptyHard, Flags
    <3>2. \A field \in DOMAIN HardUpdate(h, hardPatch) :
            HardUpdate(h, hardPatch)[field] = h[field]
      BY <1>6, <2>1, <3>1, GoodLists, HardUpdateFields
    <3>3. Updated(h, HardUpdate(h, hardPatch)) = h
      BY <1>1, <3>2, UpdatedModel
    <3> QED
      BY <1>3, <3>3
  <2>8. HardPriority(hard, soft) = soft
    <3>1. /\ hard.required_free_days = h.required_free_days
          /\ hard.required_course_ids = h.required_course_ids
          /\ hard.excluded_course_ids = h.excluded_course_ids
      BY <2>7 DEF BuiltHard
    <3>2. \A field \in DOMAIN EmptySoft \cap Lists : soft[field] \subseteq s[field]
      BY <2>2, <2>4, <2>6
    <3>3. {"preferred_free_days", "preferred_course_ids", "disliked_course_ids"}
            \subseteq DOMAIN EmptySoft \cap Lists
      BY DEF EmptySoft, Lists
    <3>4. /\ hard.required_free_days \cap soft.preferred_free_days = {}
          /\ (hard.required_course_ids \cup hard.excluded_course_ids)
               \cap (soft.preferred_course_ids \cup soft.disliked_course_ids) = {}
      BY <3>1, <3>2, <3>3, GoodLists
    <3> QED
      BY <2>4, <2>6, <3>4, PriorityTakesNothing
  <2> QED
    BY <1>2, <2>5, <2>6, <2>7, <2>8
<1> QED
  BY <1>4, <1>8, <1>9

\* No two states of a session share a version.
Precedes(a, b) == a.version <= b.version /\ (a.version = b.version => a = b)

\* The patches DeletePatches hands on.
PatchesOf(d, scope) == IF d.of.scope = scope THEN d.patch ELSE NoPatch

\* The patch was made of the first read, the conditions to be written of the
\* second; the versions tell whether the two reads and the session are the same.
DeletionFollows ==
  /\ session # None => session.version \in Nat
  /\ deletion.phase \in {"patched", "save", "write"} =>
       /\ deletion.of \in Deletions
       /\ deletion.patch = DeletePatch(deletion.of, deletion.base.conditions)
       /\ deletion.base.version \in Nat
       /\ session # None => Precedes(deletion.base, session)
  /\ deletion.phase \in {"save", "write"} =>
       /\ GoodSession(deletion.read) /\ deletion.read.version \in Nat
       /\ Precedes(deletion.base, deletion.read)
       /\ session # None => Precedes(deletion.read, session)
       /\ \E c \in Patched(deletion.read.conditions, PatchesOf(deletion, "hard"),
                           PatchesOf(deletion, "soft")) :
            deletion.next = [deletion.read EXCEPT !.conditions = c]

\* Nothing has been deleted at first.
LEMMA DeletionFollowsInit == Init => DeletionFollows
BY StartsAreConsistent DEF Init, DeletionFollows, NoDeletion

\* What came before a session comes before what is written over it.
LEMMA WritingIsLater ==
  ASSUME NEW next, GoodSession(next), session # None, session.version \in Nat
  PROVE  /\ Written(next).version \in Nat
         /\ \A a : a.version \in Nat /\ Precedes(a, session) => Precedes(a, Written(next))
<1>1. Written(next).version = session.version + 1
  BY DEF Written, GoodSession
<1> QED
  BY <1>1 DEF Precedes

\* A step of the turn, or the end of the session, from the deletion's view.
LEMMA TurnAndDeletion ==
  ASSUME GoodEverywhere, [Next]_vars
  PROVE  \/ UNCHANGED <<session, deletion>>
         \/ UNCHANGED deletion /\ session' = None
         \/ /\ UNCHANGED deletion /\ session # None
            /\ \E next : GoodSession(next) /\ session' = Written(next)
         \/ \E of \in Deletions : DeleteReads(of)
         \/ DeletePatches \/ DeleteChecks \/ DeleteWrites
<1> USE DEF Quiet
<1>1. ASSUME NEW agent, Begun(agent) PROVE UNCHANGED <<session, deletion>>
  BY <1>1 DEF Begun
<1>2. ASSUME ToolFails PROVE UNCHANGED <<session, deletion>>
  BY <1>2 DEF ToolFails
<1>3. CASE Turn
  <2>1. CASE ToolWrites
    <3>1. CASE ToolFails
      BY <1>2, <3>1
    <3>2. CASE ~ToolFails
      <4>1. /\ session # None /\ session' = Written(turn.next) /\ UNCHANGED deletion
            /\ phase = "write"
        BY <2>1, <3>2 DEF ToolWrites, ToolSucceeds
      <4>2. GoodSession(turn.next)
        BY <4>1 DEF GoodEverywhere
      <4> QED
        BY <4>1, <4>2
    <3> QED
      BY <3>1, <3>2
  <2>2. CASE FirstSummary \/ ModelFails \/ ModelStops \/ ModelMisuses \/ FinalSummary \/ Respond
    BY <2>2 DEF FirstSummary, ModelFails, ModelStops, ModelMisuses, FinalSummary, Respond
  <2>3. ASSUME NEW call \in Calls,
               SummaryTool(call) \/ LookupTool(call) \/ ToolReadsBefore(call)
        PROVE  UNCHANGED <<session, deletion>>
    BY <1>2, <2>3 DEF SummaryTool, LookupTool, ToolReadsBefore
  <2>4. CASE ToolCommands \/ ToolTouches \/ ToolChecks
    BY <1>2, <2>4 DEF ToolCommands, ToolTouches, ToolChecks, ToolSucceeds
  <2> QED
    BY <1>3, <2>1, <2>2, <2>3, <2>4 DEF Turn
<1>4. CASE (\E message \in Messages : Receive(message))
           \/ \E agent \in Direct : ReceiveDirect(agent)
  BY <1>1, <1>4 DEF Receive, ReceiveDirect
<1>5. CASE Expire \/ UNCHANGED vars
  BY <1>5 DEF Expire, vars
<1> QED
  BY <1>3, <1>4, <1>5 DEF Next

\* The reads of a deletion stay in order, its patch that of the first, its write that of
\* the second.
LEMMA DeletionFollowsNext ==
  GoodEverywhere /\ DeletionFollows /\ [Next]_vars => DeletionFollows'
<1> SUFFICES ASSUME GoodEverywhere, DeletionFollows, [Next]_vars
             PROVE  DeletionFollows'
  OBVIOUS
<1>1. CASE UNCHANGED <<session, deletion>>
  BY <1>1 DEF DeletionFollows, PatchesOf
<1>2. CASE UNCHANGED deletion /\ session' = None
  BY <1>2 DEF DeletionFollows, PatchesOf
<1>3. ASSUME UNCHANGED deletion, session # None,
             NEW next, GoodSession(next), session' = Written(next)
      PROVE  DeletionFollows'
  <2>1. session.version \in Nat
    BY <1>3 DEF DeletionFollows
  <2>2. /\ session'.version \in Nat
        /\ \A a : a.version \in Nat /\ Precedes(a, session) => Precedes(a, session')
    BY <1>3, <2>1, WritingIsLater
  <2> QED
    BY <1>3, <2>2 DEF DeletionFollows, PatchesOf
<1>4. ASSUME NEW of \in Deletions, DeleteReads(of) PROVE DeletionFollows'
  BY <1>4 DEF DeleteReads, NoDeletion, DeletionFollows, Precedes
<1>5. CASE DeletePatches
  <2>1. CASE DeletionEnds
    BY <1>5, <2>1 DEF DeletePatches, DeletionEnds, NoDeletion, DeletionFollows
  <2>2. CASE ~DeletionEnds
    <3>1. PICK c \in Patched(session.conditions, PatchesOf(deletion, "hard"),
                             PatchesOf(deletion, "soft")) :
            /\ session # None /\ session' = session
            /\ deletion' = [deletion EXCEPT !.phase = "save", !.read = session,
                              !.next = [session EXCEPT !.conditions = c]]
            /\ deletion.phase = "patched"
      BY <1>5, <2>2 DEF DeletePatches, PatchesOf
    <3>2. /\ deletion'.phase = "save" /\ deletion'.of = deletion.of
          /\ deletion'.patch = deletion.patch /\ deletion'.base = deletion.base
          /\ deletion'.read = session
          /\ deletion'.next = [session EXCEPT !.conditions = c]
      BY <3>1 DEF GoodEverywhere, NoDeletion
    <3>3. GoodSession(session) /\ session.version \in Nat /\ Precedes(session, session)
      BY <3>1 DEF GoodEverywhere, DeletionFollows, Precedes
    <3> QED
      BY <3>1, <3>2, <3>3 DEF DeletionFollows, PatchesOf
  <2> QED
    BY <2>1, <2>2
<1>6. CASE DeleteChecks
  <2>1. CASE DeletionEnds
    BY <1>6, <2>1 DEF DeleteChecks, DeletionEnds, NoDeletion, DeletionFollows
  <2>2. CASE ~DeletionEnds
    <3>1. /\ deletion' = [deletion EXCEPT !.phase = "write"] /\ session' = session
          /\ deletion.phase = "save"
      BY <1>6, <2>2 DEF DeleteChecks
    <3>2. /\ deletion'.phase = "write" /\ deletion'.of = deletion.of
          /\ deletion'.patch = deletion.patch /\ deletion'.base = deletion.base
          /\ deletion'.read = deletion.read /\ deletion'.next = deletion.next
      BY <3>1 DEF GoodEverywhere, NoDeletion
    <3> QED
      BY <3>1, <3>2 DEF DeletionFollows, PatchesOf
  <2> QED
    BY <2>1, <2>2
<1>7. CASE DeleteWrites
  <2>1. deletion'.phase = "done"
    BY <1>7 DEF DeleteWrites, DeletionEnds, NoDeletion
  <2>2. CASE session = None
    BY <1>7, <2>1, <2>2 DEF DeleteWrites, DeletionFollows
  <2>3. CASE session # None
    <3>1. session' = Written(deletion.next) /\ GoodSession(deletion.next)
      BY <1>7, <2>3 DEF DeleteWrites, GoodEverywhere
    <3>2. session'.version \in Nat
      BY <2>3, <3>1, WritingIsLater DEF DeletionFollows
    <3> QED
      BY <2>1, <3>2 DEF DeletionFollows
  <2> QED
    BY <2>2, <2>3
<1> QED
  BY <1>1, <1>2, <1>3, <1>4, <1>5, <1>6, <1>7, TurnAndDeletion

\* A request that deletes one condition (delete_timetable_condition) takes that
\* one away and nothing else, whatever a chat turn does between its two reads,
\* unless the session was written since the first of them.
THEOREM DeletionsTakeOne == Spec => DeletionTakesOne
<1> DEFINE Exact ==
      DeleteWrites /\ session # None /\ session = deletion.base =>
        Contents(session') =
          Contents([session EXCEPT !.conditions = Without(@, deletion.of)])
<1>1. ASSUME GoodEverywhere, DeletionFollows, DeleteWrites, session # None,
             session = deletion.base
      PROVE  Contents(session') =
               Contents([session EXCEPT !.conditions = Without(@, deletion.of)])
  <2>1. /\ deletion.phase = "write" /\ session' = Written(deletion.next)
        /\ GoodSession(session)
    BY <1>1 DEF DeleteWrites, GoodEverywhere
  <2>2. deletion.read = session
    BY <1>1, <2>1 DEF DeletionFollows, Precedes
  <2>3. PICK c \in Patched(session.conditions, PatchesOf(deletion, "hard"),
                           PatchesOf(deletion, "soft")) :
          deletion.next = [session EXCEPT !.conditions = c]
    <3>1. \E c \in Patched(deletion.read.conditions, PatchesOf(deletion, "hard"),
                           PatchesOf(deletion, "soft")) :
            deletion.next = [deletion.read EXCEPT !.conditions = c]
      BY <1>1, <2>1 DEF DeletionFollows
    <3> QED
      BY <2>2, <3>1
  <2>4. /\ deletion.of \in Deletions
        /\ deletion.patch = DeletePatch(deletion.of, session.conditions)
    BY <1>1, <2>1 DEF DeletionFollows
  <2>5. c = Without(session.conditions, deletion.of)
    BY <2>1, <2>3, <2>4, DeletionIsExact DEF PatchesOf, GoodSession
  <2> QED
    BY <2>1, <2>3, <2>5 DEF Contents, Written, GoodSession
<1>2. GoodEverywhere /\ DeletionFollows /\ [Next]_vars => [Exact]_vars
  BY <1>1
<1>3. Init => GoodEverywhere /\ DeletionFollows
  BY GoodEverywhereInit, DeletionFollowsInit
<1>4. GoodEverywhere /\ DeletionFollows /\ [Next]_vars
        => (GoodEverywhere /\ DeletionFollows)'
  BY GoodEverywhereNext, DeletionFollowsNext
<1> QED
  BY <1>2, <1>3, <1>4, PTL DEF Spec, DeletionTakesOne

-----------------------------------------------------------------------------
(* Types *)

\* The local variables that no other invariant is about.
LocalsFit ==
  /\ turn.unresolved \in BOOLEAN /\ turn.failed \in BOOLEAN
  /\ phase \notin Running => turn.call = None
  /\ phase \notin {"save", "write"} => turn.next = None
  /\ deletion.phase \in {"idle", "patched", "save", "write", "done"}
  /\ deletion.phase \notin {"save", "write"} => deletion.next = None
  /\ phase \in {"idle", "first"} \cup Working => reply = None

\* Before the first call the locals of a turn are of their type.
LEMMA LocalsFitInit == Init => LocalsFit
BY DEF Init, LocalsFit, NoTurn, NoDeletion

\* No step leaves a local of another type.
LEMMA LocalsFitNext == TurnFacts /\ LocalsFit /\ [Next]_vars => LocalsFit'
<1> SUFFICES ASSUME TurnFacts, LocalsFit, [Next]_vars
             PROVE  LocalsFit'
  OBVIOUS
<1> USE DEF Quiet
<1>0. DOMAIN turn = DOMAIN NoTurn /\ DOMAIN deletion = DOMAIN NoDeletion
  BY DEF TurnFacts, GoodEverywhere
<1>n. \A success \in BOOLEAN : \A changed :
        /\ DOMAIN Executed(success, changed) = DOMAIN NoTurn
        /\ Executed(success, changed).failed \in BOOLEAN
        /\ Executed(success, changed).unresolved \in BOOLEAN
        /\ Executed(success, changed).call = turn.call
        /\ Executed(success, changed).next = turn.next
        /\ DOMAIN ToolEnds(success, changed) = DOMAIN NoTurn
        /\ ToolEnds(success, changed).failed \in BOOLEAN
        /\ ToolEnds(success, changed).unresolved \in BOOLEAN
        /\ ToolEnds(success, changed).call = None
        /\ ToolEnds(success, changed).next = None
  <2> TAKE success \in BOOLEAN
  <2> TAKE changed
  <2>1. /\ DOMAIN Executed(success, changed) = DOMAIN NoTurn
        /\ Executed(success, changed).call = turn.call
        /\ Executed(success, changed).next = turn.next
        /\ Executed(success, changed).unresolved = turn.unresolved
        /\ Executed(success, changed).failed = (turn.failed \/ ~success)
    BY <1>0 DEF Executed, NoTurn
  <2>2. /\ DOMAIN ToolEnds(success, changed) = DOMAIN NoTurn
        /\ ToolEnds(success, changed).call = None
        /\ ToolEnds(success, changed).next = None
        /\ ToolEnds(success, changed).unresolved = Executed(success, changed).unresolved
        /\ ToolEnds(success, changed).failed = Executed(success, changed).failed
    BY <2>1 DEF ToolEnds, NoTurn
  <2>3. turn.unresolved \in BOOLEAN /\ (turn.failed \/ ~success) \in BOOLEAN
    BY DEF LocalsFit
  <2> QED
    BY <2>1, <2>2, <2>3
\* A step of the turn that ends no answer and starts no tool.
<1>a. ASSUME UNCHANGED <<deletion, reply>>, phase \in {"first"} \cup Working,
             phase' \in Working \ Running, turn'.call = None, turn'.next = None,
             turn'.failed \in BOOLEAN, turn'.unresolved \in BOOLEAN
      PROVE  LocalsFit'
  BY <1>a DEF LocalsFit, Working, Running
<1>b. ASSUME NEW result, Answer(result), UNCHANGED deletion, phase \notin Running
      PROVE  LocalsFit'
  BY <1>b DEF Answer, LocalsFit, Working, Running
<1>c. ASSUME ToolFails, phase \in Working PROVE LocalsFit'
  BY <1>a, <1>c, <1>n DEF ToolFails, Working, Running
<1>d. ASSUME NEW after, ToolSucceeds(after), phase \in Working
      PROVE  LocalsFit'
  <2> DEFINE e == ToolEnds(TRUE, Reported(turn.call, turn.before, after))
  <2>1. /\ turn' = [e EXCEPT !.summary = after]
        /\ phase' = "model" /\ UNCHANGED <<deletion, reply>>
    BY <1>d DEF ToolSucceeds
  <2>2. /\ DOMAIN e = DOMAIN NoTurn /\ e.failed \in BOOLEAN /\ e.unresolved \in BOOLEAN
        /\ e.call = None /\ e.next = None
    BY <1>n
  <2> HIDE DEF e
  <2>3. /\ turn'.call = None /\ turn'.next = None
        /\ turn'.failed \in BOOLEAN /\ turn'.unresolved \in BOOLEAN
    BY <2>1, <2>2 DEF NoTurn
  <2> QED
    BY <1>a, <1>d, <2>1, <2>3 DEF Working, Running
\* A step that leaves the turn alone.
<1>e. ASSUME UNCHANGED <<phase, turn, reply>>,
             deletion'.phase \in {"idle", "patched", "save", "write", "done"},
             deletion'.phase \notin {"save", "write"} => deletion'.next = None
      PROVE  LocalsFit'
  BY <1>e DEF LocalsFit
<1>1. ASSUME NEW message \in Messages, Receive(message) PROVE LocalsFit'
  BY <1>1 DEF Receive, Begun, NoTurn, LocalsFit, Working, Running
<1>2. ASSUME NEW agent \in Direct, ReceiveDirect(agent) PROVE LocalsFit'
  BY <1>2 DEF ReceiveDirect, Begun, NoTurn, LocalsFit, Working, Running
<1>3. CASE FirstSummary
  <2>1. CASE session = None
    BY <1>3, <1>b, <2>1 DEF FirstSummary, Running
  <2>2. CASE session # None
    <3>1. /\ turn' = [Executed(TRUE, FALSE) EXCEPT !.summary = session]
          /\ phase = "first" /\ phase' = "model" /\ UNCHANGED <<deletion, reply>>
      BY <1>3, <2>2 DEF FirstSummary
    <3>2. /\ turn'.call = None /\ turn'.next = None
          /\ turn'.failed \in BOOLEAN /\ turn'.unresolved \in BOOLEAN
      BY <1>n, <3>1 DEF NoTurn, LocalsFit, Running
    <3> QED
      BY <1>a, <3>1, <3>2 DEF Working, Running
  <2> QED
    BY <2>1, <2>2
<1>4. CASE ModelFails
  BY <1>4, <1>b DEF ModelFails, Running
<1>5. CASE ModelStops
  <2>1. PICK unresolved \in BOOLEAN :
          turn' = [turn EXCEPT !.unresolved = @ \/ unresolved]
    BY <1>5 DEF ModelStops
  <2>2. /\ turn'.call = None /\ turn'.next = None
        /\ turn'.failed \in BOOLEAN /\ turn'.unresolved \in BOOLEAN
    BY <1>0, <1>5, <2>1 DEF ModelStops, NoTurn, LocalsFit, Running
  <2> QED
    BY <1>5, <1>a, <2>2 DEF ModelStops, Working, Running
<1>6. CASE ModelMisuses
  BY <1>6, <1>b DEF ModelMisuses, Running
<1>7. ASSUME NEW call \in Calls, SummaryTool(call) PROVE LocalsFit'
  <2> DEFINE e == Executed(session # None, FALSE)
  <2>1. /\ phase = "model" /\ UNCHANGED <<phase, deletion, reply>>
        /\ turn' = [e EXCEPT !.summary = IF session = None THEN @ ELSE session]
    BY <1>7 DEF SummaryTool, Runs
  <2>2. /\ DOMAIN e = DOMAIN NoTurn /\ e.failed \in BOOLEAN /\ e.unresolved \in BOOLEAN
        /\ e.call = None /\ e.next = None
    BY <1>n, <2>1 DEF LocalsFit, Running
  <2> HIDE DEF e
  <2>3. /\ turn'.call = None /\ turn'.next = None
        /\ turn'.failed \in BOOLEAN /\ turn'.unresolved \in BOOLEAN
    BY <2>1, <2>2 DEF NoTurn
  <2> QED
    BY <1>a, <2>1, <2>3 DEF Working, Running
<1>8. ASSUME NEW call \in Calls, LookupTool(call) PROVE LocalsFit'
  <2>1. phase = "model" /\ UNCHANGED deletion
    BY <1>8 DEF LookupTool, Runs
  <2>2. CASE Answer(Interrupted("INTERNAL_ERROR"))
    BY <1>b, <2>1, <2>2 DEF Running
  <2>3. CASE ~Answer(Interrupted("INTERNAL_ERROR"))
    <3>1. PICK found \in BOOLEAN : turn' = Executed(found, FALSE)
      BY <1>8, <2>3 DEF LookupTool
    <3>2. UNCHANGED <<phase, reply>>
      BY <1>8, <2>3 DEF LookupTool
    <3>3. turn.call = None /\ turn.next = None
      BY <2>1 DEF LocalsFit, Running
    <3>4. /\ turn'.call = None /\ turn'.next = None
          /\ turn'.failed \in BOOLEAN /\ turn'.unresolved \in BOOLEAN
      BY <1>n, <3>1, <3>3
    <3> QED
      BY <1>a, <2>1, <3>2, <3>4 DEF Working, Running
  <2> QED
    BY <2>2, <2>3
<1>9. ASSUME NEW call \in Calls, ToolReadsBefore(call) PROVE LocalsFit'
  <2>1. phase = "model"
    BY <1>9 DEF ToolReadsBefore, Runs
  <2>2. CASE session = None
    BY <1>9, <1>c, <2>1, <2>2 DEF ToolReadsBefore, Working
  <2>3. CASE session # None
    <3>1. /\ turn' = [turn EXCEPT !.call = call, !.before = session]
          /\ phase' = "command" /\ UNCHANGED <<deletion, reply>>
      BY <1>9, <2>3 DEF ToolReadsBefore
    <3>2. turn'.next = turn.next /\ turn'.failed = turn.failed
          /\ turn'.unresolved = turn.unresolved
      BY <1>0, <3>1 DEF NoTurn
    <3> QED
      BY <2>1, <3>1, <3>2 DEF LocalsFit, Working, Running
  <2> QED
    BY <2>2, <2>3
<1>10. CASE ToolCommands
  <2>1. CASE ToolFails
    BY <1>10, <1>c, <2>1 DEF ToolCommands, Working
  <2>2. CASE ~ToolFails
    <3>1. PICK next : turn' = [turn EXCEPT !.read = session, !.next = next]
      BY <1>10, <2>2 DEF ToolCommands
    <3>2. phase = "command" /\ phase' = "save" /\ UNCHANGED <<deletion, reply>>
      BY <1>10, <2>2 DEF ToolCommands
    <3> QED
      BY <1>0, <3>1, <3>2 DEF NoTurn, LocalsFit, Working, Running
  <2> QED
    BY <2>1, <2>2
<1>11. CASE ToolTouches
  <2>1. phase \in Working /\ (ToolFails \/ ToolSucceeds(session))
    BY <1>11 DEF ToolTouches, Working
  <2> QED
    BY <1>c, <1>d, <2>1
<1>12. CASE ToolChecks
  <2>1. CASE ToolFails
    BY <1>12, <1>c, <2>1 DEF ToolChecks, Working
  <2>2. CASE ~ToolFails
    BY <1>12, <2>2 DEF ToolChecks, LocalsFit, Working, Running
  <2> QED
    BY <2>1, <2>2
<1>13. CASE ToolWrites
  <2>1. phase \in Working /\ (ToolFails \/ ToolSucceeds(session'))
    BY <1>13 DEF ToolWrites, Working
  <2> QED
    BY <1>c, <1>d, <2>1
<1>14. CASE FinalSummary
  <2>1. /\ turn' = Executed(session # None, FALSE) /\ UNCHANGED deletion
        /\ phase = "final" /\ phase' \in {"respond", "answered"}
    BY <1>14 DEF FinalSummary
  <2>2. turn.call = None /\ turn.next = None
    BY <2>1 DEF LocalsFit, Running
  <2>3. /\ turn'.call = None /\ turn'.next = None
        /\ turn'.failed \in BOOLEAN /\ turn'.unresolved \in BOOLEAN
    BY <1>n, <2>1, <2>2
  <2> QED
    BY <2>1, <2>3 DEF LocalsFit, Working, Running
<1>15. CASE Respond
  BY <1>15 DEF Respond, LocalsFit, Working, Running
<1>16. ASSUME NEW of \in Deletions, DeleteReads(of) PROVE LocalsFit'
  BY <1>16, <1>e DEF DeleteReads, NoDeletion
<1>17. CASE DeletePatches
  <2>1. CASE DeletionEnds
    BY <1>17, <1>e, <2>1 DEF DeletePatches, DeletionEnds, NoDeletion
  <2>2. CASE ~DeletionEnds
    <3>1. PICK next : deletion' = [deletion EXCEPT !.phase = "save", !.read = session,
                                     !.next = next]
      BY <1>17, <2>2 DEF DeletePatches
    <3> QED
      BY <1>0, <1>17, <1>e, <3>1 DEF DeletePatches, NoDeletion
  <2> QED
    BY <2>1, <2>2
<1>18. CASE DeleteChecks
  BY <1>0, <1>18, <1>e DEF DeleteChecks, DeletionEnds, NoDeletion
<1>19. CASE DeleteWrites
  BY <1>19, <1>e DEF DeleteWrites, DeletionEnds, NoDeletion
<1>20. CASE Expire
  BY <1>20, <1>e DEF Expire, LocalsFit
<1>21. CASE UNCHANGED vars
  BY <1>21, <1>e DEF vars, LocalsFit
<1> QED
  BY <1>1, <1>2, <1>3, <1>4, <1>5, <1>6, <1>7, <1>8, <1>9, <1>10, <1>11, <1>12,
     <1>13, <1>14, <1>15, <1>16, <1>17, <1>18, <1>19, <1>20, <1>21
  DEF Next, Turn

\* Every step of a turn and of a deletion finds what the step before it left.
THEOREM ChatTypesHold == Spec => []ChatTypeOK
<1>1. TurnFacts /\ ChangesSoFar /\ LocalsFit => ChatTypeOK
  BY DEF TurnFacts, GoodEverywhere, WithinLimits, ChangesSoFar, LocalsFit, ChatTypeOK,
         Working, Running, GoodSession, Pending
<1>2. Init => TurnFacts /\ ChangesSoFar /\ LocalsFit
  BY GoodEverywhereInit, WithinLimitsInit, SummaryIsCurrentInit, ChangesSoFarInit,
     LocalsFitInit
  DEF TurnFacts
<1>3. TurnFacts /\ ChangesSoFar /\ LocalsFit /\ [Next]_vars
        => (TurnFacts /\ ChangesSoFar /\ LocalsFit)'
  BY GoodEverywhereNext, WithinLimitsNext, SummaryIsCurrentNext, ChangesSoFarNext,
     LocalsFitNext
  DEF TurnFacts
<1> QED
  BY <1>1, <1>2, <1>3, PTL DEF Spec

-----------------------------------------------------------------------------
(* Refusals *)

\* Only the responsibility check of the agent a message was routed to refuses it.
RefusedByItsAgent ==
  phase = "respond" /\ reply.error = "NOT_MY_RESPONSIBILITY" =>
    ~Accepts(Routed(reply.message), reply.message)

\* An agent refuses what was routed to it only where markers compete.
LEMMA RefusedByAll ==
  ASSUME NEW message, ~Accepts(Routed(message), message),
         ~({"revision", "conditions"} \subseteq message)
  PROVE  \A domain \in {"major", "preference", "timetable"} :
           ~Accepts(domain, message)
<1>a. Accepts("major", message) <=>
        "major" \in message /\ "conditions" \notin message
  BY DEF Accepts
<1>b. Accepts("preference", message) <=>
        "reset" \in message \/ "conditions" \in message
  BY DEF Accepts
<1>c. Accepts("timetable", message) <=>
        /\ "reset" \notin message /\ "conditions" \notin message
        /\ "revision" \in message \/ "generation" \in message
  BY DEF Accepts
<1>d. ASSUME NEW domain, Routed(message) = domain PROVE ~Accepts(domain, message)
  BY <1>d
<1>1. "reset" \notin message
  <2>1. CASE "reset" \in message
    <3>1. Routed(message) = "preference"
      BY <2>1 DEF Routed
    <3> QED
      BY <1>b, <1>d, <2>1, <3>1, Zenon
  <2> QED
    BY <2>1
<1>2. "conditions" \notin message
  <2>1. CASE "conditions" \in message
    <3>1. "revision" \notin message
      BY <2>1
    <3>2. Routed(message) = "preference"
      BY <1>1, <2>1, <3>1 DEF Routed
    <3> QED
      BY <1>b, <1>d, <2>1, <3>2, Zenon
  <2> QED
    BY <2>1
<1>3. "revision" \notin message /\ "generation" \notin message
  <2>1. CASE "revision" \in message \/ "generation" \in message
    <3>1. Routed(message) = "timetable"
      BY <1>1, <1>2, <2>1 DEF Routed
    <3> QED
      BY <1>1, <1>2, <1>c, <1>d, <2>1, <3>1, Zenon
  <2> QED
    BY <2>1
<1>4. "major" \notin message
  <2>1. CASE "major" \in message
    <3>1. Routed(message) = "major"
      BY <1>1, <1>2, <1>3, <2>1 DEF Routed
    <3> QED
      BY <1>2, <1>a, <1>d, <2>1, <3>1
  <2> QED
    BY <2>1
<1> QED
  BY <1>1, <1>2, <1>3, <1>4, <1>a, <1>b, <1>c

\* No step refuses a message that the agent it is routed to accepts.
LEMMA RefusedByItsAgentNext ==
  RefusedByItsAgent /\ [Next]_vars => RefusedByItsAgent'
<1> SUFFICES ASSUME RefusedByItsAgent, [Next]_vars
             PROVE  RefusedByItsAgent'
  OBVIOUS
<1> USE DEF RefusedByItsAgent
<1>a. ASSUME phase' # "respond" PROVE RefusedByItsAgent'
  BY <1>a
<1>b. ASSUME UNCHANGED <<phase, reply>> PROVE RefusedByItsAgent'
  BY <1>b
<1>c. ASSUME NEW success, NEW changed, NEW partially, NEW summary, NEW error,
             reply' = Result(success, changed, partially, summary, error),
             error # "NOT_MY_RESPONSIBILITY"
      PROVE  RefusedByItsAgent'
  BY <1>c DEF Result
<1>1. ASSUME NEW message \in Messages, Receive(message) PROVE RefusedByItsAgent'
  <2>1. CASE Accepts(Routed(message), message)
    BY <1>1, <2>1, <1>a DEF Receive
  <2>2. CASE ~Accepts(Routed(message), message)
    <3>1. reply' = [Result(FALSE, FALSE, FALSE, None, "NOT_MY_RESPONSIBILITY")
                      EXCEPT !.message = message]
      BY <1>1, <2>2 DEF Receive
    <3>2. reply'.message = message
      BY <3>1 DEF Result
    <3> QED
      BY <2>2, <3>2
  <2> QED
    BY <2>1, <2>2
<1>2. ASSUME NEW agent \in Direct, ReceiveDirect(agent) PROVE RefusedByItsAgent'
  BY <1>2, <1>a DEF ReceiveDirect
<1>3. CASE FirstSummary
  BY <1>3, <1>a, <1>c DEF FirstSummary, Answer
<1>4. CASE ModelFails
  BY <1>4, <1>c DEF ModelFails, Failure, Answer
<1>5. CASE ModelStops
  BY <1>5, <1>a DEF ModelStops
<1>6. CASE ModelMisuses
  BY <1>6, <1>c DEF ModelMisuses, Failure, Interrupted, LimitError, Answer
<1>7. ASSUME NEW call \in Calls, SummaryTool(call) PROVE RefusedByItsAgent'
  BY <1>7, <1>b DEF SummaryTool
<1>8. ASSUME NEW call \in Calls, LookupTool(call) PROVE RefusedByItsAgent'
  BY <1>8, <1>b, <1>c DEF LookupTool, Interrupted, Answer
<1>9. ASSUME NEW call \in Calls, ToolReadsBefore(call) PROVE RefusedByItsAgent'
  BY <1>9, <1>a DEF ToolReadsBefore, ToolFails
<1>10. CASE ToolCommands
  BY <1>10, <1>a DEF ToolCommands, ToolFails
<1>11. CASE ToolTouches
  BY <1>11, <1>a DEF ToolTouches, ToolFails, ToolSucceeds
<1>12. CASE ToolChecks
  BY <1>12, <1>a DEF ToolChecks, ToolFails
<1>13. CASE ToolWrites
  BY <1>13, <1>a DEF ToolWrites, ToolFails, ToolSucceeds
<1>14. CASE FinalSummary
  <2>1. CASE session = None
    BY <1>14, <1>c, <2>1 DEF FinalSummary, Interrupted
  <2>2. CASE session # None
    <3> DEFINE error == IF turn.failed THEN "TOOL_ERROR" ELSE None
    <3>1. error # "NOT_MY_RESPONSIBILITY"
      BY NoneIsNoError
    <3>2. reply' = Result(~turn.failed, turn.changed,
                          turn.changed /\ (turn.failed \/ turn.unresolved),
                          session, error)
      BY <1>14, <2>2 DEF FinalSummary
    <3>3. reply'.error = error
      BY <3>2 DEF Result
    <3> QED
      BY <3>1, <3>3
  <2> QED
    BY <2>1, <2>2
<1>15. CASE Respond
  BY <1>15, <1>a DEF Respond
<1>16. ASSUME NEW of \in Deletions, DeleteReads(of) PROVE RefusedByItsAgent'
  BY <1>16, <1>b DEF DeleteReads
<1>17. CASE DeletePatches
  BY <1>17, <1>b DEF DeletePatches
<1>18. CASE DeleteChecks
  BY <1>18, <1>b DEF DeleteChecks
<1>19. CASE DeleteWrites
  BY <1>19, <1>b DEF DeleteWrites
<1>20. CASE Expire
  BY <1>20, <1>b DEF Expire
<1>21. CASE UNCHANGED vars
  BY <1>21, <1>b DEF vars
<1> QED
  BY <1>1, <1>2, <1>3, <1>4, <1>5, <1>6, <1>7, <1>8, <1>9, <1>10, <1>11, <1>12,
     <1>13, <1>14, <1>15, <1>16, <1>17, <1>18, <1>19, <1>20, <1>21
  DEF Next, Turn

\* A message is handed back as nobody's only if nobody would have taken it, or if
\* it both revises a timetable and names a condition: for every message there is,
\* whatever other markers it has.
THEOREM RefusalsAreRight == Spec => []RefusalMeansNobodyAccepts
<1>1. Init => RefusedByItsAgent
  BY DEF Init, RefusedByItsAgent
<1>2. RefusedByItsAgent => RefusalMeansNobodyAccepts
  BY RefusedByAll DEF RefusedByItsAgent, RefusalMeansNobodyAccepts
<1> QED
  BY <1>1, <1>2, RefusedByItsAgentNext, PTL DEF Spec

-----------------------------------------------------------------------------
(* Turns come to an end *)

\* The steps a phase has before it, when no further tool is asked for.
StepsIn(p) ==
  CASE p = "first" -> 7 [] p = "model" -> 6 [] p = "command" -> 5 [] p = "save" -> 4
    [] p = "write" -> 3 [] p = "final" -> 2 [] p = "respond" -> 1 [] OTHER -> 0

\* The steps that are left to a turn.  A tool is counted when it ends, and then the
\* turn is at most three steps further from its end than when the tool wrote.
StepsLeft == 4 * (MaxTools + 1 - turn.tools) + StepsIn(phase)

\* A turn that has begun only comes closer to its end.
TurnsRunDown ==
  [][phase # "idle" => StepsLeft' <= StepsLeft /\ (Turn => StepsLeft' < StepsLeft)]_vars

\* The two ways a step lowers the number of steps left.
LEMMA StepsFall ==
  ASSUME WithinLimits, WithinLimits',
         \/ turn'.tools = turn.tools /\ StepsIn(phase') < StepsIn(phase)
         \/ turn'.tools = turn.tools + 1 /\ StepsIn(phase') <= StepsIn(phase) + 3
  PROVE  StepsLeft' < StepsLeft
<1>1. turn.tools \in Nat /\ turn'.tools \in Nat /\ MaxTools \in Nat
  BY LimitsAreUsable DEF WithinLimits
<1>2. StepsIn(phase) \in 0..7 /\ StepsIn(phase') \in 0..7
  BY DEF StepsIn
<1>3. \A m, a, b, x, y \in Nat :
        (b = a /\ y < x) \/ (b = a + 1 /\ y <= x + 3) => 4 * (m + 1 - b) + y < 4 * (m + 1 - a) + x
  OBVIOUS
<1> QED
  BY <1>1, <1>2, <1>3 DEF StepsLeft

\* An answer ends the turn, but for the supervisor's last step.
LEMMA AnswersEndSteps ==
  ASSUME WithinLimits, WithinLimits', phase \in {"first", "model"}, NEW result, Answer(result)
  PROVE  StepsLeft' < StepsLeft
<1>1. turn' = turn /\ phase' \in {"answered", "respond"}
  BY DEF Answer
<1>2. StepsIn(phase') < StepsIn(phase)
  BY <1>1 DEF StepsIn
<1> QED
  BY <1>1, <1>2, StepsFall

\* A tool that fails brings the turn closer to its end.
LEMMA FailuresFall ==
  ASSUME WithinLimits, WithinLimits', ToolFails, phase \in {"model", "command", "save", "write"}
  PROVE  StepsLeft' < StepsLeft
<1>1. turn' = ToolEnds(FALSE, FALSE) /\ phase' = "model"
  BY DEF ToolFails
<1>2. turn'.tools = turn.tools + 1
  BY <1>1, Counted
<1>3. StepsIn(phase') <= StepsIn(phase) + 3
  BY <1>1 DEF StepsIn
<1> QED
  BY <1>2, <1>3, StepsFall

\* A tool that succeeds brings the turn closer to its end.
LEMMA SuccessesFall ==
  ASSUME WithinLimits, WithinLimits', NEW after, ToolSucceeds(after),
         phase \in {"save", "write"}
  PROVE  StepsLeft' < StepsLeft
<1> DEFINE ended == ToolEnds(TRUE, Reported(turn.call, turn.before, after))
<1>1. turn' = [ended EXCEPT !.summary = after] /\ phase' = "model"
  BY DEF ToolSucceeds
<1>2. DOMAIN ended = DOMAIN NoTurn /\ ended.tools = turn.tools + 1
  BY Counted
<1> HIDE DEF ended
<1>3. turn'.tools = turn.tools + 1
  BY <1>1, <1>2 DEF NoTurn
<1>4. StepsIn(phase') <= StepsIn(phase) + 3
  BY <1>1 DEF StepsIn
<1> QED
  BY <1>3, <1>4, StepsFall

\* Every step of a turn brings it closer to its end.
LEMMA TurnStepsFall ==
  ASSUME WithinLimits, WithinLimits', Turn
  PROVE  StepsLeft' < StepsLeft
<1>1. CASE FirstSummary
  <2>1. phase = "first"
    BY <1>1 DEF FirstSummary
  <2>2. CASE session = None
    <3>1. Answer(Result(FALSE, FALSE, FALSE, None, "SESSION_NOT_AVAILABLE"))
      BY <1>1, <2>2 DEF FirstSummary
    <3> QED
      BY <2>1, <3>1, AnswersEndSteps
  <2>3. CASE session # None
    <3>1. turn' = [Executed(TRUE, FALSE) EXCEPT !.summary = session] /\ phase' = "model"
      BY <1>1, <2>3 DEF FirstSummary
    <3>2. DOMAIN Executed(TRUE, FALSE) = DOMAIN NoTurn /\ Executed(TRUE, FALSE).tools = turn.tools + 1
      BY Counted
    <3>3. turn'.tools = turn.tools + 1
      BY <3>1, <3>2 DEF NoTurn
    <3>4. StepsIn(phase') <= StepsIn(phase) + 3
      BY <2>1, <3>1 DEF StepsIn
    <3> QED
      BY <3>3, <3>4, StepsFall
  <2> QED
    BY <2>2, <2>3
<1>2. CASE ModelFails
  BY <1>2, AnswersEndSteps DEF ModelFails
<1>3. CASE ModelStops
  <2>1. phase = "model" /\ phase' = "final" /\ turn'.tools = turn.tools
    BY <1>3 DEF ModelStops, WithinLimits, NoTurn
  <2>2. StepsIn(phase') < StepsIn(phase)
    BY <2>1 DEF StepsIn
  <2> QED
    BY <2>1, <2>2, StepsFall
<1>4. CASE ModelMisuses
  <2>1. phase = "model" /\ \E result : Answer(result)
    BY <1>4 DEF ModelMisuses
  <2> QED
    BY <2>1, AnswersEndSteps
<1>5. ASSUME NEW call \in Calls, SummaryTool(call) PROVE StepsLeft' < StepsLeft
  <2>1. PICK summary : turn' = [Executed(session # None, FALSE) EXCEPT !.summary = summary]
    BY <1>5 DEF SummaryTool
  <2>2. /\ DOMAIN Executed(session # None, FALSE) = DOMAIN NoTurn
        /\ Executed(session # None, FALSE).tools = turn.tools + 1
    BY Counted
  <2>3. turn'.tools = turn.tools + 1
    BY <2>1, <2>2 DEF NoTurn
  <2>4. phase' = phase
    BY <1>5 DEF SummaryTool
  <2>5. StepsIn(phase') <= StepsIn(phase) + 3
    BY <2>4 DEF StepsIn
  <2> QED
    BY <2>3, <2>5, StepsFall
<1>6. ASSUME NEW call \in Calls, LookupTool(call) PROVE StepsLeft' < StepsLeft
  <2>1. phase = "model"
    BY <1>6 DEF LookupTool, Runs
  <2>2. CASE Answer(Interrupted("INTERNAL_ERROR"))
    BY <2>1, <2>2, AnswersEndSteps
  <2>3. CASE phase' = phase /\ \E success \in BOOLEAN : turn' = Executed(success, FALSE)
    <3>1. PICK success \in BOOLEAN : turn' = Executed(success, FALSE)
      BY <2>3
    <3>2. turn'.tools = turn.tools + 1
      BY <3>1, Counted
    <3>3. StepsIn(phase') <= StepsIn(phase) + 3
      BY <2>3 DEF StepsIn
    <3> QED
      BY <3>2, <3>3, StepsFall
  <2> QED
    BY <1>6, <2>2, <2>3 DEF LookupTool
<1>7. ASSUME NEW call \in Calls, ToolReadsBefore(call) PROVE StepsLeft' < StepsLeft
  <2>1. phase = "model"
    BY <1>7 DEF ToolReadsBefore, Runs
  <2>2. CASE session = None
    BY <1>7, <2>1, <2>2, FailuresFall DEF ToolReadsBefore
  <2>3. CASE session # None
    <3>1. turn' = [turn EXCEPT !.call = call, !.before = session] /\ phase' = "command"
      BY <1>7, <2>3 DEF ToolReadsBefore
    <3>2. turn'.tools = turn.tools
      BY <3>1 DEF WithinLimits, NoTurn
    <3>3. StepsIn(phase') < StepsIn(phase)
      BY <2>1, <3>1 DEF StepsIn
    <3> QED
      BY <3>2, <3>3, StepsFall
  <2> QED
    BY <2>2, <2>3
<1>8. CASE ToolCommands
  <2>1. phase = "command"
    BY <1>8 DEF ToolCommands
  <2>2. CASE ToolFails
    BY <2>1, <2>2, FailuresFall
  <2>3. CASE ~ToolFails
    <3>1. phase' = "save" /\ \E next : turn' = [turn EXCEPT !.read = session, !.next = next]
      BY <1>8, <2>3 DEF ToolCommands
    <3>2. turn'.tools = turn.tools
      BY <3>1 DEF WithinLimits, NoTurn
    <3>3. StepsIn(phase') < StepsIn(phase)
      BY <2>1, <3>1 DEF StepsIn
    <3> QED
      BY <3>2, <3>3, StepsFall
  <2> QED
    BY <2>2, <2>3
<1>9. CASE ToolTouches
  BY <1>9, FailuresFall, SuccessesFall DEF ToolTouches
<1>10. CASE ToolChecks
  <2>1. phase = "save"
    BY <1>10 DEF ToolChecks
  <2>2. CASE ToolFails
    BY <2>1, <2>2, FailuresFall
  <2>3. CASE ~ToolFails
    <3>1. phase' = "write" /\ turn' = turn
      BY <1>10, <2>3 DEF ToolChecks
    <3>2. StepsIn(phase') < StepsIn(phase)
      BY <2>1, <3>1 DEF StepsIn
    <3> QED
      BY <3>1, <3>2, StepsFall
  <2> QED
    BY <2>2, <2>3
<1>11. CASE ToolWrites
  BY <1>11, FailuresFall, SuccessesFall DEF ToolWrites
<1>12. CASE FinalSummary
  <2>1. phase = "final" /\ turn' = Executed(session # None, FALSE) /\ phase' \in {"answered", "respond"}
    BY <1>12 DEF FinalSummary
  <2>2. turn'.tools = turn.tools + 1
    BY <2>1, Counted
  <2>3. StepsIn(phase') <= StepsIn(phase) + 3
    BY <2>1 DEF StepsIn
  <2> QED
    BY <2>2, <2>3, StepsFall
<1>13. CASE Respond
  <2>1. phase = "respond" /\ phase' = "answered" /\ turn' = turn
    BY <1>13 DEF Respond
  <2>2. StepsIn(phase') < StepsIn(phase)
    BY <2>1 DEF StepsIn
  <2> QED
    BY <2>1, <2>2, StepsFall
<1> QED
  BY <1>1, <1>2, <1>3, <1>4, <1>5, <1>6, <1>7, <1>8, <1>9, <1>10, <1>11, <1>12, <1>13 DEF Turn

\* A number of steps is a number.
LEMMA StepsAreCounted == WithinLimits => StepsLeft \in Nat
<1> SUFFICES ASSUME WithinLimits PROVE StepsLeft \in Nat
  OBVIOUS
<1>1. turn.tools \in Nat /\ MaxTools \in Nat /\ turn.tools <= MaxTools + 1
  BY LimitsAreUsable DEF WithinLimits
<1>2. StepsIn(phase) \in 0..7
  BY DEF StepsIn
<1>3. \A m, a, x \in Nat : a <= m + 1 => 4 * (m + 1 - a) + x \in Nat
  OBVIOUS
<1> QED
  BY <1>1, <1>2, <1>3 DEF StepsLeft

\* A turn is answered after finitely many steps of its own, whatever the model asks
\* for, and no deletion or expiry in between adds one (max_tool_calls).
THEOREM TurnsComeToAnEnd == Spec => [](StepsLeft \in Nat) /\ TurnsRunDown
<1>1. WithinLimits /\ WithinLimits' /\ StepsLeft \in Nat /\ (StepsLeft \in Nat)' /\ [Next]_vars =>
        [phase # "idle" => StepsLeft' <= StepsLeft /\ (Turn => StepsLeft' < StepsLeft)]_vars
  <2> SUFFICES ASSUME WithinLimits, WithinLimits', StepsLeft \in Nat, StepsLeft' \in Nat,
                      Next, phase # "idle"
               PROVE  StepsLeft' <= StepsLeft /\ (Turn => StepsLeft' < StepsLeft)
    OBVIOUS
  <2>2. Turn => StepsLeft' < StepsLeft
    BY TurnStepsFall
  <2>3. CASE Turn
    BY <2>2, <2>3
  <2>4. CASE ~Turn
    <3>1. UNCHANGED <<phase, turn>>
      BY <2>4 DEF Next, Receive, ReceiveDirect, Begun, DeleteReads, DeletePatches, DeleteChecks,
                  DeleteWrites, Expire
    <3>2. StepsLeft' = StepsLeft
      BY <3>1 DEF StepsLeft
    <3> QED
      BY <2>4, <3>2
  <2> QED
    BY <2>2, <2>3, <2>4
<1> QED
  BY <1>1, StepsAreCounted, WithinLimitsInit, WithinLimitsNext, PTL DEF Spec, TurnsRunDown

=============================================================================

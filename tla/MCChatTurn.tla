------------------------------ MODULE MCChatTurn ------------------------------
(***************************************************************************)
(* ChatCorrectness for TLC: a menu of tool calls, deletions and sessions.  *)
(***************************************************************************)
EXTENDS ChatCorrectness, TLC

CONSTANTS mon, fri, c1, area

MCMessages == SUBSET Markers

Hard(set) == [tool |-> "update_timetable_preferences",
              hard |-> [set |-> set, clear |-> {}], soft |-> NoPatch]
Soft(set) == [tool |-> "update_timetable_preferences",
              hard |-> NoPatch, soft |-> [set |-> set, clear |-> {}]]
ResetTo(target) == [tool |-> "reset_session_preferences", target |-> target]
Command(field, on, values) ==
  [tool |-> "command", field |-> field, on |-> on, values |-> values]

MCCalls ==
  {[tool |-> "get_session_summary"], [tool |-> "lookup"],
   Hard("required_free_days" :> {fri}),
   Hard(("required_course_ids" :> {c1}) @@ ("earliest_start_time" :> 2)),
   Hard("min_credit_inclusive" :> FALSE),
   Soft(("preferred_free_days" :> {fri}) @@ ("disliked_course_ids" :> {c1})
          @@ ("preferred_earliest_start_time" :> 1)),
   ResetTo("hard"), ResetTo("all"),
   [tool |-> "update_selected_major_courses", on |-> "add", values |-> {c1}],
   Command("excluded_course_ids", "add", {c1}),
   Command("preferred_course_ids", "add", {c1}),
   Command("preferred_earliest_start_time", "set", 1)}

MCDeletions ==
  {[scope |-> "hard", key |-> "required_free_days", value |-> fri],
   [scope |-> "hard", key |-> "min_credit", value |-> None],
   [scope |-> "soft", key |-> "disliked_course_ids", value |-> None]}

MCStarts ==
  {[conditions |-> [NoConditions EXCEPT !.hard.excluded_elective_areas = {area},
                                        !.hard.required_free_days = {mon, fri},
                                        !.hard.min_credit = 3],
    majors |-> {}, version |-> 0]}

=============================================================================

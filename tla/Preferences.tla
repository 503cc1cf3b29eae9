----------------------------- MODULE Preferences -----------------------------
(***************************************************************************)
(* The timetable conditions of a session and the ways they are changed.    *)
(*                                                                         *)
(* A session keeps hard constraints, which candidates must satisfy, and    *)
(* soft preferences, which rank them.  They are changed by patches, which  *)
(* set and clear any fields at once, and by commands, which change one     *)
(* field.  Both end in the same validation, and hard wins over soft.       *)
(*                                                                         *)
(* Lists of days, courses and areas are sets: the code removes duplicates, *)
(* and no check looks at their order.  Times and credits are integers.     *)
(***************************************************************************)
EXTENDS Integers

CONSTANT None           \* Python's None

-----------------------------------------------------------------------------
(* The two models.                                                          *)

EmptyHard ==
  [required_free_days      |-> {},
   earliest_start_time     |-> None,
   latest_end_time         |-> None,
   min_credit              |-> None,
   min_credit_inclusive    |-> TRUE,
   max_credit              |-> None,
   max_credit_inclusive    |-> TRUE,
   required_course_ids     |-> {},
   excluded_course_ids     |-> {},
   excluded_elective_areas |-> {}]

EmptySoft ==
  [preferred_free_days           |-> {},
   preferred_earliest_start_time |-> None,
   preferred_latest_end_time     |-> None,
   preferred_course_ids          |-> {},
   disliked_course_ids           |-> {},
   compact_schedule              |-> None]

NoConditions == [hard |-> EmptyHard, soft |-> EmptySoft]

\* An update of one field, and the fields of two updates: the first one wins.
One(field, value) == [f \in {field} |-> value]
Merged(first, second) ==
  [f \in DOMAIN first \cup DOMAIN second |->
     IF f \in DOMAIN first THEN first[f] ELSE second[f]]

\* A stored model with the fields of an update.
Updated(stored, update) ==
  [field \in DOMAIN stored |->
     IF field \in DOMAIN update THEN update[field] ELSE stored[field]]

\* A window with both ends is empty unless it starts before it ends.
OpenWindow(from, to) == from # None /\ to # None => from < to

\* HardConstraints: an inclusive flag means nothing without its bound and falls
\* back to its default.
BuiltHard(h) ==
  [h EXCEPT !.min_credit_inclusive = h.min_credit = None \/ @,
            !.max_credit_inclusive = h.max_credit = None \/ @]

HardAccepted(h) ==
  /\ h.min_credit # None /\ h.max_credit # None =>
       /\ h.min_credit <= h.max_credit
       /\ h.min_credit = h.max_credit =>
            h.min_credit_inclusive /\ h.max_credit_inclusive
  /\ OpenWindow(h.earliest_start_time, h.latest_end_time)
  /\ h.required_course_ids \cap h.excluded_course_ids = {}

SoftAccepted(s) ==
  /\ OpenWindow(s.preferred_earliest_start_time, s.preferred_latest_end_time)
  /\ s.preferred_course_ids \cap s.disliked_course_ids = {}

\* Wrong variant: times are left to each model alone.
CompatibleButTimes(h, s) ==
  /\ h.required_free_days \cap s.preferred_free_days = {}
  /\ (h.required_course_ids \cup h.excluded_course_ids)
       \cap (s.preferred_course_ids \cup s.disliked_course_ids) = {}

\* PreferenceConflictValidator
Compatible(h, s) ==
  /\ h.required_free_days \cap s.preferred_free_days = {}
  /\ h.earliest_start_time # None /\ s.preferred_earliest_start_time # None =>
       s.preferred_earliest_start_time >= h.earliest_start_time
  /\ h.latest_end_time # None /\ s.preferred_latest_end_time # None =>
       s.preferred_latest_end_time <= h.latest_end_time
  /\ (h.required_course_ids \cup h.excluded_course_ids)
       \cap (s.preferred_course_ids \cup s.disliked_course_ids) = {}

Accepted(c) ==
  /\ HardAccepted(c.hard)
  /\ SoftAccepted(c.soft)
  /\ Compatible(c.hard, c.soft)

-----------------------------------------------------------------------------
(* Patches: values for some fields, and fields to clear.  A supplied value  *)
(* wins over a clear.                                                       *)

NoPatch == [set |-> <<>>, clear |-> {}]

Supplied(patch, cleared) ==
  Merged(patch.set, [field \in patch.clear |-> cleared[field]])

\* A bound comes with its flag or with the default one; a flag alone changes
\* the bound there is.
BoundFlag(h, patch, bound, flag) ==
  IF bound \in DOMAIN patch.set
  THEN One(flag, IF flag \in DOMAIN patch.set THEN patch.set[flag] ELSE TRUE)
  ELSE IF flag \in DOMAIN patch.set /\ h[bound] # None
       THEN One(flag, patch.set[flag])
       ELSE <<>>

\* Requiring courses frees them from exclusion, and the other way round, unless
\* the patch says both.
CourseSwap(h, update) ==
  LET given(field) == field \in DOMAIN update
  IN IF given("required_course_ids") /\ ~given("excluded_course_ids")
     THEN One("excluded_course_ids",
              h.excluded_course_ids \ update.required_course_ids)
     ELSE IF given("excluded_course_ids") /\ ~given("required_course_ids")
          THEN One("required_course_ids",
                   h.required_course_ids \ update.excluded_course_ids)
          ELSE <<>>

Flags == {"min_credit_inclusive", "max_credit_inclusive"}

\* _apply_hard_patch: what the patch asks for ...
HardUpdate(h, patch) ==
  LET plain == [patch EXCEPT
                  !.set = [field \in DOMAIN @ \ Flags |-> @[field]]]
      flags == Merged(BoundFlag(h, patch, "min_credit", "min_credit_inclusive"),
                      BoundFlag(h, patch, "max_credit", "max_credit_inclusive"))
      given == Merged(flags, Supplied(plain, EmptyHard))
  IN Merged(given, CourseSwap(h, given))

\* ... and the constraints it leads to, unless the model refuses them.
PatchedHard(h, patch) ==
  {next \in {BuiltHard(Updated(h, update)) : update \in {HardUpdate(h, patch)}} :
     HardAccepted(next)}

\* _apply_soft_patch
PatchedSoft(s, patch) ==
  {next \in {Updated(s, update) : update \in {Supplied(patch, EmptySoft)}} :
     SoftAccepted(next)}

\* _apply_hard_priority
HardPriority(h, s) ==
  LET decided == h.required_course_ids \cup h.excluded_course_ids
  IN [s EXCEPT !.preferred_free_days  = @ \ h.required_free_days,
               !.preferred_course_ids = @ \ decided,
               !.disliked_course_ids  = @ \ decided]

\* update_preferences: the conditions a pair of patches leads to, if any.
Patched(c, hardPatch, softPatch) ==
  {next \in {[hard |-> hard, soft |-> HardPriority(hard, soft)] :
              hard \in PatchedHard(c.hard, hardPatch),
              soft \in PatchedSoft(c.soft, softPatch)} :
     Accepted(next)}

-----------------------------------------------------------------------------
(* Commands: one change to one field, as a pair of updates of the stored    *)
(* models.  "on" is the change made to the list: add, remove or replace.    *)

Changed(list, on, values) ==
  CASE on = "add"     -> list \cup values
    [] on = "remove"  -> list \ values
    [] on = "replace" -> values

\* Values the command puts into its list, and so takes out of others.
Entered(on, values) == IF on = "remove" THEN {} ELSE values

\* add_, remove_ and replace_required_free_day(s)
OnRequiredDays(c, on, days) ==
  [hard |-> [c.hard EXCEPT !.required_free_days = Changed(@, on, days)],
   soft |-> [c.soft EXCEPT !.preferred_free_days = @ \ Entered(on, days)]]

\* add_, remove_ and replace_required_ or _excluded_course(s)
OnHardCourses(c, list, other, on, courses) ==
  [hard |-> [c.hard EXCEPT ![list]  = Changed(@, on, courses),
                           ![other] = @ \ Entered(on, courses)],
   soft |-> [c.soft EXCEPT
               !.preferred_course_ids = @ \ Entered(on, courses),
               !.disliked_course_ids  = @ \ Entered(on, courses)]]

\* add_, remove_ and replace_preferred_free_day(s): a required day stays out.
OnPreferredDays(c, on, days) ==
  [c EXCEPT !.soft.preferred_free_days =
     IF on = "remove" THEN @ \ days
     ELSE Changed(@, on, days \ c.hard.required_free_days)]

\* add_ and remove_preferred_ or _disliked_course: a course that the same-minded
\* hard list has stays out, one that the opposite hard list has is refused.
OnSoftCourses(c, list, other, on, courses) ==
  LET entered == Entered(on, courses)
      same     == IF list = "preferred_course_ids"
                  THEN c.hard.required_course_ids ELSE c.hard.excluded_course_ids
      opposite == IF list = "preferred_course_ids"
                  THEN c.hard.excluded_course_ids ELSE c.hard.required_course_ids
  IN IF entered \cap opposite # {} THEN {}
     ELSE IF entered \cap same # {} THEN {c}
     ELSE {[c EXCEPT !.soft[list]  = Changed(@, on, courses),
                     !.soft[other] = @ \ entered]}

\* set_ and clear_ of a time or of compact_schedule
OnHardField(c, field, value) ==
  [c EXCEPT !.hard = BuiltHard([@ EXCEPT ![field] = value])]
OnSoftField(c, field, value) == [c EXCEPT !.soft[field] = value]

\* clear_hard_constraints, clear_soft_preferences, clear_all_preferences
Reset(c, target) ==
  [hard |-> IF target = "soft" THEN c.hard ELSE EmptyHard,
   soft |-> IF target = "hard" THEN c.soft ELSE EmptySoft]

\* What the command named by a call makes of the conditions ...
Made(c, call) ==
  LET field == call.field
  IN CASE field = "required_free_days" ->
            {OnRequiredDays(c, call.on, call.values)}
       [] field = "required_course_ids" ->
            {OnHardCourses(c, field, "excluded_course_ids", call.on, call.values)}
       [] field = "excluded_course_ids" ->
            {OnHardCourses(c, field, "required_course_ids", call.on, call.values)}
       [] field = "preferred_free_days" ->
            {OnPreferredDays(c, call.on, call.values)}
       [] field = "preferred_course_ids" ->
            OnSoftCourses(c, field, "disliked_course_ids", call.on, call.values)
       [] field = "disliked_course_ids" ->
            OnSoftCourses(c, field, "preferred_course_ids", call.on, call.values)
       [] field \in {"earliest_start_time", "latest_end_time"} ->
            {OnHardField(c, field, call.values)}
       [] field \in {"preferred_earliest_start_time",
                     "preferred_latest_end_time", "compact_schedule"} ->
            {OnSoftField(c, field, call.values)}

\* ... if the validation accepts it.
Commanded(c, call) == {next \in Made(c, call) : Accepted(next)}

=============================================================================

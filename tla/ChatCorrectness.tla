--------------------------- MODULE ChatCorrectness ---------------------------
(***************************************************************************)
(* What a chat message promises, whatever the model asks for and whatever  *)
(* the other request does in between.                                      *)
(***************************************************************************)
EXTENDS ChatTurn

Over == phase \in {"respond", "answered"} /\ reply # None

\* Nobody else wrote the session since the turn began, and it is still there.
Undisturbed == session # None /\ ~history.disturbed

\* The variables have their types: every step of a turn carries what the next
\* one needs.
ChatTypeOK ==
  /\ session # None => DOMAIN session = {"conditions", "majors", "version"}
  /\ phase \in {"idle", "first", "model", "command", "save", "write", "final",
                "respond", "answered"}
  /\ DOMAIN turn = DOMAIN NoTurn
  /\ turn.changed \in BOOLEAN /\ turn.unresolved \in BOOLEAN
  /\ turn.mutations \in Nat
  /\ turn.tools \in Nat /\ turn.failed \in BOOLEAN /\ turn.ran \in BOOLEAN
  /\ IF phase \in {"command", "save", "write"}
     THEN turn.call \in Calls /\ turn.call.tool \notin ReadOnly
     ELSE turn.call = None
  /\ IF phase \in {"save", "write"}
     THEN DOMAIN turn.next = {"conditions", "majors", "version"}
     ELSE turn.next = None
  /\ deletion.phase \in {"idle", "patched", "save", "write", "done"}
  /\ IF deletion.phase \in {"save", "write"}
     THEN DOMAIN deletion.next = {"conditions", "majors", "version"}
     ELSE deletion.next = None
  /\ phase \in {"idle", "first", "model", "command", "save", "write", "final"} => reply = None

-----------------------------------------------------------------------------

CourseLists(c) ==
  <<c.hard.required_course_ids, c.hard.excluded_course_ids,
    c.soft.preferred_course_ids, c.soft.disliked_course_ids>>

Before(a, b) == a # None /\ b # None => a <= b

\* The conditions of a session never contradict each other: a course is in one
\* list at most, a day is required or preferred, windows and credit bounds are
\* not empty, the preferred window does not reach out of the required one, and
\* a bound that is not there is not exclusive.  Two requests that both read the
\* session before either writes it must not mix into such a state.
Consistent(c) ==
  /\ \A i, j \in 1..4 : i # j => CourseLists(c)[i] \cap CourseLists(c)[j] = {}
  /\ c.hard.required_free_days \cap c.soft.preferred_free_days = {}
  /\ OpenWindow(c.hard.earliest_start_time, c.hard.latest_end_time)
  /\ OpenWindow(c.soft.preferred_earliest_start_time,
                c.soft.preferred_latest_end_time)
  /\ Before(c.hard.earliest_start_time, c.soft.preferred_earliest_start_time)
  /\ Before(c.soft.preferred_latest_end_time, c.hard.latest_end_time)
  /\ Before(c.hard.min_credit, c.hard.max_credit)
  /\ ~c.hard.min_credit_inclusive =>
       c.hard.min_credit # None /\ c.hard.min_credit # c.hard.max_credit
  /\ ~c.hard.max_credit_inclusive =>
       c.hard.max_credit # None /\ c.hard.min_credit # c.hard.max_credit

\* Conditions have the fields of the two models and no others.
Shaped(c) ==
  c = [hard |-> [field \in DOMAIN EmptyHard |-> c.hard[field]],
       soft |-> [field \in DOMAIN EmptySoft |-> c.soft[field]]]

\* A session starts without conditions and is changed in the ways above only.
ASSUME StartsAreConsistent ==
  \A s \in Starts :
    /\ s # None /\ DOMAIN s = {"conditions", "majors", "version"}
    /\ s.version \in Nat
    /\ Shaped(s.conditions) /\ Consistent(s.conditions)

ConditionsStayConsistent == session # None => Consistent(session.conditions)

-----------------------------------------------------------------------------

\* What the two agent tools leave out of the fields they compare: whether a
\* credit bound is inclusive, and, for a reset, the excluded areas.
Contents(s) == [conditions |-> s.conditions, majors |-> s.majors]
Unlisted == Flags \cup {"excluded_elective_areas"}
Listed(s) ==
  [hard |-> [field \in DOMAIN EmptyHard \ Unlisted |-> s.conditions.hard[field]],
   soft |-> s.conditions.soft, majors |-> s.majors]

\* The answer tells the user whether the conditions were changed, and it does so
\* however the turn ended: at a limit, in an error, after a tool that failed.
\* "Unchanged" means the session is as it was found, but for the fields the
\* tools do not compare; "changed" means the turn wrote it.
AnswerReportsChanges ==
  Over /\ Undisturbed =>
    /\ ~reply.changed => Listed(session) = Listed(history.start)
    /\ reply.changed => history.writes > 0
    /\ reply.partially => reply.changed

\* The same without the exception: what the default message says.
UnchangedMeansUnchanged ==
  Over /\ Undisturbed /\ ~reply.changed =>
    Contents(session) = Contents(history.start)

\* However the turn ended, the summary in the answer shows the session as the
\* turn left it, and agrees with the summary of conditions read after it.
AnswerShowsSession ==
  Over /\ Undisturbed =>
    /\ reply.summary # None => reply.summary = session
    /\ reply.conditions # None => reply.conditions = session.conditions
    /\ reply.changed => reply.summary # None

\* A turn never writes the session more often than the limit on changing tools,
\* nor runs more tools than the limit on all of them and the final summary.
ToolsStayWithinLimits ==
  /\ history.writes <= MaxMutations
  /\ turn.tools <= MaxTools + (IF phase \in {"respond", "answered"} THEN 1 ELSE 0)

\* A message is handed back only if no agent would have taken it.  Except: a
\* message about revising the timetable that also names a condition goes to the
\* timetable agent, which refuses conditions, and is not offered to another.
RefusalMeansNobodyAccepts ==
  phase = "respond" /\ reply.error = "NOT_MY_RESPONSIBILITY" =>
    \/ \A domain \in {"major", "preference", "timetable"} :
         ~Accepts(domain, reply.message)
    \/ {"revision", "conditions"} \subseteq reply.message

\* Deleting one condition takes away that one and nothing else, unless the
\* session was written after the request's first read.  A bound on credits takes
\* its flag along.
Left(c, of) ==
  IF of.value = None \/ of.key \notin Lists
  THEN NoConditions[of.scope][of.key] ELSE c[of.scope][of.key] \ {of.value}

Without(c, of) ==
  LET rest(scope) == IF of.scope = scope
                     THEN [c[scope] EXCEPT ![of.key] = Left(c, of)] ELSE c[scope]
  IN [hard |-> BuiltHard(rest("hard")), soft |-> rest("soft")]

DeletionTakesOne ==
  [][DeleteWrites /\ session # None /\ session = deletion.base =>
      Contents(session') =
        Contents([session EXCEPT !.conditions = Without(@, deletion.of)])]_vars

\* Every turn is answered: the limits end it though the model never stops.
TurnsEnd == phase # "idle" ~> phase = "answered"

=============================================================================

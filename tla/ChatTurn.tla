------------------------------- MODULE ChatTurn -------------------------------
(***************************************************************************)
(* One chat message of a session, served by an agent, while another        *)
(* request deletes one of the session's conditions.                        *)
(*                                                                         *)
(* A supervisor routes the message to one domain agent by the words it     *)
(* finds in it.  The agent asks a language model for tool calls and runs   *)
(* them until the model calls no more, or something stops the turn; it     *)
(* reads the session first and last.  The model may ask for anything.  A   *)
(* tool that changes the session reads it twice, checks its version and    *)
(* writes it, and each of these is a step of its own, as they are in the   *)
(* deletion: nothing locks the session from one to the next.               *)
(*                                                                         *)
(* Tools that confirm conditions or select a timetable are in PlanuBackend *)
(* and change nothing here; generation and scoring are lookups: they write *)
(* nothing a later tool of the turn reads.                                 *)
(***************************************************************************)
EXTENDS Preferences

CONSTANTS
  Messages,           \* what messages are about: sets of markers found in them
  Direct,             \* agents that clients can reach without the supervisor
  Calls,              \* tool calls the model can ask for
  Deletions,          \* conditions a client can ask to delete
  Starts,             \* sessions a turn can find
  MaxTools,           \* max_tool_calls
  MaxMutations        \* max_mutation_tool_calls

\* SessionStateAgent.__init__
ASSUME LimitsAreUsable ==
  /\ Direct \subseteq {"legacy", "commands"}
  /\ MaxTools \in Nat \ {0}
  /\ MaxMutations \in 0..MaxTools

\* An answer without an error is no refusal.
ASSUME NoneIsNoError == None # "NOT_MY_RESPONSIBILITY"

VARIABLES
  session,            \* conditions, majors and version; None once expired
  phase,              \* the next step of the chat request
  turn,               \* local variables of SessionStateAgent.run
  reply,              \* SessionStateAgentResult, None until there is one
  deletion,           \* the deleting request
  history             \* for the properties: what happened since the turn began

vars == <<session, phase, turn, reply, deletion, history>>

-----------------------------------------------------------------------------
(* Routing.                                                                 *)

Markers == {"reset", "revision", "conditions", "generation", "major"}

\* Wrong variant: generation is looked for before conditions.
RoutedGenerationFirst(message) ==
  IF "reset" \in message THEN "preference"
  ELSE IF message \cap {"revision", "generation"} # {} THEN "timetable"
  ELSE IF "conditions" \in message THEN "preference"
  ELSE IF "major" \in message THEN "major"
  ELSE "preference"

Routed(message) ==
  IF "reset" \in message THEN "preference"
  ELSE IF "revision" \in message THEN "timetable"
  ELSE IF "conditions" \in message THEN "preference"
  ELSE IF "generation" \in message THEN "timetable"
  ELSE IF "major" \in message THEN "major"
  ELSE "preference"

\* The responsibility check of a domain agent.
Accepts(domain, message) ==
  CASE domain = "major" -> "major" \in message /\ "conditions" \notin message
    [] domain = "preference" -> message \cap {"reset", "conditions"} # {}
    [] domain = "timetable" ->
         /\ message \cap {"reset", "conditions"} = {}
         /\ message \cap {"revision", "generation"} # {}

\* The tools an agent is built with.
Toolset(agent) ==
  {"get_session_summary", "lookup"} \cup
  CASE agent = "major"      -> {"update_selected_major_courses"}
    [] agent = "preference" -> {"update_timetable_preferences",
                                "reset_session_preferences"}
    [] agent = "timetable"  -> {}
    [] agent = "legacy"     -> {"update_selected_major_courses",
                                "update_timetable_preferences",
                                "reset_session_preferences"}
    [] agent = "commands"   -> {"update_selected_major_courses", "command"}

ReadOnly == {"get_session_summary", "lookup"}

Lists ==
  {"required_free_days", "required_course_ids", "excluded_course_ids",
   "excluded_elective_areas", "preferred_free_days", "preferred_course_ids",
   "disliked_course_ids"}

\* Fields a command can change.
CommandFields ==
  {"required_free_days", "earliest_start_time", "latest_end_time",
   "required_course_ids", "excluded_course_ids"} \cup DOMAIN EmptySoft

ASSUME CallsAreTools ==
  \A call \in Calls :
    /\ call.tool \in Toolset("legacy") \cup Toolset("commands")
    /\ call.tool = "command" =>
         /\ call.field \in CommandFields
         /\ call.field \in Lists => call.on \in {"add", "remove", "replace"}

\* The fields that requests may name for deletion.
ASSUME DeletionsAreFields ==
  \A of \in Deletions :
    /\ of.scope \in DOMAIN NoConditions
    /\ of.key \in DOMAIN NoConditions[of.scope] \ Flags

-----------------------------------------------------------------------------
(* Results.                                                                 *)

\* Of the executed tools the turn needs their number, whether one of them failed
\* and whether one of them changed the session.
NoTurn ==
  [agent |-> None, tools |-> 0, failed |-> FALSE, ran |-> FALSE,
   mutations |-> 0, changed |-> FALSE, unresolved |-> FALSE, summary |-> None,
   call |-> None, before |-> None, read |-> None, next |-> None]

\* executed.append
Executed(success, changed) ==
  [turn EXCEPT !.tools = @ + 1,
               !.failed = @ \/ ~success,
               !.ran = @ \/ changed]

Result(success, changed, partially, summary, error) ==
  [success |-> success, changed |-> changed, partially |-> partially,
   summary |-> summary, error |-> error, message |-> None, conditions |-> None]

\* _failure
Failure(error) ==
  Result(FALSE, turn.changed, turn.changed /\ turn.failed,
         turn.summary, error)

\* _invalid_tool_arguments, _internal_tool_error, _tool_failure
Interrupted(error) ==
  Result(FALSE, turn.changed, turn.changed, turn.summary, error)

\* Wrong variant: a turn that was cut short changed nothing.
LimitErrorUnchanged ==
  Result(FALSE, FALSE, FALSE, turn.summary, "TOOL_CALL_LIMIT_EXCEEDED")

\* _limit_error
LimitError ==
  Result(FALSE, turn.ran, turn.ran, turn.summary, "TOOL_CALL_LIMIT_EXCEEDED")

Quiet == UNCHANGED <<deletion, session>>

\* The runtime that called the supervisor goes on to "respond"; the route of
\* the legacy agent returns its result.
Answer(result) ==
  /\ reply' = result
  /\ phase' = IF turn.agent \in Direct THEN "answered" ELSE "respond"
  /\ UNCHANGED <<turn, history>>

-----------------------------------------------------------------------------
(* The turn begins.                                                         *)

Begun(agent) ==
  /\ phase = "idle"
  /\ session # None
  /\ turn' = [NoTurn EXCEPT !.agent = agent]
  /\ history' = [start |-> session, writes |-> 0, disturbed |-> FALSE]
  /\ Quiet

\* AgentRuntime.handle_message, PlanuSupervisorAgent.run
Receive(message) ==
  /\ Begun(Routed(message))
  /\ IF Accepts(Routed(message), message)
     THEN phase' = "first" /\ UNCHANGED reply
     ELSE /\ phase' = "respond"
          /\ reply' = [Result(FALSE, FALSE, FALSE, None, "NOT_MY_RESPONSIBILITY")
                         EXCEPT !.message = message]

\* post_agent_message, and an agent built over the command tools
ReceiveDirect(agent) ==
  Begun(agent) /\ phase' = "first" /\ UNCHANGED reply

\* The summary read before the model is asked.
FirstSummary ==
  /\ phase = "first"
  /\ Quiet
  /\ IF session = None
     THEN Answer(Result(FALSE, FALSE, FALSE, None, "SESSION_NOT_AVAILABLE"))
     ELSE /\ turn' = [Executed(TRUE, FALSE) EXCEPT !.summary = session]
          /\ phase' = "model"
          /\ UNCHANGED <<reply, history>>

-----------------------------------------------------------------------------
(* The model.  A response with several calls is several steps here.         *)

ModelFails ==
  phase = "model" /\ Quiet /\ Answer(Failure("MODEL_CALL_FAILED"))

ModelStops ==
  /\ phase = "model"
  /\ \E unresolved \in BOOLEAN :
       turn' = [turn EXCEPT !.unresolved = @ \/ unresolved]
  /\ phase' = "final"
  /\ Quiet
  /\ UNCHANGED <<reply, history>>

\* Wrong variant: the limit itself is still allowed.
PastLimit(call) ==
  \/ call.tool \notin ReadOnly /\ turn.mutations > MaxMutations
  \/ turn.tools >= MaxTools

OverLimit(call) ==
  \/ call.tool \notin ReadOnly /\ turn.mutations >= MaxMutations
  \/ turn.tools >= MaxTools

\* A call that is not run: a name that is not registered, arguments that do not
\* validate, one call too many.
ModelMisuses ==
  /\ phase = "model"
  /\ Quiet
  /\ \/ Answer(Failure("UNKNOWN_TOOL"))
     \/ Answer(Interrupted("INVALID_TOOL_ARGUMENTS"))
     \/ \E call \in Calls : /\ call.tool \in Toolset(turn.agent)
                            /\ OverLimit(call)
                            /\ Answer(LimitError)

Runs(call) ==
  /\ phase = "model"
  /\ call \in Calls
  /\ call.tool \in Toolset(turn.agent)
  /\ ~OverLimit(call)

-----------------------------------------------------------------------------
(* Tools that only read.                                                    *)

SummaryTool(call) ==
  /\ Runs(call)
  /\ call.tool = "get_session_summary"
  /\ turn' = [Executed(session # None, FALSE) EXCEPT
                 !.summary = IF session = None THEN @ ELSE session]
  /\ Quiet
  /\ UNCHANGED <<phase, reply, history>>

\* Wrong variant: a lookup starts the count anew.
LookupToolRecounting(call) ==
  /\ Runs(call)
  /\ call.tool = "lookup"
  /\ Quiet
  /\ \E found \in BOOLEAN :
       turn' = [Executed(found, FALSE) EXCEPT !.tools = 1, !.failed = ~found]
  /\ UNCHANGED <<phase, reply, history>>

\* Discovery, generation, validation, scoring.
LookupTool(call) ==
  /\ Runs(call)
  /\ call.tool = "lookup"
  /\ Quiet
  /\ \/ /\ \E found \in BOOLEAN : turn' = Executed(found, FALSE)
        /\ UNCHANGED <<phase, reply, history>>
     \/ Answer(Interrupted("INTERNAL_ERROR"))

-----------------------------------------------------------------------------
(* Tools that change the session.                                           *)

\* What the service command of a call makes of the session, if it accepts it.
Outcomes(call, s) ==
  CASE call.tool = "update_timetable_preferences" ->
         {[s EXCEPT !.conditions = c] :
            c \in Patched(s.conditions, call.hard, call.soft)}
    [] call.tool = "reset_session_preferences" ->
         {[s EXCEPT !.conditions = Reset(@, call.target)]}
    [] call.tool = "update_selected_major_courses" ->
         {[s EXCEPT !.majors = Changed(@, call.on, call.values)]}
    [] call.tool = "command" ->
         {[s EXCEPT !.conditions = c] : c \in Commanded(s.conditions, call)}

\* Fields the two agent tools compare for their list of changed fields.
ComparedByUpdate ==
  (DOMAIN EmptyHard \ Flags) \cup DOMAIN EmptySoft
ComparedByReset ==
  ComparedByUpdate \ {"excluded_elective_areas"}

FieldsOf(c) == Merged(c.hard, c.soft)

DiffersOn(fields, s, after) ==
  \E field \in fields :
    FieldsOf(s.conditions)[field] # FieldsOf(after.conditions)[field]

\* "changed" in the result of a tool
Reported(call, s, after) ==
  CASE call.tool = "update_timetable_preferences" ->
         DiffersOn(ComparedByUpdate, s, after)
    [] call.tool = "reset_session_preferences" ->
         DiffersOn(ComparedByReset, s, after)
    [] call.tool = "update_selected_major_courses" -> s.majors # after.majors
    [] call.tool = "command" ->
         IF call.field \in DOMAIN EmptyHard
         THEN s.conditions.hard # after.conditions.hard
         ELSE s.conditions.soft # after.conditions.soft

\* Wrong variant: the call stays pending.
ToolEndsPending(success, changed) ==
  [Executed(success, changed) EXCEPT !.mutations = @ + 1,
                                     !.changed = @ \/ changed]

ToolEnds(success, changed) ==
  [Executed(success, changed) EXCEPT
     !.mutations = @ + 1,
     !.changed = @ \/ changed,
     !.call = None, !.before = None, !.read = None, !.next = None]

ToolFails ==
  /\ turn' = ToolEnds(FALSE, FALSE)
  /\ phase' = "model"
  /\ UNCHANGED <<session, deletion, reply, history>>

\* SessionAgentTools._run, SessionCommandTools._run: the session before
ToolReadsBefore(call) ==
  /\ Runs(call)
  /\ call.tool \notin ReadOnly
  /\ IF session = None
     THEN ToolFails
     ELSE /\ turn' = [turn EXCEPT !.call = call, !.before = session]
          /\ phase' = "command"
          /\ Quiet
          /\ UNCHANGED <<reply, history>>

\* The service reads the session again and makes the next one of it.
ToolCommands ==
  /\ phase = "command"
  /\ IF session = None
     THEN ToolFails
     ELSE LET outcomes == Outcomes(turn.call, session)
          IN \/ outcomes = {} /\ ToolFails
             \/ /\ \E next \in outcomes :
                     turn' = [turn EXCEPT !.read = session, !.next = next]
                /\ phase' = "save"
                /\ Quiet
                /\ UNCHANGED <<reply, history>>

\* Wrong variant: the summary stays that of the beginning.
ToolSucceedsKeepingSummary(after) ==
  /\ turn' = ToolEnds(TRUE, Reported(turn.call, turn.before, after))
  /\ phase' = "model"
  /\ UNCHANGED <<deletion, reply>>

ToolSucceeds(after) ==
  /\ turn' = [ToolEnds(TRUE, Reported(turn.call, turn.before, after))
                EXCEPT !.summary = after]
  /\ phase' = "model"
  /\ UNCHANGED <<deletion, reply>>

\* No change: _refresh_unchanged_state returns the session as it is by now.
ToolTouches ==
  /\ phase = "save"
  /\ turn.next = turn.read
  /\ IF session = None
     THEN ToolFails
     ELSE ToolSucceeds(session) /\ UNCHANGED <<session, history>>

\* The repository refuses a session that was written since it was read, under
\* one acquisition of the store's lock ...
Current(read) == session # None /\ session.version = read.version

ToolChecks ==
  /\ phase = "save"
  /\ turn.next # turn.read
  /\ IF ~Current(turn.read)
     THEN ToolFails
     ELSE phase' = "write" /\ Quiet /\ UNCHANGED <<turn, reply, history>>

\* ... and writes under the next one.
Written(next) == [next EXCEPT !.version = session.version + 1]

ToolWrites ==
  /\ phase = "write"
  /\ IF session = None
     THEN ToolFails
     ELSE /\ session' = Written(turn.next)
          /\ ToolSucceeds(session')
          /\ history' = [history EXCEPT !.writes = @ + 1]

-----------------------------------------------------------------------------
(* The turn ends.                                                           *)

\* The summary read when the model has no more calls; no limit applies to it.
FinalSummary ==
  /\ phase = "final"
  /\ Quiet
  /\ turn' = Executed(session # None, FALSE)
  /\ reply' =
       IF session = None THEN Interrupted("SESSION_NOT_AVAILABLE")
       ELSE Result(~turn.failed, turn.changed,
                   turn.changed /\ (turn.failed \/ turn.unresolved), session,
                   IF turn.failed THEN "TOOL_ERROR" ELSE None)
  /\ phase' = IF turn.agent \in Direct THEN "answered" ELSE "respond"
  /\ UNCHANGED history

\* handle_message reads the session once more for the summary of conditions; a
\* session that is gone is an error response, from either read.
Respond ==
  /\ phase = "respond"
  /\ phase' = "answered"
  /\ reply' = IF reply.error = "SESSION_NOT_AVAILABLE" \/ session = None
              THEN None ELSE [reply EXCEPT !.conditions = session.conditions]
  /\ Quiet
  /\ UNCHANGED <<turn, history>>

-----------------------------------------------------------------------------
(* Deleting one condition.                                                  *)

NoDeletion == [phase |-> "idle", of |-> None, patch |-> None, base |-> None,
               read |-> None, next |-> None]

\* Wrong variant: the whole list goes with the value.
DeletePatchOfList(of, c) == [set |-> <<>>, clear |-> {of.key}]

\* _build_hard_delete_patch, _build_soft_delete_patch
DeletePatch(of, c) ==
  IF of.value = None \/ of.key \notin Lists
  THEN [set |-> <<>>, clear |-> {of.key}]
  ELSE [set |-> One(of.key, c[of.scope][of.key] \ {of.value}), clear |-> {}]

DeletionEnds == deletion' = [NoDeletion EXCEPT !.phase = "done"]

DeleteReads(of) ==
  /\ deletion.phase = "idle"
  /\ of \in Deletions
  /\ session # None
  /\ deletion' = [NoDeletion EXCEPT !.phase = "patched", !.of = of,
                    !.patch = DeletePatch(of, session.conditions),
                    !.base = session]
  /\ UNCHANGED <<session, phase, turn, reply, history>>

\* update_preferences with that patch.  A session that is gone and a patch that
\* is refused end the request.
DeletePatches ==
  /\ deletion.phase = "patched"
  /\ LET scoped(scope) ==
           IF deletion.of.scope = scope THEN deletion.patch ELSE NoPatch
         outcomes == IF session = None THEN {}
                     ELSE Patched(session.conditions, scoped("hard"), scoped("soft"))
     IN \/ outcomes = {} /\ DeletionEnds
        \/ \E c \in outcomes :
             deletion' = [deletion EXCEPT !.phase = "save", !.read = session,
                            !.next = [session EXCEPT !.conditions = c]]
  /\ UNCHANGED <<session, phase, turn, reply, history>>

\* A deletion that changes nothing refreshes the session; one that finds the
\* session gone or written since is an error response.
DeleteChecks ==
  /\ deletion.phase = "save"
  /\ IF deletion.next = deletion.read \/ ~Current(deletion.read)
     THEN DeletionEnds
     ELSE deletion' = [deletion EXCEPT !.phase = "write"]
  /\ UNCHANGED <<session, phase, turn, reply, history>>

DeleteWrites ==
  /\ deletion.phase = "write"
  /\ session' = IF session = None THEN None ELSE Written(deletion.next)
  /\ DeletionEnds
  /\ history' = [history EXCEPT !.disturbed = @ \/ session # None]
  /\ UNCHANGED <<phase, turn, reply>>

-----------------------------------------------------------------------------

\* The session's time to live runs out.
Expire ==
  /\ session # None
  /\ session' = None
  /\ UNCHANGED <<phase, turn, reply, deletion, history>>

Init ==
  /\ session \in Starts
  /\ phase = "idle"
  /\ turn = NoTurn
  /\ reply = None
  /\ deletion = NoDeletion
  /\ history = [start |-> None, writes |-> 0, disturbed |-> FALSE]

Turn ==
  \/ FirstSummary
  \/ ModelFails \/ ModelStops \/ ModelMisuses
  \/ \E call \in Calls : SummaryTool(call) \/ LookupTool(call) \/ ToolReadsBefore(call)
  \/ ToolCommands \/ ToolTouches \/ ToolChecks \/ ToolWrites
  \/ FinalSummary \/ Respond

Next ==
  \/ \E message \in Messages : Receive(message)
  \/ \E agent \in Direct : ReceiveDirect(agent)
  \/ Turn
  \/ \E of \in Deletions : DeleteReads(of)
  \/ DeletePatches \/ DeleteChecks \/ DeleteWrites
  \/ Expire

\* A request that was received is run by a thread until it is answered: every
\* call it makes returns or raises.
Spec == Init /\ [][Next]_vars /\ WF_vars(Turn)

=============================================================================

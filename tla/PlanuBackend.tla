---------------------------- MODULE PlanuBackend ----------------------------
(***************************************************************************)
(* The request handlers of one planning session, run by several threads.   *)
(*                                                                         *)
(* FastAPI runs its plain handlers in a thread pool and its async handlers *)
(* on the event loop, where they await language-model and file parsing.    *)
(* Whatever runs them, a handler is a sequence of calls into objects that  *)
(* lock for one call at a time: the session store and the cache of recent  *)
(* candidates.  Each such call is one step here, with the handler's        *)
(* computing between two calls folded into one of them, and the steps of   *)
(* different threads interleave.                                           *)
(*                                                                         *)
(* pc[t] names the next call of the handler thread t runs, work[t] the     *)
(* values it holds: a snapshot it read, or a result it is about to write.  *)
(* A request that a handler rejects at its first read changes nothing and  *)
(* is not an action.                                                       *)
(***************************************************************************)
EXTENDS SessionStore, FiniteSets

CONSTANTS
  Threads,            \* threads that can serve requests of the session
  Requests,           \* kinds of request the clients send
  MaxRequests,        \* bound: requests served in a behaviour
  GeneralCatalog      \* the id "<session>:general"

ASSUME BackendConstants ==
  /\ GeneralCatalog \in ElectiveCatalogs
  /\ MaxRequests \in Nat

VARIABLES
  recent,             \* RecentTimetableCandidateRepository: the last batch
  pc, work,           \* of each thread
  served              \* requests begun so far

threadVars == <<pc, work>>
vars == <<session, issued, recent, pc, work, served>>

-----------------------------------------------------------------------------
(* What handlers carry between two calls.                                   *)

\* The PlanuSessionState a SessionService command reads and writes back.
PlanuSessionState ==
  [department                : Nullable(Departments),
   major_catalog_id          : Nullable(MajorCatalogs),
   elective_catalog_id       : Nullable(ElectiveCatalogs),
   selected_major_course_ids : SUBSET Courses,
   hard_constraints          : HardConstraints,
   soft_preferences          : SoftPreferences,
   selected_timetable        : Nullable(SelectedTimetable),
   selected_timetable_status : Nullable(SelectedTimetableStatus),
   confirmed                 : BOOLEAN,
   confirmed_version         : Nullable(Nat),
   version                   : Nat]

\* _to_state
ToState(d) ==
  [department                |-> d.department,
   major_catalog_id          |-> d.major_catalog_id,
   elective_catalog_id       |-> d.elective_catalog_id,
   selected_major_course_ids |-> d.selected_major_course_ids,
   hard_constraints          |-> d.hard_constraints,
   soft_preferences          |-> d.soft_preferences,
   selected_timetable        |-> d.selected_timetable,
   selected_timetable_status |-> d.selected_timetable_status,
   confirmed                 |-> d.confirmed,
   confirmed_version         |-> d.confirmed_version,
   version                   |-> d.version]

\* Generation inputs with the revision they were stamped with.
Snapshot == [inputs : GenerationInputs, revision : Nat]

\* A cached batch of candidates and the generator that made it.
CandidateBatch ==
  [inputs : GenerationInputs, added : SUBSET SUBSET Electives,
   revision : Nat, source : Generators]

SnapshotOf(d) == [inputs |-> InputsOf(d), revision |-> d.generation_revision]

PoolCourses(inputs) ==
  IF inputs.general_pool = None THEN {} ELSE inputs.general_pool.courses

\* The majors a candidate keeps: the legacy generator starts from the fixed
\* courses, the agent's request from the selected ids.
KeptMajors(batch) ==
  IF batch.source = "legacy" THEN batch.inputs.fixed_courses
  ELSE batch.inputs.selected_major_course_ids

Candidates(batch) ==
  {[fixed |-> KeptMajors(batch), added |-> a, source |-> batch.source,
    basis |-> batch.inputs] : a \in batch.added}

\* A candidate id is a digest of its section names, which the agent's generator
\* prefixes with their catalogs.
SameCombination(c, e) ==
  /\ c.source = e.source
  /\ c.fixed = e.fixed
  /\ c.added = e.added
  /\ c.source = "agent" =>
       /\ c.basis.major_catalog_id = e.basis.major_catalog_id
       /\ c.basis.elective_catalog_id = e.basis.elective_catalog_id

-----------------------------------------------------------------------------
(* Thread control.                                                          *)

Goto(t, label, value) ==
  /\ pc' = [pc EXCEPT ![t] = label]
  /\ work' = [work EXCEPT ![t] = value]

Done(t) == Goto(t, "idle", None)

\* A request arrives and its handler makes its first read of the store.
Begin(t, request) ==
  /\ pc[t] = "idle"
  /\ request \in Requests
  /\ served < MaxRequests
  /\ served' = served + 1
  /\ Live
  /\ UNCHANGED storeVars

At(t, label) == pc[t] = label /\ UNCHANGED served

-----------------------------------------------------------------------------
(* Major selection.                                                         *)

\* create_preview, create_manual_preview: the session is read, the prompt is
\* parsed and matched, and only then is the preview saved.
PreviewRead(t) ==
  /\ Begin(t, "preview")
  /\ Goto(t, "preview.save", None)
  /\ UNCHANGED recent

PreviewSave(t) ==
  /\ At(t, "preview.save")
  /\ \E preview \in Preview : SavePreview(preview)
  /\ Done(t)
  /\ UNCHANGED recent

\* Wrong variant: a preview with warnings can be confirmed.
ConfirmableWithWarnings(preview) == preview # None /\ preview.matched # {}

\* _confirmable_course_ids
Confirmable(preview) == preview # None /\ preview.matched # {} /\ preview.clean

\* _confirm without allow_reconfirm, up to the call of the store.
ConfirmRead(t) ==
  /\ Begin(t, "confirm")
  /\ session.fixed_courses = {}
  /\ session.session_stage = "major_preview_created"
  /\ Confirmable(session.latest_major_preview)
  /\ Goto(t, "confirm.store", session.latest_major_preview)
  /\ UNCHANGED recent

ConfirmStore(t) ==
  /\ At(t, "confirm.store")
  /\ Live
  /\ IF ConfirmAccepted(session, work[t])
     THEN ConfirmMajorPreview(work[t])
     ELSE UNCHANGED storeVars
  /\ Done(t)
  /\ UNCHANGED recent

\* _confirm with allow_reconfirm.
ReconfirmRead(t) ==
  /\ Begin(t, "reconfirm")
  /\ session.fixed_courses # {}
  /\ Confirmable(session.pending_major_preview)
  /\ Goto(t, "reconfirm.store", session.pending_major_preview)
  /\ UNCHANGED recent

ReconfirmStore(t) ==
  /\ At(t, "reconfirm.store")
  /\ Live
  /\ IF ReconfirmAccepted(session, work[t])
     THEN ReconfirmMajorPreview(work[t])
     ELSE UNCHANGED storeVars
  /\ Done(t)
  /\ UNCHANGED recent

-----------------------------------------------------------------------------
(* General-course preparation.                                              *)

PoolArea(d) == IF d.general_pool = None THEN None ELSE d.general_pool.area

\* build_pools: which courses survive depends on data outside the session.
BuiltPools(d, area) ==
  {[department |-> d.department, area |-> area, courses |-> cs] : cs \in SUBSET Electives}

\* prepare_for_session
PrepareRead(t) ==
  /\ Begin(t, "prepare")
  /\ session.session_stage \in
       {"major_confirmed", "general_ready", "candidates_generated", "ranking_completed"}
  /\ \E area \in Nullable(Areas), upload \in BOOLEAN :
       /\ upload \/ session.session_stage # "general_ready" \/ PoolArea(session) # area
       /\ \E pool \in BuiltPools(session, area) : Goto(t, "pool.store", pool)
  /\ UNCHANGED recent

\* prepare_default_for_session, which every chat message runs first
ChatRead(t) ==
  /\ Begin(t, "chat")
  /\ IF PoolCourses(InputsOf(session)) # {}
     THEN Goto(t, "register", None)
     ELSE \E pool \in BuiltPools(session, None) : Goto(t, "pool.store", pool)
  /\ UNCHANGED recent

PoolStore(t) ==
  /\ At(t, "pool.store")
  /\ UpdateGeneralCoursePool(work[t])
  /\ Goto(t, "register", None)
  /\ UNCHANGED recent

-----------------------------------------------------------------------------
(* SessionService commands: read the state, compute the next one, and write *)
(* it back if anything differs.                                             *)

InputsDiffer(s, n) ==
  \/ n.department # s.department
  \/ n.major_catalog_id # s.major_catalog_id
  \/ n.elective_catalog_id # s.elective_catalog_id
  \/ n.selected_major_course_ids # s.selected_major_course_ids
  \/ n.hard_constraints # s.hard_constraints
  \/ n.soft_preferences # s.soft_preferences

\* Wrong variant: the selected timetable keeps its status.
PreparedKeepingStatus(s, n) ==
  IF InputsDiffer(s, n) THEN [n EXCEPT !.confirmed = FALSE, !.confirmed_version = None] ELSE n

\* _save_changed_state before it calls the repository: a changed input makes
\* the selected timetable stale and withdraws the confirmation.
Prepared(s, n) ==
  IF InputsDiffer(s, n)
  THEN [n EXCEPT !.selected_timetable_status =
                    IF s.selected_timetable = None THEN @ ELSE "stale",
                 !.confirmed = FALSE,
                 !.confirmed_version = None]
  ELSE n

\* The rest of a command that read state s and wants state n.
Command(t, s, n) ==
  IF n = s THEN Goto(t, "service.touch", None)
  ELSE Goto(t, "service.check", Prepared(s, n))

\* What update_profile leaves in the three fields; None means that the field is
\* in clear_fields.
SessionProfileUpdate ==
  [department          : Nullable(Departments),
   major_catalog_id    : Nullable(MajorCatalogs),
   elective_catalog_id : Nullable(ElectiveCatalogs)]

ProfileChanges(s) ==
  {[s EXCEPT !.department = u.department,
             !.major_catalog_id = u.major_catalog_id,
             !.elective_catalog_id = u.elective_catalog_id] : u \in SessionProfileUpdate}

MajorChanges(s) == {[s EXCEPT !.selected_major_course_ids = ids] : ids \in SUBSET Courses}

PreferenceChanges(s) ==
  {[s EXCEPT !.hard_constraints = p.hard, !.soft_preferences = p.soft] :
     p \in [hard : HardConstraints, soft : SoftPreferences]}

ConditionsConfirmed(s) == [s EXCEPT !.confirmed = TRUE, !.confirmed_version = s.version]

SelectionCleared(s) ==
  [s EXCEPT !.selected_timetable = None, !.selected_timetable_status = None]

CandidateSelected(s, candidate) ==
  IF s.selected_timetable # None /\ SameCombination(s.selected_timetable, candidate)
  THEN s
  ELSE [s EXCEPT !.selected_timetable = candidate, !.selected_timetable_status = "current"]

\* The commands a chat turn or a conditions route may issue.
Commands(request, s) ==
  CASE request = "profile"            -> ProfileChanges(s)
    [] request = "majors"             -> MajorChanges(s)
    [] request = "preferences"        -> PreferenceChanges(s)
    [] request = "confirm_conditions" -> {ConditionsConfirmed(s)}
    [] request = "clear_selection"    -> {SelectionCleared(s)}

ServiceRead(t) ==
  \E request \in {"profile", "majors", "preferences", "confirm_conditions", "clear_selection"} :
    /\ Begin(t, request)
    /\ \E n \in Commands(request, ToState(session)) : Command(t, ToState(session), n)
    /\ UNCHANGED recent

\* register_elective_catalog, at the end of both preparations
RegisterRead(t) ==
  /\ At(t, "register")
  /\ Live
  /\ LET s == ToState(session)
     IN  Command(t, s, [s EXCEPT !.elective_catalog_id = GeneralCatalog])
  /\ UNCHANGED <<storeVars, recent>>

ServiceTouch(t) ==
  /\ At(t, "service.touch")
  /\ Touch
  /\ Done(t)
  /\ UNCHANGED recent

\* SessionStoreRepository.save compares versions under one acquisition of the
\* store's lock ...
ServiceCheck(t) ==
  /\ At(t, "service.check")
  /\ Live
  /\ session.version = work[t].version
  /\ Goto(t, "service.update", work[t])
  /\ UNCHANGED <<storeVars, recent>>

VersionConflict(t) ==
  /\ At(t, "service.check")
  /\ Live
  /\ session.version # work[t].version
  /\ Done(t)
  /\ UNCHANGED <<storeVars, recent>>

\* ... and writes under the next one.
ServiceUpdate(t) ==
  /\ At(t, "service.update")
  /\ Update(work[t])
  /\ Done(t)
  /\ UNCHANGED recent

-----------------------------------------------------------------------------
(* Generation and ranking.                                                  *)

\* generate_for_session
GenerateRead(t) ==
  /\ Begin(t, "generate")
  /\ session.session_stage \in {"general_ready", "candidates_generated", "ranking_completed"}
  /\ session.fixed_courses # {}
  /\ session.confirmed_major_credits = session.fixed_courses
  /\ Goto(t, "generate.cache", SnapshotOf(session))
  /\ UNCHANGED recent

GenerateCache(t) ==
  /\ At(t, "generate.cache")
  /\ \E added \in SUBSET SUBSET PoolCourses(work[t].inputs) :
       /\ recent' = IF added = {} THEN None
                    ELSE [inputs |-> work[t].inputs, added |-> added,
                          revision |-> work[t].revision, source |-> "legacy"]
       /\ Goto(t, "generate.store", [inputs |-> work[t].inputs, added |-> added])
  /\ UNCHANGED storeVars

GenerateStore(t) ==
  /\ At(t, "generate.store")
  /\ UpdateTimetableGeneration(work[t])
  /\ Done(t)
  /\ UNCHANGED recent

\* rank_for_session
RankRead(t) ==
  /\ Begin(t, "rank")
  /\ session.session_stage \in {"candidates_generated", "ranking_completed"}
  /\ session.generated_candidates # None
  /\ session.generated_candidates.added # {}
  /\ Goto(t, "rank.store", session.generated_candidates)
  /\ UNCHANGED recent

RankStore(t) ==
  /\ At(t, "rank.store")
  /\ UpdateRankingResult(work[t])
  /\ Done(t)
  /\ UNCHANGED recent

-----------------------------------------------------------------------------
(* The agent's generation tool.  Its request was filled in from a summary   *)
(* the model read earlier in the turn.                                      *)

\* _generation_readiness; of the general catalogs only the session's own exists,
\* as long as its pool has courses.
Ready(d) ==
  /\ d.selected_major_course_ids # {}
  /\ d.elective_catalog_id # None =>
       d.elective_catalog_id = GeneralCatalog /\ PoolCourses(InputsOf(d)) # {}

AgentRead(t) ==
  /\ Begin(t, "agent_generate")
  /\ Goto(t, "agent.gate", SnapshotOf(session))
  /\ UNCHANGED recent

\* _generation_gate_failure
AgentGate(t) ==
  /\ At(t, "agent.gate")
  /\ Live
  /\ IF Ready(session) /\ session.confirmed THEN Goto(t, "agent.stamp", work[t]) ELSE Done(t)
  /\ UNCHANGED <<storeVars, recent>>

\* _attach_generation_revision reads the session once more.
AgentStamp(t) ==
  /\ At(t, "agent.stamp")
  /\ Live
  /\ Goto(t, "agent.clear", [work[t] EXCEPT !.revision = session.generation_revision])
  /\ UNCHANGED <<storeVars, recent>>

AgentClear(t) ==
  /\ At(t, "agent.clear")
  /\ recent' = None
  /\ Goto(t, "agent.save", work[t])
  /\ UNCHANGED storeVars

AgentSave(t) ==
  /\ At(t, "agent.save")
  /\ \E added \in SUBSET SUBSET PoolCourses(work[t].inputs) :
       recent' = IF added = {} THEN recent
                 ELSE [inputs |-> work[t].inputs, added |-> added,
                       revision |-> work[t].revision, source |-> "agent"]
  /\ Done(t)
  /\ UNCHANGED storeVars

-----------------------------------------------------------------------------
(* Selecting a candidate.                                                   *)

\* The tool reads the session for its revision, then the candidate ...
SelectRead(t) ==
  /\ Begin(t, "select")
  /\ Goto(t, "select.candidate", [revision |-> session.generation_revision])
  /\ UNCHANGED recent

SelectCandidate(t) ==
  /\ At(t, "select.candidate")
  /\ \/ Done(t)                   \* no such candidate, or a stale one
     \/ /\ recent # None
        /\ recent.revision = work[t].revision
        /\ \E candidate \in Candidates(recent) :
             /\ candidate.fixed \cup candidate.added # {}
             /\ Goto(t, "select.service", candidate)
  /\ UNCHANGED <<storeVars, recent>>

\* ... and the service reads the session again to store it.
SelectService(t) ==
  /\ At(t, "select.service")
  /\ Live
  /\ Command(t, ToState(session), CandidateSelected(ToState(session), work[t]))
  /\ UNCHANGED <<storeVars, recent>>

-----------------------------------------------------------------------------

StoreCalls ==
  {"preview.save", "confirm.store", "reconfirm.store", "pool.store", "register",
   "service.touch", "service.check", "service.update", "generate.store", "rank.store",
   "agent.gate", "agent.stamp", "select.service"}

\* A call on a session that is gone raises and ends the request.
SessionGone(t) ==
  /\ pc[t] \in StoreCalls
  /\ ~Live
  /\ Done(t)
  /\ UNCHANGED <<storeVars, recent, served>>

SessionExpires ==
  /\ Expire
  /\ UNCHANGED <<recent, threadVars, served>>

MajorStep(t) ==
  \/ PreviewRead(t) \/ PreviewSave(t) \/ ConfirmRead(t) \/ ConfirmStore(t)
  \/ ReconfirmRead(t) \/ ReconfirmStore(t)

GeneralStep(t) == PrepareRead(t) \/ ChatRead(t) \/ PoolStore(t) \/ RegisterRead(t)

ServiceStep(t) ==
  \/ ServiceRead(t) \/ ServiceTouch(t) \/ ServiceCheck(t) \/ VersionConflict(t)
  \/ ServiceUpdate(t)

TimetableStep(t) ==
  \/ GenerateRead(t) \/ GenerateCache(t) \/ GenerateStore(t) \/ RankRead(t) \/ RankStore(t)

AgentStep(t) == AgentRead(t) \/ AgentGate(t) \/ AgentStamp(t) \/ AgentClear(t) \/ AgentSave(t)

SelectStep(t) == SelectRead(t) \/ SelectCandidate(t) \/ SelectService(t)

Init ==
  /\ session \in {UploadedSession(d, m) : d \in Departments, m \in MajorCatalogs}
  /\ issued = {}
  /\ recent = None
  /\ pc = [t \in Threads |-> "idle"]
  /\ work = [t \in Threads |-> None]
  /\ served = 0

Next ==
  \/ SessionExpires
  \/ \E t \in Threads :
       \/ MajorStep(t) \/ GeneralStep(t) \/ ServiceStep(t) \/ TimetableStep(t)
       \/ AgentStep(t) \/ SelectStep(t) \/ SessionGone(t)

Spec == Init /\ [][Next]_vars

=============================================================================

---------------------------- MODULE SessionStore ----------------------------
(***************************************************************************)
(* The in-memory store of planning sessions                                *)
(* (src/backend/app/services/session_store.py).                            *)
(*                                                                         *)
(* Every method of the store runs under one re-entrant lock, so each is    *)
(* one atomic action here.  The store is a dictionary and every method     *)
(* touches the entry of one session id, so the module follows one entry:   *)
(* session is its SessionData record, or None once the session has         *)
(* expired.  Course records, catalogs and preferences are values that are  *)
(* only compared; a credit total is represented by the set of courses it   *)
(* was summed over, and the three time stamps are left out (expiry may     *)
(* strike at any moment).                                                  *)
(***************************************************************************)
EXTENDS Naturals

CONSTANTS
  Courses,            \* sections of the uploaded major catalog
  Departments,        \* department names
  MajorCatalogs,      \* ids a parsed major catalog can have
  ElectiveCatalogs,   \* ids a parsed general-course catalog can have
  HardConstraints,    \* values of the Hard constraint model
  SoftPreferences,    \* values of the Soft preference model
  Areas,              \* elective areas a general pool can be limited to
  Electives,          \* general courses a pool can hold
  PreviewIds,         \* the uuid4 values a run may draw
  NoHard, NoSoft,     \* the empty Hard and Soft preference models
  None                \* Python's None

ASSUME ConstantsAreSeparate ==
  /\ NoHard \in HardConstraints
  /\ NoSoft \in SoftPreferences
  /\ None \notin Departments \cup MajorCatalogs \cup ElectiveCatalogs
  /\ None \notin Areas \cup PreviewIds

VARIABLES
  session,            \* the stored SessionData, or None
  issued              \* preview ids drawn from uuid4 so far

storeVars == <<session, issued>>

Nullable(S) == S \cup {None}

SessionStage ==
  {"catalog_parsed", "major_preview_created", "major_confirmed",
   "general_ready", "candidates_generated", "ranking_completed"}

SelectedTimetableStatus == {"current", "stale", "invalid"}

\* A major preview: what was matched, and whether the matcher found nothing
\* ambiguous, unmatched or overlapping in it.
Preview == [preview_id : PreviewIds, matched : SUBSET Courses, clean : BOOLEAN]

\* A prepared general-course pool and what it was prepared for.
GeneralPool ==
  [department : Departments, area : Nullable(Areas), courses : SUBSET Electives]

\* The part of a session that timetable generation reads.
GenerationInputs ==
  [department                : Departments,
   major_catalog_id          : MajorCatalogs,
   elective_catalog_id       : Nullable(ElectiveCatalogs),
   selected_major_course_ids : SUBSET Courses,
   fixed_courses             : SUBSET Courses,
   general_pool              : Nullable(GeneralPool),
   hard_constraints          : HardConstraints,
   soft_preferences          : SoftPreferences]

\* The outcome of one generation: the sets of general courses it could add to
\* the fixed majors, with the inputs it was computed from.
CandidateList == [inputs : GenerationInputs, added : SUBSET SUBSET Electives]

\* The two timetable generators; each names the sections of a candidate its own
\* way, so no candidate id of one is ever an id of the other.
Generators == {"legacy", "agent"}

\* A chosen combination.  basis is history: the inputs it was generated from.
SelectedTimetable ==
  [fixed : SUBSET Courses, added : SUBSET Electives, source : Generators,
   basis : GenerationInputs]

SessionData ==
  [department                 : Departments,
   major_catalog_id           : MajorCatalogs,
   elective_catalog_id        : Nullable(ElectiveCatalogs),
   selected_major_course_ids  : SUBSET Courses,
   fixed_courses              : SUBSET Courses,
   confirmed_major_credits    : SUBSET Courses,
   general_pool               : Nullable(GeneralPool),
   hard_constraints           : HardConstraints,
   soft_preferences           : SoftPreferences,
   confirmed                  : BOOLEAN,   \* ..._confirmed_at is not None
   confirmed_version          : Nullable(Nat),
   generation_revision        : Nat,
   generated_candidates       : Nullable(CandidateList),
   latest_ranking_result      : Nullable(CandidateList),
   selected_timetable         : Nullable(SelectedTimetable),
   selected_timetable_status  : Nullable(SelectedTimetableStatus),
   session_stage              : SessionStage,
   confirmed_major_preview_id : Nullable(PreviewIds),
   latest_major_preview       : Nullable(Preview),
   pending_major_preview      : Nullable(Preview),
   version                    : Nat]

ASSUME NoneIsNoRecord ==
  /\ None \notin SessionData
  /\ None \notin GenerationInputs
  /\ None \notin SelectedTimetable
  /\ None \notin SelectedTimetableStatus

\* What the generation services copy out of a session record.
InputsOf(d) ==
  [department                |-> d.department,
   major_catalog_id          |-> d.major_catalog_id,
   elective_catalog_id       |-> d.elective_catalog_id,
   selected_major_course_ids |-> d.selected_major_course_ids,
   fixed_courses             |-> d.fixed_courses,
   general_pool              |-> d.general_pool,
   hard_constraints          |-> d.hard_constraints,
   soft_preferences          |-> d.soft_preferences]

\* The session a successful major-catalog upload leaves behind, after five writes
\* of the new record: the department, the major courses and their catalog id are
\* each a change of a generation input.
UploadedSession(department, catalog) ==
  [department                 |-> department,
   major_catalog_id           |-> catalog,
   elective_catalog_id        |-> None,
   selected_major_course_ids  |-> {},
   fixed_courses              |-> {},
   confirmed_major_credits    |-> {},
   general_pool               |-> None,
   hard_constraints           |-> NoHard,
   soft_preferences           |-> NoSoft,
   confirmed                  |-> FALSE,
   confirmed_version          |-> None,
   generation_revision        |-> 4,
   generated_candidates       |-> None,
   latest_ranking_result      |-> None,
   selected_timetable         |-> None,
   selected_timetable_status  |-> None,
   session_stage              |-> "catalog_parsed",
   confirmed_major_preview_id |-> None,
   latest_major_preview       |-> None,
   pending_major_preview      |-> None,
   version                    |-> 5]

-----------------------------------------------------------------------------
(* Wrong variants of the transformations below, each with one plausible     *)
(* mistake.  No action uses them: substituted for the right definition they *)
(* show that a property notices the mistake.                                *)

\* A preview replaces the confirmed one instead of waiting beside it.
PreviewSavedAsLatest(d, preview) ==
  [d EXCEPT !.latest_major_preview = preview,
            !.session_stage = "major_preview_created",
            !.version = @ + 1]

\* The stale-preview check is missing: a preview of the same courses will do.
ConfirmAcceptedStale(d, preview) ==
  /\ d.fixed_courses = {}
  /\ d.session_stage = "major_preview_created"
  /\ d.latest_major_preview # None
  /\ d.latest_major_preview.matched = preview.matched

\* Confirming majors does not bump the generation revision.
MajorConfirmedUnrevised(d, preview) ==
  [d EXCEPT !.fixed_courses = preview.matched,
            !.selected_major_course_ids = preview.matched,
            !.confirmed_major_credits = preview.matched,
            !.session_stage = "major_confirmed",
            !.confirmed_major_preview_id = preview.preview_id,
            !.latest_major_preview = preview,
            !.version = @ + 1]

\* Neither does confirming others.
MajorReconfirmedUnrevised(d, preview) ==
  [MajorConfirmedUnrevised(d, preview) EXCEPT
            !.pending_major_preview = None,
            !.general_pool = None,
            !.generated_candidates = None,
            !.latest_ranking_result = None]

\* An explicit None overwrites the stored value.
SuppliedOrNone(argument, stored) == argument

\* Only a first value counts as a change.
ClearedByFirstValue(argument, stored) == IF stored = None /\ argument # None THEN 1 ELSE 0

\* The version is counted on from the caller's copy.
StateWrittenAtCallersVersion(d, s) ==
  [d EXCEPT
     !.selected_major_course_ids = s.selected_major_course_ids,
     !.hard_constraints = s.hard_constraints,
     !.soft_preferences = s.soft_preferences,
     !.generation_revision = @ + 1,
     !.version = s.version + 1]

\* A new pool keeps the revision ...
PoolWrittenUnrevised(d, pool) ==
  [d EXCEPT !.general_pool = pool,
            !.confirmed = FALSE,
            !.confirmed_version = None,
            !.generated_candidates = None,
            !.latest_ranking_result = None,
            !.session_stage = "general_ready",
            !.version = @ + 1]

\* ... or the confirmation of the conditions.
PoolWrittenStillConfirmed(d, pool) ==
  [d EXCEPT !.general_pool = pool,
            !.generation_revision = @ + 1,
            !.generated_candidates = None,
            !.latest_ranking_result = None,
            !.session_stage = "general_ready",
            !.version = @ + 1]

\* A new generation keeps the ranking of the last one.
GenerationWrittenKeepingRanking(d, list) ==
  [d EXCEPT !.generated_candidates = list,
            !.session_stage = "candidates_generated",
            !.version = @ + 1]

-----------------------------------------------------------------------------
(* Record transformations: what each method writes once its checks pass.    *)

\* save_major_preview
PreviewSaved(d, preview) ==
  IF d.fixed_courses # {}
  THEN [d EXCEPT !.pending_major_preview = preview,
                 !.version = @ + 1]
  ELSE [d EXCEPT !.latest_major_preview = preview,
                 !.session_stage = "major_preview_created",
                 !.version = @ + 1]

\* The checks of confirm_major_preview that lead to its assignments; every
\* other path raises or only renews the expiry.  The caller passes a preview
\* it read earlier.
ConfirmAccepted(d, preview) ==
  /\ d.fixed_courses = {}
  /\ d.session_stage = "major_preview_created"
  /\ d.latest_major_preview # None
  /\ d.latest_major_preview.preview_id = preview.preview_id
  /\ d.latest_major_preview.matched = preview.matched

MajorConfirmed(d, preview) ==
  [d EXCEPT !.fixed_courses = preview.matched,
            !.selected_major_course_ids = preview.matched,
            !.confirmed_major_credits = preview.matched,
            !.session_stage = "major_confirmed",
            !.confirmed_major_preview_id = preview.preview_id,
            !.latest_major_preview = preview,
            !.generation_revision = @ + 1,
            !.version = @ + 1]

\* The idempotent path of reconfirm_major_preview.
ReconfirmRepeated(d, preview) ==
  /\ d.confirmed_major_preview_id = preview.preview_id
  /\ d.fixed_courses # {}
  /\ d.session_stage = "major_confirmed"
  /\ d.pending_major_preview = None
  /\ \/ d.latest_major_preview = None
     \/ d.latest_major_preview.preview_id = preview.preview_id

ReconfirmAccepted(d, preview) ==
  /\ ~ReconfirmRepeated(d, preview)
  /\ d.pending_major_preview # None
  /\ d.pending_major_preview.preview_id = preview.preview_id
  /\ d.pending_major_preview.matched = preview.matched

MajorReconfirmed(d, preview) ==
  [d EXCEPT !.fixed_courses = preview.matched,
            !.selected_major_course_ids = preview.matched,
            !.confirmed_major_credits = preview.matched,
            !.confirmed_major_preview_id = preview.preview_id,
            !.latest_major_preview = preview,
            !.pending_major_preview = None,
            !.session_stage = "major_confirmed",
            !.general_pool = None,
            !.generated_candidates = None,
            !.latest_ranking_result = None,
            !.generation_revision = @ + 1,
            !.version = @ + 1]

\* update() reads an argument that is None as "leave unchanged".
Supplied(argument, stored) == IF argument = None THEN stored ELSE argument

\* _clear_generation_preferences_confirmation runs once per differing field.
ClearedBy(argument, stored) == IF Supplied(argument, stored) = stored THEN 0 ELSE 1

\* update() as SessionStoreRepository.save calls it, with a whole state s.
StateWritten(d, s) ==
  [d EXCEPT
     !.department = Supplied(s.department, @),
     !.major_catalog_id = Supplied(s.major_catalog_id, @),
     !.elective_catalog_id = Supplied(s.elective_catalog_id, @),
     !.selected_major_course_ids = Supplied(s.selected_major_course_ids, @),
     !.hard_constraints = Supplied(s.hard_constraints, @),
     !.soft_preferences = Supplied(s.soft_preferences, @),
     !.generation_revision =
        @ + ClearedBy(s.department, d.department)
          + ClearedBy(s.major_catalog_id, d.major_catalog_id)
          + ClearedBy(s.elective_catalog_id, d.elective_catalog_id)
          + ClearedBy(s.selected_major_course_ids, d.selected_major_course_ids)
          + ClearedBy(s.hard_constraints, d.hard_constraints)
          + ClearedBy(s.soft_preferences, d.soft_preferences),
     !.confirmed = s.confirmed,
     !.confirmed_version = IF s.confirmed THEN s.confirmed_version ELSE None,
     !.selected_timetable = s.selected_timetable,
     !.selected_timetable_status =
        IF s.selected_timetable_status # None THEN s.selected_timetable_status
        ELSE IF s.selected_timetable = None THEN None ELSE @,
     !.version = @ + 1]

\* update() with time stamps only, as SessionStoreRepository.touch calls it.
Touched(d) == [d EXCEPT !.version = @ + 1]

\* update_general_course_pool
PoolWritten(d, pool) ==
  [d EXCEPT !.general_pool = pool,
            !.confirmed = FALSE,
            !.confirmed_version = None,
            !.generation_revision = @ + 1,
            !.generated_candidates = None,
            !.latest_ranking_result = None,
            !.session_stage = "general_ready",
            !.version = @ + 1]

\* update_timetable_generation
GenerationWritten(d, list) ==
  [d EXCEPT !.generated_candidates = list,
            !.latest_ranking_result = None,
            !.session_stage = "candidates_generated",
            !.version = @ + 1]

\* update_ranking_result
RankingWritten(d, list) ==
  [d EXCEPT !.latest_ranking_result = list,
            !.session_stage = "ranking_completed",
            !.version = @ + 1]

-----------------------------------------------------------------------------
(* The methods.  _get_live_locked raises for a session that is gone.        *)

Live == session # None

SavePreview(preview) ==
  /\ Live
  /\ preview.preview_id \notin issued
  /\ issued' = issued \cup {preview.preview_id}
  /\ session' = PreviewSaved(session, preview)

ConfirmMajorPreview(preview) ==
  /\ Live
  /\ ConfirmAccepted(session, preview)
  /\ session' = MajorConfirmed(session, preview)
  /\ UNCHANGED issued

ReconfirmMajorPreview(preview) ==
  /\ Live
  /\ ReconfirmAccepted(session, preview)
  /\ session' = MajorReconfirmed(session, preview)
  /\ UNCHANGED issued

Update(state) ==
  /\ Live
  /\ session' = StateWritten(session, state)
  /\ UNCHANGED issued

Touch ==
  /\ Live
  /\ session' = Touched(session)
  /\ UNCHANGED issued

UpdateGeneralCoursePool(pool) ==
  /\ Live
  /\ session' = PoolWritten(session, pool)
  /\ UNCHANGED issued

UpdateTimetableGeneration(list) ==
  /\ Live
  /\ session' = GenerationWritten(session, list)
  /\ UNCHANGED issued

UpdateRankingResult(list) ==
  /\ Live
  /\ session' = RankingWritten(session, list)
  /\ UNCHANGED issued

\* The TTL runs out; the entry is dropped by whichever call notices it.
Expire ==
  /\ Live
  /\ session' = None
  /\ UNCHANGED issued

=============================================================================

---------------------------- MODULE PlanuProofs ----------------------------
(***************************************************************************)
(* Theorems about the request handlers of PlanuBackend, for any number of  *)
(* threads, requests, courses, departments, catalogs and preferences.      *)
(*                                                                         *)
(* Facts about the record transformations of SessionStore come first: what *)
(* each returns is again a session record, and each advances the version   *)
(* and, with the inputs, the revision.  Then type correctness; from it     *)
(* follows that every step that touches a live session advances it, and    *)
(* from that what the project says about version and generation_revision.  *)
(***************************************************************************)
EXTENDS PlanuCorrectness, TLAPS

\* What a write may do to a session record d: the version grows, and the
\* generation revision grows unless the generation inputs stay as they are.
Advances(d, e) ==
  /\ e.version > d.version
  /\ \/ e.generation_revision > d.generation_revision
     \/ e.generation_revision = d.generation_revision /\ InputsOf(e) = InputsOf(d)

-----------------------------------------------------------------------------
(* One field at a time.                                                     *)

\* A session record stays one when a field gets a value of its type.
LEMMA FieldUpdate ==
  ASSUME NEW d \in SessionData
  PROVE
    /\ \A x \in Departments : [d EXCEPT !.department = x] \in SessionData
    /\ \A x \in MajorCatalogs : [d EXCEPT !.major_catalog_id = x] \in SessionData
    /\ \A x \in Nullable(ElectiveCatalogs) : [d EXCEPT !.elective_catalog_id = x] \in SessionData
    /\ \A x \in SUBSET Courses : [d EXCEPT !.selected_major_course_ids = x] \in SessionData
    /\ \A x \in SUBSET Courses : [d EXCEPT !.fixed_courses = x] \in SessionData
    /\ \A x \in SUBSET Courses : [d EXCEPT !.confirmed_major_credits = x] \in SessionData
    /\ \A x \in Nullable(GeneralPool) : [d EXCEPT !.general_pool = x] \in SessionData
    /\ \A x \in HardConstraints : [d EXCEPT !.hard_constraints = x] \in SessionData
    /\ \A x \in SoftPreferences : [d EXCEPT !.soft_preferences = x] \in SessionData
    /\ \A x \in BOOLEAN : [d EXCEPT !.confirmed = x] \in SessionData
    /\ \A x \in Nullable(Nat) : [d EXCEPT !.confirmed_version = x] \in SessionData
    /\ \A x \in Nat : [d EXCEPT !.generation_revision = x] \in SessionData
    /\ \A x \in Nullable(CandidateList) : [d EXCEPT !.generated_candidates = x] \in SessionData
    /\ \A x \in Nullable(CandidateList) : [d EXCEPT !.latest_ranking_result = x] \in SessionData
    /\ \A x \in Nullable(SelectedTimetable) : [d EXCEPT !.selected_timetable = x] \in SessionData
    /\ \A x \in Nullable(SelectedTimetableStatus) : [d EXCEPT !.selected_timetable_status = x] \in SessionData
    /\ \A x \in SessionStage : [d EXCEPT !.session_stage = x] \in SessionData
    /\ \A x \in Nullable(PreviewIds) : [d EXCEPT !.confirmed_major_preview_id = x] \in SessionData
    /\ \A x \in Nullable(Preview) : [d EXCEPT !.latest_major_preview = x] \in SessionData
    /\ \A x \in Nullable(Preview) : [d EXCEPT !.pending_major_preview = x] \in SessionData
    /\ \A x \in Nat : [d EXCEPT !.version = x] \in SessionData
BY SMTT(30) DEF SessionData

\* The fields of a session record have their types.
LEMMA FieldType ==
  ASSUME NEW d \in SessionData
  PROVE
    /\ d.department \in Departments
    /\ d.major_catalog_id \in MajorCatalogs
    /\ d.elective_catalog_id \in Nullable(ElectiveCatalogs)
    /\ d.selected_major_course_ids \in SUBSET Courses
    /\ d.fixed_courses \in SUBSET Courses
    /\ d.confirmed_major_credits \in SUBSET Courses
    /\ d.general_pool \in Nullable(GeneralPool)
    /\ d.hard_constraints \in HardConstraints
    /\ d.soft_preferences \in SoftPreferences
    /\ d.confirmed \in BOOLEAN
    /\ d.confirmed_version \in Nullable(Nat)
    /\ d.generation_revision \in Nat
    /\ d.generated_candidates \in Nullable(CandidateList)
    /\ d.latest_ranking_result \in Nullable(CandidateList)
    /\ d.selected_timetable \in Nullable(SelectedTimetable)
    /\ d.selected_timetable_status \in Nullable(SelectedTimetableStatus)
    /\ d.session_stage \in SessionStage
    /\ d.confirmed_major_preview_id \in Nullable(PreviewIds)
    /\ d.latest_major_preview \in Nullable(Preview)
    /\ d.pending_major_preview \in Nullable(Preview)
    /\ d.version \in Nat
BY DEF SessionData

\* None and every value of S are nullable values of S.
LEMMA NullableValues ==
  ASSUME NEW S
  PROVE  None \in Nullable(S) /\ \A x \in S : x \in Nullable(S)
BY DEF Nullable

\* The parts of a preview.
LEMMA PreviewType ==
  ASSUME NEW preview \in Preview
  PROVE  /\ preview.preview_id \in Nullable(PreviewIds)
         /\ preview.matched \in SUBSET Courses
         /\ preview \in Nullable(Preview)
BY NullableValues DEF Preview

\* InputsOf copies well-typed inputs.
LEMMA InputsOfType ==
  ASSUME NEW d \in SessionData
  PROVE  InputsOf(d) \in GenerationInputs
BY FieldType DEF InputsOf, GenerationInputs

\* Counters count on.
LEMMA CountersType ==
  ASSUME NEW d \in SessionData
  PROVE  d.generation_revision + 1 \in Nat /\ d.version + 1 \in Nat
BY FieldType

-----------------------------------------------------------------------------
(* The transformations.                                                     *)

\* An uploaded session is a session.
LEMMA UploadedSessionType ==
  ASSUME NEW department \in Departments, NEW catalog \in MajorCatalogs
  PROVE  UploadedSession(department, catalog) \in SessionData
BY ConstantsAreSeparate DEF UploadedSession, SessionData, Nullable, SessionStage

\* save_major_preview
LEMMA PreviewSavedCorrect ==
  ASSUME NEW d \in SessionData, NEW preview \in Preview
  PROVE  PreviewSaved(d, preview) \in SessionData /\ Advances(d, PreviewSaved(d, preview))
<1>1. "major_preview_created" \in SessionStage
  BY DEF SessionStage
<1>2. PreviewSaved(d, preview) \in SessionData
  BY <1>1, PreviewType, CountersType, FieldUpdate DEF PreviewSaved
<1>3. Advances(d, PreviewSaved(d, preview))
  BY FieldType DEF PreviewSaved, Advances, InputsOf, SessionData
<1> QED
  BY <1>2, <1>3

\* confirm_major_preview
LEMMA MajorConfirmedCorrect ==
  ASSUME NEW d \in SessionData, NEW preview \in Preview
  PROVE  MajorConfirmed(d, preview) \in SessionData /\ Advances(d, MajorConfirmed(d, preview))
<1>1. "major_confirmed" \in SessionStage
  BY DEF SessionStage
<1>2. MajorConfirmed(d, preview) \in SessionData
  BY <1>1, PreviewType, CountersType, FieldUpdate DEF MajorConfirmed
<1>3. Advances(d, MajorConfirmed(d, preview))
  BY FieldType DEF MajorConfirmed, Advances, SessionData
<1> QED
  BY <1>2, <1>3

\* reconfirm_major_preview
LEMMA MajorReconfirmedCorrect ==
  ASSUME NEW d \in SessionData, NEW preview \in Preview
  PROVE  /\ MajorReconfirmed(d, preview) \in SessionData
         /\ Advances(d, MajorReconfirmed(d, preview))
<1>1. "major_confirmed" \in SessionStage
  BY DEF SessionStage
<1>2. MajorReconfirmed(d, preview) \in SessionData
  <2> DEFINE e == [d EXCEPT !.fixed_courses = preview.matched,
                            !.selected_major_course_ids = preview.matched,
                            !.confirmed_major_credits = preview.matched,
                            !.confirmed_major_preview_id = preview.preview_id,
                            !.latest_major_preview = preview,
                            !.pending_major_preview = None]
  <2>1. e \in SessionData
    BY PreviewType, NullableValues, FieldUpdate
  <2>2. /\ e.generation_revision = d.generation_revision
        /\ e.version = d.version
    BY DEF SessionData
  <2> DEFINE r == [e EXCEPT !.session_stage = "major_confirmed",
                            !.general_pool = None,
                            !.generated_candidates = None,
                            !.latest_ranking_result = None,
                            !.generation_revision = @ + 1,
                            !.version = @ + 1]
  <2>3. MajorReconfirmed(d, preview) = r
    BY <2>2 DEF MajorReconfirmed
  <2>4. /\ None \in Nullable(GeneralPool)
        /\ None \in Nullable(CandidateList)
    BY NullableValues
  <2>5. r \in SessionData
    <3> HIDE DEF e
    <3> QED
      BY <1>1, <2>1, <2>4, CountersType, FieldUpdate
  <2> QED
    BY <2>3, <2>5
<1>3. Advances(d, MajorReconfirmed(d, preview))
  BY FieldType DEF MajorReconfirmed, Advances, SessionData
<1> QED
  BY <1>2, <1>3

\* touch
LEMMA TouchedCorrect ==
  ASSUME NEW d \in SessionData
  PROVE  Touched(d) \in SessionData /\ Advances(d, Touched(d))
<1>1. Touched(d) \in SessionData
  BY CountersType, FieldUpdate DEF Touched
<1>2. Advances(d, Touched(d))
  BY FieldType DEF Touched, Advances, InputsOf, SessionData
<1> QED
  BY <1>1, <1>2

\* update_general_course_pool
LEMMA PoolWrittenCorrect ==
  ASSUME NEW d \in SessionData, NEW pool \in GeneralPool
  PROVE  PoolWritten(d, pool) \in SessionData /\ Advances(d, PoolWritten(d, pool))
<1>1. FALSE \in BOOLEAN /\ "general_ready" \in SessionStage
  BY DEF SessionStage
<1>2. PoolWritten(d, pool) \in SessionData
  BY <1>1, CountersType, NullableValues, FieldUpdate DEF PoolWritten
<1>3. Advances(d, PoolWritten(d, pool))
  BY FieldType DEF PoolWritten, Advances, SessionData
<1> QED
  BY <1>2, <1>3

\* update_timetable_generation
LEMMA GenerationWrittenCorrect ==
  ASSUME NEW d \in SessionData, NEW list \in CandidateList
  PROVE  GenerationWritten(d, list) \in SessionData /\ Advances(d, GenerationWritten(d, list))
<1>1. "candidates_generated" \in SessionStage
  BY DEF SessionStage
<1>2. GenerationWritten(d, list) \in SessionData
  BY <1>1, CountersType, NullableValues, FieldUpdate DEF GenerationWritten
<1>3. Advances(d, GenerationWritten(d, list))
  BY FieldType DEF GenerationWritten, Advances, InputsOf, SessionData
<1> QED
  BY <1>2, <1>3

\* update_ranking_result
LEMMA RankingWrittenCorrect ==
  ASSUME NEW d \in SessionData, NEW list \in CandidateList
  PROVE  RankingWritten(d, list) \in SessionData /\ Advances(d, RankingWritten(d, list))
<1>1. "ranking_completed" \in SessionStage
  BY DEF SessionStage
<1>2. RankingWritten(d, list) \in SessionData
  BY <1>1, CountersType, NullableValues, FieldUpdate DEF RankingWritten
<1>3. Advances(d, RankingWritten(d, list))
  BY FieldType DEF RankingWritten, Advances, InputsOf, SessionData
<1> QED
  BY <1>2, <1>3

-----------------------------------------------------------------------------
(* What a SessionService command reads and writes.                          *)

\* A command's state stays one when a field gets a value of its type.
LEMMA StateUpdate ==
  ASSUME NEW d \in PlanuSessionState
  PROVE
    /\ \A x \in Nullable(Departments) : [d EXCEPT !.department = x] \in PlanuSessionState
    /\ \A x \in Nullable(MajorCatalogs) : [d EXCEPT !.major_catalog_id = x] \in PlanuSessionState
    /\ \A x \in Nullable(ElectiveCatalogs) : [d EXCEPT !.elective_catalog_id = x] \in PlanuSessionState
    /\ \A x \in SUBSET Courses : [d EXCEPT !.selected_major_course_ids = x] \in PlanuSessionState
    /\ \A x \in HardConstraints : [d EXCEPT !.hard_constraints = x] \in PlanuSessionState
    /\ \A x \in SoftPreferences : [d EXCEPT !.soft_preferences = x] \in PlanuSessionState
    /\ \A x \in Nullable(SelectedTimetable) : [d EXCEPT !.selected_timetable = x] \in PlanuSessionState
    /\ \A x \in Nullable(SelectedTimetableStatus) : [d EXCEPT !.selected_timetable_status = x] \in PlanuSessionState
    /\ \A x \in BOOLEAN : [d EXCEPT !.confirmed = x] \in PlanuSessionState
    /\ \A x \in Nullable(Nat) : [d EXCEPT !.confirmed_version = x] \in PlanuSessionState
    /\ \A x \in Nat : [d EXCEPT !.version = x] \in PlanuSessionState
BY SMTT(30) DEF PlanuSessionState

\* The fields of a state have their types.
LEMMA StateType ==
  ASSUME NEW d \in PlanuSessionState
  PROVE
    /\ d.department \in Nullable(Departments)
    /\ d.major_catalog_id \in Nullable(MajorCatalogs)
    /\ d.elective_catalog_id \in Nullable(ElectiveCatalogs)
    /\ d.selected_major_course_ids \in SUBSET Courses
    /\ d.hard_constraints \in HardConstraints
    /\ d.soft_preferences \in SoftPreferences
    /\ d.selected_timetable \in Nullable(SelectedTimetable)
    /\ d.selected_timetable_status \in Nullable(SelectedTimetableStatus)
    /\ d.confirmed \in BOOLEAN
    /\ d.confirmed_version \in Nullable(Nat)
    /\ d.version \in Nat
BY DEF PlanuSessionState

\* _to_state copies well-typed fields.
LEMMA ToStateType ==
  ASSUME NEW d \in SessionData
  PROVE  ToState(d) \in PlanuSessionState
BY FieldType, NullableValues DEF ToState, PlanuSessionState

\* What update() stores for an argument that may be None.
LEMMA SuppliedType ==
  ASSUME NEW S, NEW argument \in Nullable(S)
  PROVE  /\ \A stored \in S : Supplied(argument, stored) \in S
         /\ \A stored \in Nullable(S) : Supplied(argument, stored) \in Nullable(S)
         /\ \A stored : ClearedBy(argument, stored) \in {0, 1}
BY DEF Nullable, Supplied, ClearedBy

\* SessionStoreRepository.save
LEMMA StateWrittenCorrect ==
  ASSUME NEW d \in SessionData, NEW s \in PlanuSessionState
  PROVE  StateWritten(d, s) \in SessionData /\ Advances(d, StateWritten(d, s))
<1> DEFINE revision == d.generation_revision
                      + ClearedBy(s.department, d.department)
                     + ClearedBy(s.major_catalog_id, d.major_catalog_id)
                     + ClearedBy(s.elective_catalog_id, d.elective_catalog_id)
                     + ClearedBy(s.selected_major_course_ids, d.selected_major_course_ids)
                     + ClearedBy(s.hard_constraints, d.hard_constraints)
                     + ClearedBy(s.soft_preferences, d.soft_preferences)
<1>1. \A argument, stored : ClearedBy(argument, stored) \in {0, 1}
  BY DEF ClearedBy
<1>2. revision \in Nat /\ revision >= d.generation_revision
  BY <1>1, FieldType
<1>3. StateWritten(d, s) \in SessionData
  <2> DEFINE e == [d EXCEPT
                     !.department = Supplied(s.department, @),
                     !.major_catalog_id = Supplied(s.major_catalog_id, @),
                     !.elective_catalog_id = Supplied(s.elective_catalog_id, @),
                     !.selected_major_course_ids = Supplied(s.selected_major_course_ids, @),
                     !.hard_constraints = Supplied(s.hard_constraints, @),
                     !.soft_preferences = Supplied(s.soft_preferences, @)]
             status == IF s.selected_timetable_status # None
                       THEN s.selected_timetable_status
                       ELSE IF s.selected_timetable = None THEN None
                       ELSE d.selected_timetable_status
             confirmedVersion == IF s.confirmed THEN s.confirmed_version ELSE None
             r == [e EXCEPT
                     !.generation_revision = revision,
                     !.confirmed = s.confirmed,
                     !.confirmed_version = confirmedVersion,
                     !.selected_timetable = s.selected_timetable,
                     !.selected_timetable_status = status,
                     !.version = d.version + 1]
  <2>1. e \in SessionData
    <3>1. /\ Supplied(s.department, d.department) \in Departments
          /\ Supplied(s.major_catalog_id, d.major_catalog_id) \in MajorCatalogs
          /\ Supplied(s.elective_catalog_id, d.elective_catalog_id)
               \in Nullable(ElectiveCatalogs)
          /\ Supplied(s.selected_major_course_ids, d.selected_major_course_ids)
               \in SUBSET Courses
          /\ Supplied(s.hard_constraints, d.hard_constraints) \in HardConstraints
          /\ Supplied(s.soft_preferences, d.soft_preferences) \in SoftPreferences
      BY FieldType, StateType DEF Supplied, Nullable
    <3> QED
      BY <3>1, FieldUpdate
  <2>2. StateWritten(d, s) = r
    BY DEF StateWritten
  <2>3. /\ status \in Nullable(SelectedTimetableStatus)
        /\ confirmedVersion \in Nullable(Nat)
    BY FieldType, StateType, NullableValues
  <2>4. r \in SessionData
    <3> HIDE DEF e, revision, status, confirmedVersion
    <3> QED
      BY <1>2, <2>1, <2>3, StateType, CountersType, FieldUpdate
  <2> QED
    BY <2>2, <2>4
<1>4. /\ StateWritten(d, s).version = d.version + 1
      /\ StateWritten(d, s).generation_revision = revision
  BY DEF StateWritten, SessionData
<1>5. ASSUME revision = d.generation_revision
      PROVE  InputsOf(StateWritten(d, s)) = InputsOf(d)
  <2>1. /\ Supplied(s.department, d.department) = d.department
        /\ Supplied(s.major_catalog_id, d.major_catalog_id) = d.major_catalog_id
        /\ Supplied(s.elective_catalog_id, d.elective_catalog_id) = d.elective_catalog_id
        /\ Supplied(s.selected_major_course_ids, d.selected_major_course_ids)
             = d.selected_major_course_ids
        /\ Supplied(s.hard_constraints, d.hard_constraints) = d.hard_constraints
        /\ Supplied(s.soft_preferences, d.soft_preferences) = d.soft_preferences
    BY <1>1, <1>5, FieldType DEF ClearedBy
  <2> QED
    BY <2>1 DEF StateWritten, InputsOf, SessionData
<1> QED
  BY <1>2, <1>3, <1>4, <1>5, FieldType DEF Advances

-----------------------------------------------------------------------------
(* Threads.                                                                 *)

\* What each kind of label holds.
LEMMA LabelKinds ==
  /\ \A label \in HoldsNothing : label \in Labels /\ WorkOK(label, None)
  /\ \A label \in HoldsPreview : label \in Labels
       /\ \A value : WorkOK(label, value) <=> value \in Preview
  /\ \A label \in HoldsState : label \in Labels
       /\ \A value : WorkOK(label, value) <=> value \in PlanuSessionState
  /\ \A label \in HoldsSnapshot : label \in Labels
       /\ \A value : WorkOK(label, value) <=> value \in Snapshot
  /\ \A label \in HoldsList : label \in Labels
       /\ \A value : WorkOK(label, value) <=> value \in CandidateList
  /\ "pool.store" \in Labels
  /\ \A value : WorkOK("pool.store", value) <=> value \in GeneralPool
  /\ "select.candidate" \in Labels
  /\ \A value : WorkOK("select.candidate", value) <=> value \in [revision : Nat]
  /\ "select.service" \in Labels
  /\ \A value : WorkOK("select.service", value) <=> value \in SelectedTimetable
BY DEF Labels, WorkOK, HoldsNothing, HoldsPreview, HoldsState, HoldsSnapshot, HoldsList

\* A thread that moves to a label with a value it can work with keeps the
\* threads in order.
LEMMA GotoOK ==
  ASSUME ThreadsOK, NEW t \in Threads, NEW label \in Labels, NEW value,
         WorkOK(label, value), Goto(t, label, value)
  PROVE  ThreadsOK'
BY DEF ThreadsOK, Goto

\* The end of a request.
LEMMA DoneOK ==
  ASSUME ThreadsOK, NEW t \in Threads, Done(t)
  PROVE  ThreadsOK'
BY LabelKinds, GotoOK DEF Done, HoldsNothing

\* The value a thread holds at a label.
LEMMA HeldOK ==
  ASSUME ThreadsOK, NEW t \in Threads
  PROVE  WorkOK(pc[t], work[t])
BY DEF ThreadsOK

-----------------------------------------------------------------------------
(* The calls of the store.                                                  *)

\* What a step may do to the stored record.
StoreMoves ==
  /\ \/ session' = session
     \/ session' = None
     \/ /\ Live
        /\ session' \in SessionData
        /\ Advances(session, session')
  /\ issued' \in SUBSET PreviewIds

\* The store is left alone by what only reads it.
LEMMA StoreUnchanged ==
  ASSUME TypeOK, UNCHANGED storeVars
  PROVE  StoreMoves
BY DEF TypeOK, StoreMoves, storeVars

\* Every method of the store advances a live session.
LEMMA StoreCallsOK ==
  ASSUME TypeOK
  PROVE  /\ \A preview \in Preview :
              /\ SavePreview(preview) => StoreMoves
              /\ ConfirmMajorPreview(preview) => StoreMoves
              /\ ReconfirmMajorPreview(preview) => StoreMoves
         /\ \A state \in PlanuSessionState : Update(state) => StoreMoves
         /\ Touch => StoreMoves
         /\ \A pool \in GeneralPool : UpdateGeneralCoursePool(pool) => StoreMoves
         /\ \A list \in CandidateList :
              /\ UpdateTimetableGeneration(list) => StoreMoves
              /\ UpdateRankingResult(list) => StoreMoves
         /\ Expire => StoreMoves
<1>1. Live => session \in SessionData
  BY DEF TypeOK, Live
<1>2. issued \in SUBSET PreviewIds
  BY DEF TypeOK
<1>3. ASSUME NEW preview \in Preview
      PROVE  SavePreview(preview) => StoreMoves
  BY <1>1, <1>2, PreviewSavedCorrect DEF SavePreview, StoreMoves, Preview
<1>4. ASSUME NEW preview \in Preview
      PROVE  /\ ConfirmMajorPreview(preview) => StoreMoves
             /\ ReconfirmMajorPreview(preview) => StoreMoves
  BY <1>1, <1>2, MajorConfirmedCorrect, MajorReconfirmedCorrect
     DEF ConfirmMajorPreview, ReconfirmMajorPreview, StoreMoves
<1>5. ASSUME NEW state \in PlanuSessionState
      PROVE  Update(state) => StoreMoves
  BY <1>1, <1>2, StateWrittenCorrect DEF Update, StoreMoves
<1>6. Touch => StoreMoves
  BY <1>1, <1>2, TouchedCorrect DEF Touch, StoreMoves
<1>7. ASSUME NEW pool \in GeneralPool
      PROVE  UpdateGeneralCoursePool(pool) => StoreMoves
  BY <1>1, <1>2, PoolWrittenCorrect DEF UpdateGeneralCoursePool, StoreMoves
<1>8. ASSUME NEW list \in CandidateList
      PROVE  /\ UpdateTimetableGeneration(list) => StoreMoves
             /\ UpdateRankingResult(list) => StoreMoves
  BY <1>1, <1>2, GenerationWrittenCorrect, RankingWrittenCorrect
     DEF UpdateTimetableGeneration, UpdateRankingResult, StoreMoves
<1>9. Expire => StoreMoves
  BY <1>2 DEF Expire, StoreMoves
<1> QED
  BY <1>3, <1>4, <1>5, <1>6, <1>7, <1>8, <1>9

\* What every action but the reads of a session has to show.
LEMMA TypeFromParts ==
  ASSUME TypeOK, StoreMoves, recent' \in CandidateBatch \cup {None}, ThreadsOK', served' \in Nat
  PROVE  TypeOK'
BY DEF TypeOK, StoreMoves, Live

\* A request that begins leaves the store alone.
LEMMA BeginOK ==
  ASSUME TypeOK, NEW t \in Threads, NEW request, Begin(t, request)
  PROVE  StoreMoves /\ served' \in Nat /\ Live /\ session \in SessionData
BY StoreUnchanged DEF Begin, TypeOK, Live

\* What a thread holds at its label.
LEMMA AtOK ==
  ASSUME TypeOK, NEW t \in Threads, NEW label, At(t, label)
  PROVE  served' \in Nat /\ WorkOK(label, work[t])
BY HeldOK DEF At, TypeOK

-----------------------------------------------------------------------------
(* Type correctness.                                                        *)

\* Handlers of the major selection.
LEMMA MajorStepOK ==
  ASSUME TypeOK, NEW t \in Threads, MajorStep(t)
  PROVE  TypeOK' /\ StoreMoves
<1> USE DEF HoldsNothing, HoldsPreview
<1>1. ThreadsOK /\ recent \in CandidateBatch \cup {None}
  BY DEF TypeOK
<1>2. CASE PreviewRead(t)
  <2>1. ThreadsOK'
    BY <1>1, <1>2, LabelKinds, GotoOK DEF PreviewRead
  <2> QED
    BY <1>1, <1>2, <2>1, BeginOK, TypeFromParts DEF PreviewRead
<1>3. CASE PreviewSave(t)
  BY <1>1, <1>3, StoreCallsOK, DoneOK, AtOK, TypeFromParts DEF PreviewSave
<1>4. CASE ConfirmRead(t)
  <2>1. session.latest_major_preview \in Preview
    BY <1>4, BeginOK, FieldType DEF ConfirmRead, Confirmable, Nullable
  <2>2. ThreadsOK'
    BY <1>1, <1>4, <2>1, LabelKinds, GotoOK DEF ConfirmRead
  <2> QED
    BY <1>1, <1>4, <2>2, BeginOK, TypeFromParts DEF ConfirmRead
<1>5. CASE ConfirmStore(t)
  <2>1. work[t] \in Preview
    BY <1>5, AtOK, LabelKinds DEF ConfirmStore
  <2>2. StoreMoves
    BY <1>5, <2>1, StoreCallsOK, StoreUnchanged DEF ConfirmStore
  <2> QED
    BY <1>1, <1>5, <2>2, DoneOK, AtOK, TypeFromParts DEF ConfirmStore
<1>6. CASE ReconfirmRead(t)
  <2>1. session.pending_major_preview \in Preview
    BY <1>6, BeginOK, FieldType DEF ReconfirmRead, Confirmable, Nullable
  <2>2. ThreadsOK'
    BY <1>1, <1>6, <2>1, LabelKinds, GotoOK DEF ReconfirmRead
  <2> QED
    BY <1>1, <1>6, <2>2, BeginOK, TypeFromParts DEF ReconfirmRead
<1>7. CASE ReconfirmStore(t)
  <2>1. work[t] \in Preview
    BY <1>7, AtOK, LabelKinds DEF ReconfirmStore
  <2>2. StoreMoves
    BY <1>7, <2>1, StoreCallsOK, StoreUnchanged DEF ReconfirmStore
  <2> QED
    BY <1>1, <1>7, <2>2, DoneOK, AtOK, TypeFromParts DEF ReconfirmStore
<1> QED
  BY <1>2, <1>3, <1>4, <1>5, <1>6, <1>7 DEF MajorStep

\* A command leads to the touch or to the check of a state.
LEMMA CommandOK ==
  ASSUME ThreadsOK, NEW t \in Threads,
         NEW s \in PlanuSessionState, NEW n \in PlanuSessionState, Command(t, s, n)
  PROVE  ThreadsOK'
<1>1. Prepared(s, n) \in PlanuSessionState
  <2>1. /\ "stale" \in Nullable(SelectedTimetableStatus)
        /\ FALSE \in BOOLEAN
        /\ None \in Nullable(Nat)
    BY DEF SelectedTimetableStatus, Nullable
  <2>2. (IF s.selected_timetable = None THEN n.selected_timetable_status ELSE "stale")
          \in Nullable(SelectedTimetableStatus)
    BY <2>1, StateType
  <2> QED
    BY <2>1, <2>2, StateUpdate DEF Prepared
<1> QED
  BY <1>1, LabelKinds, GotoOK DEF Command, HoldsNothing, HoldsState

\* The states commands want are states.
LEMMA CommandsType ==
  ASSUME NEW s \in PlanuSessionState,
         NEW request \in {"profile", "majors", "preferences", "confirm_conditions",
                          "clear_selection"},
         NEW n \in Commands(request, s)
  PROVE  n \in PlanuSessionState
<1>1. ASSUME n \in ProfileChanges(s) PROVE n \in PlanuSessionState
  <2>1. PICK u \in SessionProfileUpdate :
          n = [s EXCEPT !.department = u.department,
                        !.major_catalog_id = u.major_catalog_id,
                        !.elective_catalog_id = u.elective_catalog_id]
    BY <1>1 DEF ProfileChanges
  <2> QED
    BY <2>1, StateUpdate DEF SessionProfileUpdate
<1>2. ASSUME n \in MajorChanges(s) PROVE n \in PlanuSessionState
  BY <1>2, StateUpdate DEF MajorChanges
<1>3. ASSUME n \in PreferenceChanges(s) PROVE n \in PlanuSessionState
  <2>1. PICK p \in [hard : HardConstraints, soft : SoftPreferences] :
          n = [s EXCEPT !.hard_constraints = p.hard, !.soft_preferences = p.soft]
    BY <1>3 DEF PreferenceChanges
  <2> QED
    BY <2>1, StateUpdate
<1>4. ConditionsConfirmed(s) \in PlanuSessionState
  <2>1. TRUE \in BOOLEAN /\ s.version \in Nullable(Nat)
    BY StateType, NullableValues
  <2> QED
    BY <2>1, StateUpdate DEF ConditionsConfirmed
<1>5. SelectionCleared(s) \in PlanuSessionState
  BY NullableValues, StateUpdate DEF SelectionCleared
<1> QED
  BY <1>1, <1>2, <1>3, <1>4, <1>5 DEF Commands

\* General-course preparation.
LEMMA GeneralStepOK ==
  ASSUME TypeOK, NEW t \in Threads, GeneralStep(t)
  PROVE  TypeOK' /\ StoreMoves
<1> USE DEF HoldsNothing
<1>1. ThreadsOK /\ recent \in CandidateBatch \cup {None}
  BY DEF TypeOK
<1>2. ASSUME NEW d \in SessionData, NEW area \in Nullable(Areas), NEW pool \in BuiltPools(d, area)
      PROVE  pool \in GeneralPool
  BY <1>2, FieldType DEF BuiltPools, GeneralPool
<1>3. CASE PrepareRead(t)
  <2>1. ThreadsOK'
    BY <1>1, <1>2, <1>3, BeginOK, LabelKinds, GotoOK DEF PrepareRead
  <2> QED
    BY <1>1, <1>3, <2>1, BeginOK, TypeFromParts DEF PrepareRead
<1>4. CASE ChatRead(t)
  <2>1. ThreadsOK'
    BY <1>1, <1>2, <1>4, BeginOK, LabelKinds, GotoOK, NullableValues DEF ChatRead
  <2> QED
    BY <1>1, <1>4, <2>1, BeginOK, TypeFromParts DEF ChatRead
<1>5. CASE PoolStore(t)
  <2>1. work[t] \in GeneralPool
    BY <1>5, AtOK, LabelKinds DEF PoolStore
  <2>2. ThreadsOK'
    BY <1>1, <1>5, LabelKinds, GotoOK DEF PoolStore
  <2> QED
    BY <1>1, <1>5, <2>1, <2>2, StoreCallsOK, AtOK, TypeFromParts DEF PoolStore
<1>6. CASE RegisterRead(t)
  <2> DEFINE s == ToState(session)
             n == [s EXCEPT !.elective_catalog_id = GeneralCatalog]
  <2>1. s \in PlanuSessionState
    BY <1>6, ToStateType DEF RegisterRead, TypeOK, Live
  <2>2. n \in PlanuSessionState
    BY <2>1, BackendConstants, NullableValues, StateUpdate
  <2>3. Command(t, s, n)
    BY <1>6 DEF RegisterRead
  <2>4. ThreadsOK'
    <3> HIDE DEF s, n
    <3> QED
      BY <1>1, <2>1, <2>2, <2>3, CommandOK
  <2> QED
    BY <1>1, <1>6, <2>4, StoreUnchanged, AtOK, TypeFromParts DEF RegisterRead
<1> QED
  BY <1>3, <1>4, <1>5, <1>6 DEF GeneralStep

\* SessionService commands.
LEMMA ServiceStepOK ==
  ASSUME TypeOK, NEW t \in Threads, ServiceStep(t)
  PROVE  TypeOK' /\ StoreMoves
<1> USE DEF HoldsState
<1>1. ThreadsOK /\ recent \in CandidateBatch \cup {None}
  BY DEF TypeOK
<1>2. CASE ServiceRead(t)
  <2>1. PICK request \in {"profile", "majors", "preferences", "confirm_conditions",
                         "clear_selection"} :
          /\ Begin(t, request)
          /\ \E n \in Commands(request, ToState(session)) : Command(t, ToState(session), n)
          /\ UNCHANGED recent
    BY <1>2 DEF ServiceRead
  <2>2. ToState(session) \in PlanuSessionState
    BY <2>1, BeginOK, ToStateType
  <2>3. ThreadsOK'
    BY <1>1, <2>1, <2>2, CommandsType, CommandOK
  <2> QED
    BY <1>1, <2>1, <2>3, BeginOK, TypeFromParts
<1>3. CASE ServiceTouch(t)
  BY <1>1, <1>3, StoreCallsOK, DoneOK, AtOK, TypeFromParts DEF ServiceTouch
<1>4. CASE ServiceCheck(t)
  <2>1. WorkOK("service.check", work[t])
    BY <1>4, AtOK DEF ServiceCheck
  <2>2. ThreadsOK'
    BY <1>1, <1>4, <2>1, LabelKinds, GotoOK DEF ServiceCheck
  <2> QED
    BY <1>1, <1>4, <2>2, StoreUnchanged, AtOK, TypeFromParts DEF ServiceCheck
<1>5. CASE VersionConflict(t)
  BY <1>1, <1>5, StoreUnchanged, DoneOK, AtOK, TypeFromParts DEF VersionConflict
<1>6. CASE ServiceUpdate(t)
  <2>1. work[t] \in PlanuSessionState
    BY <1>6, AtOK, LabelKinds DEF ServiceUpdate
  <2> QED
    BY <1>1, <1>6, <2>1, StoreCallsOK, DoneOK, AtOK, TypeFromParts DEF ServiceUpdate
<1> QED
  BY <1>2, <1>3, <1>4, <1>5, <1>6 DEF ServiceStep

\* A snapshot of a session is a snapshot.
LEMMA SnapshotOfType ==
  ASSUME NEW d \in SessionData
  PROVE  SnapshotOf(d) \in Snapshot
BY FieldType, InputsOfType DEF SnapshotOf, Snapshot

\* What a generator adds comes from the pool.
LEMMA PoolCoursesType ==
  ASSUME NEW inputs \in GenerationInputs
  PROVE  SUBSET SUBSET PoolCourses(inputs) \subseteq SUBSET SUBSET Electives
<1>1. PoolCourses(inputs) \subseteq Electives
  BY DEF GenerationInputs, PoolCourses, GeneralPool, Nullable
<1> QED
  BY <1>1

\* Generation and ranking.
LEMMA TimetableStepOK ==
  ASSUME TypeOK, NEW t \in Threads, TimetableStep(t)
  PROVE  TypeOK' /\ StoreMoves
<1> USE DEF HoldsSnapshot, HoldsList
<1>1. ThreadsOK /\ recent \in CandidateBatch \cup {None}
  BY DEF TypeOK
<1>2. CASE GenerateRead(t)
  <2>1. ThreadsOK'
    BY <1>1, <1>2, BeginOK, SnapshotOfType, LabelKinds, GotoOK DEF GenerateRead
  <2> QED
    BY <1>1, <1>2, <2>1, BeginOK, TypeFromParts DEF GenerateRead
<1>3. CASE GenerateCache(t)
  <2>1. work[t] \in Snapshot
    BY <1>3, AtOK, LabelKinds DEF GenerateCache
  <2>2. PICK added \in SUBSET SUBSET PoolCourses(work[t].inputs) :
          /\ recent' = IF added = {} THEN None
                       ELSE [inputs |-> work[t].inputs, added |-> added,
                             revision |-> work[t].revision, source |-> "legacy"]
          /\ Goto(t, "generate.store", [inputs |-> work[t].inputs, added |-> added])
    BY <1>3 DEF GenerateCache
  <2>3. added \in SUBSET SUBSET Electives
    BY <2>1, <2>2, PoolCoursesType DEF Snapshot
  <2>4. recent' \in CandidateBatch \cup {None}
    BY <2>1, <2>2, <2>3 DEF Snapshot, CandidateBatch, Generators
  <2>5. [inputs |-> work[t].inputs, added |-> added] \in CandidateList
    BY <2>1, <2>3 DEF Snapshot, CandidateList
  <2>6. ThreadsOK'
    BY <1>1, <2>2, <2>5, LabelKinds, GotoOK
  <2> QED
    BY <1>3, <2>4, <2>6, StoreUnchanged, AtOK, TypeFromParts DEF GenerateCache
<1>4. CASE GenerateStore(t)
  <2>1. work[t] \in CandidateList
    BY <1>4, AtOK, LabelKinds DEF GenerateStore
  <2> QED
    BY <1>1, <1>4, <2>1, StoreCallsOK, DoneOK, AtOK, TypeFromParts DEF GenerateStore
<1>5. CASE RankRead(t)
  <2>1. session.generated_candidates \in CandidateList
    BY <1>5, BeginOK, FieldType DEF RankRead, Nullable
  <2>2. ThreadsOK'
    BY <1>1, <1>5, <2>1, LabelKinds, GotoOK DEF RankRead
  <2> QED
    BY <1>1, <1>5, <2>2, BeginOK, TypeFromParts DEF RankRead
<1>6. CASE RankStore(t)
  <2>1. work[t] \in CandidateList
    BY <1>6, AtOK, LabelKinds DEF RankStore
  <2> QED
    BY <1>1, <1>6, <2>1, StoreCallsOK, DoneOK, AtOK, TypeFromParts DEF RankStore
<1> QED
  BY <1>2, <1>3, <1>4, <1>5, <1>6 DEF TimetableStep

\* The agent's generation tool.
LEMMA AgentStepOK ==
  ASSUME TypeOK, NEW t \in Threads, AgentStep(t)
  PROVE  TypeOK' /\ StoreMoves
<1> USE DEF HoldsSnapshot
<1>1. ThreadsOK /\ recent \in CandidateBatch \cup {None}
  BY DEF TypeOK
<1>2. CASE AgentRead(t)
  <2>1. ThreadsOK'
    BY <1>1, <1>2, BeginOK, SnapshotOfType, LabelKinds, GotoOK DEF AgentRead
  <2> QED
    BY <1>1, <1>2, <2>1, BeginOK, TypeFromParts DEF AgentRead
<1>3. CASE AgentGate(t)
  <2>1. work[t] \in Snapshot
    BY <1>3, AtOK, LabelKinds DEF AgentGate
  <2>2. ThreadsOK'
    BY <1>1, <1>3, <2>1, LabelKinds, GotoOK, DoneOK DEF AgentGate
  <2> QED
    BY <1>1, <1>3, <2>2, StoreUnchanged, AtOK, TypeFromParts DEF AgentGate
<1>4. CASE AgentStamp(t)
  <2>1. work[t] \in Snapshot
    BY <1>4, AtOK, LabelKinds DEF AgentStamp
  <2>2. session.generation_revision \in Nat
    BY <1>4, FieldType DEF AgentStamp, TypeOK, Live
  <2>3. [work[t] EXCEPT !.revision = session.generation_revision] \in Snapshot
    BY <2>1, <2>2 DEF Snapshot
  <2>4. ThreadsOK'
    BY <1>1, <1>4, <2>3, LabelKinds, GotoOK DEF AgentStamp
  <2> QED
    BY <1>1, <1>4, <2>4, StoreUnchanged, AtOK, TypeFromParts DEF AgentStamp
<1>5. CASE AgentClear(t)
  <2>1. work[t] \in Snapshot
    BY <1>5, AtOK, LabelKinds DEF AgentClear
  <2>2. ThreadsOK'
    BY <1>1, <1>5, <2>1, LabelKinds, GotoOK DEF AgentClear
  <2> QED
    BY <1>5, <2>2, StoreUnchanged, AtOK, TypeFromParts DEF AgentClear
<1>6. CASE AgentSave(t)
  <2>1. work[t] \in Snapshot
    BY <1>6, AtOK, LabelKinds DEF AgentSave
  <2>2. PICK added \in SUBSET SUBSET PoolCourses(work[t].inputs) :
          recent' = IF added = {} THEN recent
                    ELSE [inputs |-> work[t].inputs, added |-> added,
                          revision |-> work[t].revision, source |-> "agent"]
    BY <1>6 DEF AgentSave
  <2>3. added \in SUBSET SUBSET Electives
    BY <2>1, <2>2, PoolCoursesType DEF Snapshot
  <2>4. recent' \in CandidateBatch \cup {None}
    BY <1>1, <2>1, <2>2, <2>3 DEF Snapshot, CandidateBatch, Generators
  <2> QED
    BY <1>1, <1>6, <2>4, DoneOK, StoreUnchanged, AtOK, TypeFromParts DEF AgentSave
<1> QED
  BY <1>2, <1>3, <1>4, <1>5, <1>6 DEF AgentStep

\* The candidates of a batch are selectable timetables.
LEMMA CandidatesType ==
  ASSUME NEW batch \in CandidateBatch, NEW candidate \in Candidates(batch)
  PROVE  candidate \in SelectedTimetable
<1>1. KeptMajors(batch) \in SUBSET Courses
  BY DEF KeptMajors, CandidateBatch, GenerationInputs
<1>2. PICK a \in batch.added :
        candidate = [fixed |-> KeptMajors(batch), added |-> a, source |-> batch.source,
                     basis |-> batch.inputs]
  BY DEF Candidates
<1> QED
  BY <1>1, <1>2 DEF CandidateBatch, SelectedTimetable

\* Selecting a candidate.
LEMMA SelectStepOK ==
  ASSUME TypeOK, NEW t \in Threads, SelectStep(t)
  PROVE  TypeOK' /\ StoreMoves
<1>1. ThreadsOK /\ recent \in CandidateBatch \cup {None}
  BY DEF TypeOK
<1>2. CASE SelectRead(t)
  <2>1. [revision |-> session.generation_revision] \in [revision : Nat]
    BY <1>2, BeginOK, FieldType DEF SelectRead
  <2>2. ThreadsOK'
    BY <1>1, <1>2, <2>1, LabelKinds, GotoOK DEF SelectRead
  <2> QED
    BY <1>1, <1>2, <2>2, BeginOK, TypeFromParts DEF SelectRead
<1>3. CASE SelectCandidate(t)
  <2>1. ThreadsOK'
    BY <1>1, <1>3, DoneOK, CandidatesType, LabelKinds, GotoOK DEF SelectCandidate
  <2> QED
    BY <1>1, <1>3, <2>1, StoreUnchanged, AtOK, TypeFromParts DEF SelectCandidate
<1>4. CASE SelectService(t)
  <2> DEFINE s == ToState(session)
             n == CandidateSelected(s, work[t])
  <2>1. s \in PlanuSessionState
    BY <1>4, ToStateType DEF SelectService, TypeOK, Live
  <2>2. work[t] \in SelectedTimetable
    BY <1>4, AtOK, LabelKinds DEF SelectService
  <2>3. n \in PlanuSessionState
    <3>1. /\ work[t] \in Nullable(SelectedTimetable)
          /\ "current" \in Nullable(SelectedTimetableStatus)
      BY <2>2 DEF Nullable, SelectedTimetableStatus
    <3> HIDE DEF s
    <3> QED
      BY <2>1, <3>1, StateUpdate DEF CandidateSelected
  <2>4. Command(t, s, n)
    BY <1>4 DEF SelectService
  <2>5. ThreadsOK'
    <3> HIDE DEF s, n
    <3> QED
      BY <1>1, <2>1, <2>3, <2>4, CommandOK
  <2> QED
    BY <1>1, <1>4, <2>5, StoreUnchanged, AtOK, TypeFromParts DEF SelectService
<1> QED
  BY <1>2, <1>3, <1>4 DEF SelectStep

\* Every step keeps the types and moves the store as allowed.
LEMMA StepOK ==
  ASSUME TypeOK, Next
  PROVE  TypeOK' /\ StoreMoves
<1>1. CASE SessionExpires
  <2>1. StoreMoves
    BY <1>1, StoreCallsOK DEF SessionExpires
  <2>2. ThreadsOK' /\ served' \in Nat /\ recent' \in CandidateBatch \cup {None}
    BY <1>1 DEF SessionExpires, TypeOK, ThreadsOK, threadVars
  <2> QED
    BY <2>1, <2>2, TypeFromParts
<1>2. ASSUME NEW t \in Threads, SessionGone(t)
      PROVE  TypeOK' /\ StoreMoves
  <2>1. StoreMoves
    BY <1>2, StoreUnchanged DEF SessionGone
  <2>2. ThreadsOK' /\ served' \in Nat /\ recent' \in CandidateBatch \cup {None}
    BY <1>2, DoneOK DEF SessionGone, TypeOK
  <2> QED
    BY <2>1, <2>2, TypeFromParts
<1> QED
  BY <1>1, <1>2, MajorStepOK, GeneralStepOK, ServiceStepOK, TimetableStepOK, AgentStepOK,
     SelectStepOK DEF Next

\* The initial state is well typed.
LEMMA InitOK == Init => TypeOK
<1> SUFFICES ASSUME Init PROVE TypeOK
  OBVIOUS
<1>1. session \in SessionData
  BY UploadedSessionType DEF Init
<1>2. ThreadsOK
  BY LabelKinds DEF Init, ThreadsOK, HoldsNothing
<1> QED
  BY <1>1, <1>2 DEF Init, TypeOK

\* Stuttering changes nothing.
LEMMA StutterOK ==
  ASSUME TypeOK, UNCHANGED vars
  PROVE  TypeOK'
BY DEF TypeOK, ThreadsOK, vars

\* Store, cache and threads always hold values of their declared types.
THEOREM TypeCorrect == Spec => []TypeOK
<1>1. TypeOK /\ [Next]_vars => TypeOK'
  BY StepOK, StutterOK
<1> QED
  BY <1>1, InitOK, PTL DEF Spec

-----------------------------------------------------------------------------
(* Versions and revisions.                                                  *)

\* No write of a live record leaves its version behind.
LEMMA VersionStep ==
  ASSUME TypeOK, [Next]_vars, Live, session' # None, session' # session
  PROVE  session'.version > session.version
<1>1. Next
  BY DEF vars
<1> QED
  BY <1>1, StepOK DEF StoreMoves, Advances

\* The version that SessionStoreRepository.save compares stands for the whole
\* record: every write of every handler makes it larger.
THEOREM VersionsCount == Spec => VersionCountsWrites
<1>1. TypeOK /\ [Next]_vars =>
        [ Live /\ session' # None /\ session' # session =>
            session'.version > session.version ]_vars
  BY VersionStep
<1> QED
  BY <1>1, TypeCorrect, PTL DEF Spec, VersionCountsWrites

\* The handlers implement PlanningRevision: generation inputs change only
\* together with a larger revision.
THEOREM RevisionRefined == Spec => RevisionSpec
<1> DEFINE inputsNow == IF session = None THEN None ELSE InputsOf(session)
           revisionNow == IF session = None THEN 0 ELSE session.generation_revision
<1>1. Init => Revision!Init
  <2> SUFFICES ASSUME Init PROVE Revision!Init
    OBVIOUS
  <2>1. PICK d \in Departments, m \in MajorCatalogs : session = UploadedSession(d, m)
    BY DEF Init
  <2>2. session \in SessionData /\ session.generation_revision \in Nat
    BY <2>1, UploadedSessionType DEF UploadedSession
  <2> QED
    BY <2>2, NoneIsNoRecord, InputsOfType DEF Revision!Init
<1>2. TypeOK /\ [Next]_vars => [Revision!Next]_<<inputsNow, revisionNow>>
  <2> SUFFICES ASSUME TypeOK, [Next]_vars
               PROVE  [Revision!Next]_<<inputsNow, revisionNow>>
    OBVIOUS
  <2>1. CASE session' = session
    BY <2>1
  <2>2. CASE session' # session /\ session' = None
    <3>1. InputsOf(session) # None
      BY <2>2, NoneIsNoRecord, InputsOfType DEF TypeOK
    <3> QED
      BY <2>2, <3>1 DEF Revision!Next, Revision!End
  <2>3. CASE session' # session /\ session' # None
    <3>1. Live /\ session' \in SessionData /\ Advances(session, session')
      BY <2>3, StepOK DEF StoreMoves, vars
    <3>2. session \in SessionData /\ session # None
      BY <3>1 DEF TypeOK, Live
    <3>3. /\ InputsOf(session) # None
          /\ InputsOf(session') \in GenerationInputs
          /\ session'.generation_revision \in Nat
      BY <3>1, <3>2, NoneIsNoRecord, InputsOfType, FieldType
    <3> QED
      BY <2>3, <3>1, <3>2, <3>3 DEF Revision!Next, Revision!Revise, Advances
  <2> QED
    BY <2>1, <2>2, <2>3
<1> QED
  BY <1>1, <1>2, TypeCorrect, PTL DEF Spec, RevisionSpec, Revision!Spec

-----------------------------------------------------------------------------
(* A revision identifies the inputs it was read with.                       *)

\* RevisionIdentifiesInputs is not inductive: a snapshot whose revision lay
\* ahead of the session's could meet it later with other inputs.  No snapshot
\* does.
StampedBehind ==
  Live =>
    \A s \in Stamped :
      /\ s.revision \in Nat
      /\ s.revision <= session.generation_revision
      /\ s.revision = session.generation_revision => s.inputs = InputsOf(session)

\* Labels at which a thread holds a snapshot nobody else has seen.
Stamping == {"generate.cache", "agent.gate"}

\* A step of a thread that neither takes a snapshot nor caches one.
Elsewhere ==
  /\ \E t \in Threads, label \in Labels \ Stamping : \E value : Goto(t, label, value)
  /\ \/ recent' = recent
     \/ recent' = None
     \/ recent' # None /\ recent'.source = "agent"

\* Such a step brings no snapshot.
LEMMA StampedElsewhere ==
  ASSUME TypeOK, Elsewhere
  PROVE  Stamped' \subseteq Stamped
<1>1. PICK t \in Threads, label \in Labels \ Stamping : \E value : Goto(t, label, value)
  BY DEF Elsewhere
<1>2. ASSUME NEW u \in Threads, pc'[u] \in Stamping
      PROVE  work'[u] = work[u] /\ pc[u] \in Stamping
  BY <1>1, <1>2 DEF Goto, TypeOK, ThreadsOK
<1> QED
  BY <1>2 DEF Stamped, Stamping, Elsewhere

\* A read of the session brings the session's own.
LEMMA StampedByRead ==
  ASSUME TypeOK, NEW t \in Threads, GenerateRead(t) \/ AgentRead(t)
  PROVE  Stamped' \subseteq Stamped \cup {SnapshotOf(session)}
<1>1. PICK label \in Stamping : Goto(t, label, SnapshotOf(session))
  BY DEF GenerateRead, AgentRead, Stamping
<1>2. ASSUME NEW u \in Threads, pc'[u] \in Stamping
      PROVE  \/ work'[u] = SnapshotOf(session)
             \/ work'[u] = work[u] /\ pc[u] \in Stamping
  BY <1>1, <1>2 DEF Goto, TypeOK, ThreadsOK
<1>3. recent' = recent
  BY DEF GenerateRead, AgentRead
<1> QED
  BY <1>2, <1>3 DEF Stamped, Stamping

\* The legacy generator passes the snapshot of its thread on to its batch.
LEMMA StampedByCache ==
  ASSUME TypeOK, NEW t \in Threads, GenerateCache(t), NEW s \in Stamped'
  PROVE  \E r \in Stamped : s.inputs = r.inputs /\ s.revision = r.revision
<1>1. work[t] \in Stamped
  BY DEF GenerateCache, At, Stamped
<1>2. PICK value : Goto(t, "generate.store", value)
  BY DEF GenerateCache
<1>3. ASSUME NEW u \in Threads, pc'[u] \in Stamping
      PROVE  work'[u] = work[u] /\ pc[u] \in Stamping
  BY <1>2, <1>3 DEF Goto, TypeOK, ThreadsOK, Stamping
<1>4. CASE \E u \in Threads : pc'[u] \in Stamping /\ s = work'[u]
  BY <1>3, <1>4 DEF Stamped, Stamping
<1>5. CASE s = recent' /\ recent' # None
  <2>1. recent'.inputs = work[t].inputs /\ recent'.revision = work[t].revision
    BY <1>5 DEF GenerateCache
  <2> QED
    BY <1>1, <1>5, <2>1
<1> QED
  BY <1>4, <1>5 DEF Stamped, Stamping

\* Every step that is not one of these three happens elsewhere.
LEMMA StepsOfStamped ==
  ASSUME TypeOK, Next
  PROVE  \/ SessionExpires
         \/ \E t \in Threads : GenerateRead(t) \/ AgentRead(t)
         \/ \E t \in Threads : GenerateCache(t)
         \/ Elsewhere
<1> USE DEF Elsewhere
<1>1. Labels \ Stamping =
        {"idle", "preview.save", "register", "service.touch", "confirm.store",
         "reconfirm.store", "service.check", "service.update", "agent.stamp",
         "agent.clear", "agent.save", "generate.store", "rank.store", "pool.store",
         "select.candidate", "select.service"}
  BY DEF Labels, Stamping, HoldsNothing, HoldsPreview, HoldsState, HoldsSnapshot, HoldsList
<1>2. ASSUME NEW t \in Threads, Done(t)
      PROVE  \E label \in Labels \ Stamping : \E value : Goto(t, label, value)
  BY <1>1, <1>2 DEF Done
<1>3. ASSUME NEW t \in Threads, NEW s, NEW n, Command(t, s, n)
      PROVE  \E label \in Labels \ Stamping : \E value : Goto(t, label, value)
  BY <1>1, <1>3 DEF Command
<1>4. ASSUME NEW t \in Threads, MajorStep(t) PROVE Elsewhere
  BY <1>1, <1>2, <1>4
     DEF MajorStep, PreviewRead, PreviewSave, ConfirmRead, ConfirmStore, ReconfirmRead,
         ReconfirmStore
<1>5. ASSUME NEW t \in Threads, GeneralStep(t) PROVE Elsewhere
  BY <1>1, <1>3, <1>5 DEF GeneralStep, PrepareRead, ChatRead, PoolStore, RegisterRead
<1>6. ASSUME NEW t \in Threads, ServiceStep(t) PROVE Elsewhere
  BY <1>1, <1>2, <1>3, <1>6
     DEF ServiceStep, ServiceRead, ServiceTouch, ServiceCheck, VersionConflict, ServiceUpdate
<1>7. ASSUME NEW t \in Threads, TimetableStep(t)
      PROVE  GenerateRead(t) \/ GenerateCache(t) \/ Elsewhere
  BY <1>1, <1>2, <1>7 DEF TimetableStep, GenerateStore, RankRead, RankStore
<1>8. ASSUME NEW t \in Threads, AgentStep(t)
      PROVE  AgentRead(t) \/ Elsewhere
  <2>1. CASE AgentGate(t) \/ AgentStamp(t) \/ AgentClear(t)
    BY <1>1, <1>2, <2>1 DEF AgentGate, AgentStamp, AgentClear
  <2>2. CASE AgentSave(t)
    <3>1. \/ recent' = recent
          \/ recent' = None
          \/ recent' # None /\ recent'.source = "agent"
      BY <2>2 DEF AgentSave
    <3> QED
      BY <1>2, <2>2, <3>1 DEF AgentSave
  <2> QED
    BY <1>8, <2>1, <2>2 DEF AgentStep
<1>9. ASSUME NEW t \in Threads, SelectStep(t) PROVE Elsewhere
  BY <1>1, <1>2, <1>3, <1>9 DEF SelectStep, SelectRead, SelectCandidate, SelectService
<1>10. ASSUME NEW t \in Threads, SessionGone(t) PROVE Elsewhere
  BY <1>2, <1>10 DEF SessionGone
<1> QED
  BY <1>4, <1>5, <1>6, <1>7, <1>8, <1>9, <1>10 DEF Next

\* Snapshots stay behind the session.
LEMMA StampedStep ==
  ASSUME TypeOK, StampedBehind, Next
  PROVE  StampedBehind'
<1> SUFFICES ASSUME Live', NEW s \in Stamped'
             PROVE  /\ s.revision \in Nat
                    /\ s.revision <= session'.generation_revision
                    /\ s.revision = session'.generation_revision => s.inputs = InputsOf(session')
  BY DEF StampedBehind
<1>1. Live /\ session \in SessionData
  BY StepOK DEF StoreMoves, Live, TypeOK
<1>2. session.generation_revision \in Nat /\ session'.generation_revision \in Nat
  BY <1>1, StepOK, FieldType DEF StoreMoves, Live, TypeOK
<1>3. ASSUME NEW r, r.revision \in Nat, r.revision <= session.generation_revision,
             r.revision = session.generation_revision => r.inputs = InputsOf(session),
             s.revision = r.revision, s.inputs = r.inputs
      PROVE  /\ s.revision \in Nat
             /\ s.revision <= session'.generation_revision
             /\ s.revision = session'.generation_revision => s.inputs = InputsOf(session')
  BY <1>2, <1>3, StepOK DEF StoreMoves, Advances, Live
<1>4. CASE SessionExpires
  BY <1>4 DEF SessionExpires, Expire, Live
<1>5. CASE \E t \in Threads : GenerateRead(t) \/ AgentRead(t)
  <2>1. s \in Stamped \/ s = SnapshotOf(session)
    BY <1>5, StampedByRead
  <2>2. CASE s \in Stamped
    BY <1>1, <1>3, <2>2 DEF StampedBehind
  <2>3. CASE s = SnapshotOf(session)
    BY <1>2, <1>3, <2>3 DEF SnapshotOf
  <2> QED
    BY <2>1, <2>2, <2>3
<1>6. CASE \E t \in Threads : GenerateCache(t)
  <2>1. PICK r \in Stamped : s.inputs = r.inputs /\ s.revision = r.revision
    BY <1>6, StampedByCache
  <2> QED
    BY <1>1, <1>3, <2>1 DEF StampedBehind
<1>7. CASE Elsewhere
  <2>1. s \in Stamped
    BY <1>7, StampedElsewhere
  <2> QED
    BY <1>1, <1>3, <2>1 DEF StampedBehind
<1> QED
  BY <1>4, <1>5, <1>6, <1>7, StepsOfStamped

\* A revision identifies the generation inputs it was read with, whatever the
\* threads do in between: comparing it, as select_timetable_candidate does,
\* never accepts a candidate of the legacy generator that was generated from
\* other inputs than the session has when the comparison is made.
THEOREM RevisionIdentifies == Spec => []RevisionIdentifiesInputs
<1>1. Init => StampedBehind
  BY DEF Init, StampedBehind, Stamped
<1>2. TypeOK /\ StampedBehind /\ [Next]_vars => StampedBehind'
  <2>1. ASSUME StampedBehind, UNCHANGED vars PROVE StampedBehind'
    BY <2>1 DEF StampedBehind, Stamped, Live, vars
  <2> QED
    BY <2>1, StampedStep
<1>3. StampedBehind => RevisionIdentifiesInputs
  BY DEF StampedBehind, RevisionIdentifiesInputs
<1> QED
  BY <1>1, <1>2, <1>3, TypeCorrect, PTL DEF Spec

=============================================================================

---------------------------- MODULE SerialProofs ----------------------------
(***************************************************************************)
(* Theorems about a client that waits for one answer before it sends the   *)
(* next request: with one thread, results, selections and confirmations    *)
(* belong to the inputs the session has.                                   *)
(*                                                                         *)
(* With one thread nothing happens between two calls of a handler, so what *)
(* it carries still agrees with the session when it is stored.             *)
(***************************************************************************)
EXTENDS MajorProofs

OneThread == \A t, u \in Threads : t = u

\* The conditions a timetable was generated under are those of the session.
MatchesConditions(basis, d) ==
  /\ basis.department = d.department
  /\ basis.major_catalog_id = d.major_catalog_id
  /\ basis.elective_catalog_id = d.elective_catalog_id
  /\ basis.hard_constraints = d.hard_constraints
  /\ basis.soft_preferences = d.soft_preferences

SelectionOK(d) ==
  d.selected_timetable_status = "current" =>
    d.selected_timetable # None /\ MatchesConditions(d.selected_timetable.basis, d)

ResultsOK(d) ==
  /\ d.latest_ranking_result # None => d.latest_ranking_result = d.generated_candidates
  /\ d.generated_candidates # None =>
       /\ d.fixed_courses # {}
       /\ d.generated_candidates.inputs.fixed_courses = d.fixed_courses
       /\ d.generated_candidates.inputs.general_pool = d.general_pool

\* What a record has to satisfy.
InOrder(d) == SelectionOK(d) /\ ResultsOK(d)

\* Writing the state s to record d leaves the selection in order, and no
\* confirmation of changed inputs.
WriteOK(d, s) ==
  /\ SelectionOK(StateWritten(d, s))
  /\ InputsOf(StateWritten(d, s)) # InputsOf(d) => ~s.confirmed

\* What a thread carries agrees with the record it read it from.
AgreesWith(d, label, value) ==
  /\ label \in HoldsSnapshot => value = SnapshotOf(d)
  /\ label = "generate.store" => value.inputs = InputsOf(d)
  /\ label = "rank.store" => value = d.generated_candidates
  /\ label = "select.candidate" => value.revision = d.generation_revision
  /\ label = "select.service" => value.basis = InputsOf(d)
  /\ label \in HoldsState => WriteOK(d, value)

ThreadsAgree == Live => \A t \in Threads : AgreesWith(session, pc[t], work[t])

BatchBehind ==
  Live /\ recent # None =>
    /\ recent.revision <= session.generation_revision
    /\ recent.revision = session.generation_revision => recent.inputs = InputsOf(session)

\* The inductive invariant for one request at a time.
Serial ==
  /\ Live => InOrder(session)
  /\ ThreadsAgree
  /\ BatchBehind

\* A pending preview is another one than the confirmed.
PendingIsNew ==
  Live =>
    /\ session.fixed_courses = {} => session.confirmed_major_preview_id = None
    /\ session.pending_major_preview # None =>
         session.pending_major_preview.preview_id # session.confirmed_major_preview_id

-----------------------------------------------------------------------------
(* Records.                                                                 *)

\* Writes that concern neither results nor conditions, or clear the results.
LEMMA OtherWritesInOrder ==
  ASSUME NEW d \in SessionData, InOrder(d)
  PROVE  /\ \A preview : InOrder(PreviewSaved(d, preview))
         /\ \A preview : d.fixed_courses = {} => InOrder(MajorConfirmed(d, preview))
         /\ \A preview : InOrder(MajorReconfirmed(d, preview))
         /\ InOrder(Touched(d))
         /\ \A pool : InOrder(PoolWritten(d, pool))
<1> USE DEF InOrder, SelectionOK, ResultsOK, MatchesConditions
<1>1. ASSUME NEW preview PROVE InOrder(PreviewSaved(d, preview))
  BY DEF PreviewSaved, SessionData
<1>2. ASSUME NEW preview, d.fixed_courses = {} PROVE InOrder(MajorConfirmed(d, preview))
  BY <1>2 DEF MajorConfirmed, SessionData
<1>3. ASSUME NEW preview PROVE InOrder(MajorReconfirmed(d, preview))
  BY DEF MajorReconfirmed, SessionData
<1>4. InOrder(Touched(d))
  BY DEF Touched, SessionData
<1>5. ASSUME NEW pool PROVE InOrder(PoolWritten(d, pool))
  BY DEF PoolWritten, SessionData
<1> HIDE DEF InOrder
<1> QED
  BY <1>1, <1>2, <1>3, <1>4, <1>5

\* Results computed from the record itself.
LEMMA ResultWritesInOrder ==
  ASSUME NEW d \in SessionData, InOrder(d), d.fixed_courses # {}
  PROVE  /\ \A list : list.inputs = InputsOf(d) => InOrder(GenerationWritten(d, list))
         /\ InOrder(RankingWritten(d, d.generated_candidates))
<1> USE DEF InOrder, SelectionOK, ResultsOK, MatchesConditions
<1>1. ASSUME NEW list, list.inputs = InputsOf(d) PROVE InOrder(GenerationWritten(d, list))
  BY <1>1 DEF GenerationWritten, InputsOf, SessionData
<1>2. InOrder(RankingWritten(d, d.generated_candidates))
  BY DEF RankingWritten, SessionData
<1> HIDE DEF InOrder
<1> QED
  BY <1>1, <1>2

\* A state that is in order to write, which keeps the results.
LEMMA StateWriteInOrder ==
  ASSUME NEW d \in SessionData, NEW s, InOrder(d), WriteOK(d, s)
  PROVE  InOrder(StateWritten(d, s))
<1>1. ResultsOK(StateWritten(d, s))
  BY DEF InOrder, ResultsOK, StateWritten, SessionData
<1> QED
  BY <1>1 DEF WriteOK, InOrder

\* What a command may want to do to the selection.
SelectionMove(d, n) ==
  \/ /\ n.selected_timetable = d.selected_timetable
     /\ n.selected_timetable_status = d.selected_timetable_status
  \/ /\ n.selected_timetable_status = None
     /\ n.selected_timetable = None
  \/ /\ ~InputsDiffer(ToState(d), n)
     /\ n.selected_timetable_status = "current"
     /\ n.selected_timetable # None
     /\ n.selected_timetable.basis = InputsOf(d)

\* _save_changed_state prepares a state that is in order to write.
LEMMA PreparedWriteOK ==
  ASSUME NEW d \in SessionData, SelectionOK(d), NEW n \in PlanuSessionState, SelectionMove(d, n)
  PROVE  WriteOK(d, Prepared(ToState(d), n))
<1> DEFINE s == ToState(d)
           p == Prepared(s, n)
           w == StateWritten(d, p)
<1>1. /\ s.department = d.department
      /\ s.major_catalog_id = d.major_catalog_id
      /\ s.elective_catalog_id = d.elective_catalog_id
      /\ s.selected_major_course_ids = d.selected_major_course_ids
      /\ s.hard_constraints = d.hard_constraints
      /\ s.soft_preferences = d.soft_preferences
      /\ s.selected_timetable = d.selected_timetable
  BY DEF ToState
<1>2. CASE InputsDiffer(s, n)
  <2>1. /\ p.confirmed = FALSE
        /\ p.selected_timetable = n.selected_timetable
        /\ p.selected_timetable_status =
             IF d.selected_timetable = None THEN n.selected_timetable_status ELSE "stale"
    BY <1>1, <1>2 DEF Prepared, PlanuSessionState
  <2>2. p.selected_timetable_status # "current"
    BY <1>2, <2>1, NoneIsNoRecord DEF SelectionMove, SelectionOK, SelectedTimetableStatus
  <2>3. w.selected_timetable_status =
          IF p.selected_timetable_status # None THEN p.selected_timetable_status
          ELSE IF p.selected_timetable = None THEN None ELSE d.selected_timetable_status
    BY DEF StateWritten, SessionData
  <2>4. w.selected_timetable_status # "current"
    <3>1. "stale" # None /\ None # "current"
      BY NoneIsNoRecord DEF SelectedTimetableStatus
    <3> QED
      BY <1>2, <2>1, <2>2, <2>3, <3>1 DEF SelectionMove, SelectionOK
  <2> QED
    BY <2>1, <2>4 DEF WriteOK, SelectionOK
<1>3. CASE ~InputsDiffer(s, n)
  <2>1. p = n
    BY <1>3 DEF Prepared
  <2>2. /\ n.department = d.department
        /\ n.major_catalog_id = d.major_catalog_id
        /\ n.elective_catalog_id = d.elective_catalog_id
        /\ n.selected_major_course_ids = d.selected_major_course_ids
        /\ n.hard_constraints = d.hard_constraints
        /\ n.soft_preferences = d.soft_preferences
    BY <1>1, <1>3 DEF InputsDiffer
  <2>3. /\ w.department = d.department
        /\ w.major_catalog_id = d.major_catalog_id
        /\ w.elective_catalog_id = d.elective_catalog_id
        /\ w.selected_major_course_ids = d.selected_major_course_ids
        /\ w.hard_constraints = d.hard_constraints
        /\ w.soft_preferences = d.soft_preferences
        /\ w.fixed_courses = d.fixed_courses
        /\ w.general_pool = d.general_pool
    BY <2>1, <2>2 DEF StateWritten, Supplied, SessionData
  <2>4. InputsOf(w) = InputsOf(d)
    BY <2>3 DEF InputsOf
  <2>5. /\ w.selected_timetable = n.selected_timetable
        /\ w.selected_timetable_status =
             IF n.selected_timetable_status # None THEN n.selected_timetable_status
             ELSE IF n.selected_timetable = None THEN None ELSE d.selected_timetable_status
    BY <2>1 DEF StateWritten, SessionData
  <2>6. SelectionOK(w)
    <3> HIDE DEF w
    <3>1. None # "current"
      BY NoneIsNoRecord DEF SelectedTimetableStatus
    <3> QED
      BY <2>3, <2>5, <3>1 DEF SelectionMove, SelectionOK, MatchesConditions, InputsOf
  <2> QED
    BY <2>4, <2>6 DEF WriteOK
<1> QED
  BY <1>2, <1>3

-----------------------------------------------------------------------------
(* Threads.                                                                 *)

\* The thread that moves is the only one.
LEMMA OneThreadAgrees ==
  ASSUME OneThread, TypeOK, NEW t \in Threads, NEW label, NEW value, Goto(t, label, value),
         Live' => AgreesWith(session', label, value)
  PROVE  ThreadsAgree'
<1>1. ASSUME NEW u \in Threads PROVE pc'[u] = label /\ work'[u] = value
  BY DEF OneThread, Goto, TypeOK, ThreadsOK
<1> QED
  BY <1>1 DEF ThreadsAgree

\* A thread that carries nothing agrees with everything.
LEMMA NothingAgrees ==
  /\ \A d, value : \A label \in HoldsNothing \cup HoldsPreview \cup {"pool.store"} :
       AgreesWith(d, label, value)
BY DEF AgreesWith, HoldsNothing, HoldsPreview, HoldsSnapshot, HoldsState

\* So does one that is done.
LEMMA DoneAgrees ==
  ASSUME OneThread, TypeOK, NEW t \in Threads, Done(t)
  PROVE  ThreadsAgree'
BY OneThreadAgrees, NothingAgrees DEF Done, HoldsNothing

\* A command on what the session has now.
LEMMA CommandAgrees ==
  ASSUME OneThread, TypeOK, NEW t \in Threads, Live, SelectionOK(session), UNCHANGED session,
         NEW n \in PlanuSessionState, SelectionMove(session, n), Command(t, ToState(session), n)
  PROVE  ThreadsAgree'
<1>1. session \in SessionData
  BY DEF TypeOK, Live
<1>2. CASE Goto(t, "service.touch", None)
  BY <1>2, OneThreadAgrees, NothingAgrees DEF HoldsNothing
<1>3. CASE Goto(t, "service.check", Prepared(ToState(session), n))
  <2>1. WriteOK(session', Prepared(ToState(session), n))
    BY <1>1, PreparedWriteOK
  <2>2. AgreesWith(session', "service.check", Prepared(ToState(session), n))
    BY <2>1 DEF AgreesWith, HoldsSnapshot, HoldsState
  <2> QED
    BY <1>3, <2>2, OneThreadAgrees
<1> QED
  BY <1>2, <1>3 DEF Command

\* A cached batch that is left alone stays behind.
LEMMA BatchKept ==
  ASSUME TypeOK, BatchBehind, StoreMoves, recent' = recent \/ recent' = None
  PROVE  BatchBehind'
<1>1. CASE recent' = None
  BY <1>1 DEF BatchBehind
<1>2. CASE recent' = recent /\ Live' /\ recent # None
  <2>1. Live /\ session \in SessionData /\ session' \in SessionData /\ recent.revision \in Nat
    BY <1>2 DEF StoreMoves, TypeOK, Live, CandidateBatch
  <2>2. session.generation_revision \in Nat /\ session'.generation_revision \in Nat
    BY <2>1, FieldType
  <2> QED
    BY <1>2, <2>1, <2>2 DEF StoreMoves, Advances, BatchBehind, Live
<1> QED
  BY <1>1, <1>2 DEF BatchBehind

-----------------------------------------------------------------------------
(* One step at a time.                                                      *)

\* The parts of the invariant after a step that only reads the session.
LEMMA SerialFromRead ==
  ASSUME TypeOK, Serial, StoreMoves, UNCHANGED storeVars, recent' = recent \/ recent' = None,
         ThreadsAgree'
  PROVE  Serial'
BY BatchKept DEF Serial, storeVars, Live

\* ... and after one that ends with a write.
LEMMA SerialFromWrite ==
  ASSUME OneThread, TypeOK, Serial, StoreMoves, NEW t \in Threads, recent' = recent,
         ThreadsAgree', Live' => InOrder(session')
  PROVE  Serial'
BY BatchKept DEF Serial

\* Major selection.
LEMMA SerialMajorStep ==
  ASSUME OneThread, TypeOK, Serial, NEW t \in Threads, MajorStep(t)
  PROVE  Serial'
<1>1. StoreMoves
  BY MajorStepOK
<1>2. CASE PreviewRead(t) \/ ConfirmRead(t) \/ ReconfirmRead(t)
  <2>1. ThreadsAgree'
    BY <1>2, OneThreadAgrees, NothingAgrees
       DEF PreviewRead, ConfirmRead, ReconfirmRead, HoldsNothing, HoldsPreview
  <2> QED
    BY <1>1, <1>2, <2>1, SerialFromRead DEF PreviewRead, ConfirmRead, ReconfirmRead, Begin
<1>3. CASE PreviewSave(t) \/ ConfirmStore(t) \/ ReconfirmStore(t)
  <2>1. ThreadsAgree' /\ recent' = recent
    BY <1>3, DoneAgrees DEF PreviewSave, ConfirmStore, ReconfirmStore
  <2>2. Live /\ session \in SessionData /\ InOrder(session)
    BY <1>3 DEF PreviewSave, SavePreview, ConfirmStore, ReconfirmStore, TypeOK, Live, Serial
  <2>3. InOrder(session')
    <3>1. CASE PreviewSave(t)
      BY <2>2, <3>1, OtherWritesInOrder DEF PreviewSave, SavePreview
    <3>2. CASE ConfirmStore(t)
      BY <2>2, <3>2, OtherWritesInOrder
         DEF ConfirmStore, ConfirmMajorPreview, ConfirmAccepted, storeVars
    <3>3. CASE ReconfirmStore(t)
      BY <2>2, <3>3, OtherWritesInOrder DEF ReconfirmStore, ReconfirmMajorPreview, storeVars
    <3> QED
      BY <1>3, <3>1, <3>2, <3>3
  <2> QED
    BY <1>1, <2>1, <2>3, SerialFromWrite
<1> QED
  BY <1>2, <1>3 DEF MajorStep

\* General-course preparation.
LEMMA SerialGeneralStep ==
  ASSUME OneThread, TypeOK, Serial, NEW t \in Threads, GeneralStep(t)
  PROVE  Serial'
<1>1. StoreMoves
  BY GeneralStepOK
<1>2. CASE PrepareRead(t) \/ ChatRead(t)
  <2>1. ThreadsAgree'
    BY <1>2, OneThreadAgrees, NothingAgrees DEF PrepareRead, ChatRead, HoldsNothing
  <2> QED
    BY <1>1, <1>2, <2>1, SerialFromRead DEF PrepareRead, ChatRead, Begin
<1>3. CASE PoolStore(t)
  <2>1. ThreadsAgree' /\ recent' = recent
    BY <1>3, OneThreadAgrees, NothingAgrees DEF PoolStore, HoldsNothing
  <2>2. InOrder(session')
    BY <1>3, OtherWritesInOrder DEF PoolStore, UpdateGeneralCoursePool, Serial, TypeOK, Live
  <2> QED
    BY <1>1, <2>1, <2>2, SerialFromWrite
<1>4. CASE RegisterRead(t)
  <2> DEFINE s == ToState(session)
             n == [s EXCEPT !.elective_catalog_id = GeneralCatalog]
  <2>1. Live /\ session \in SessionData /\ s \in PlanuSessionState
    BY <1>4, ToStateType DEF RegisterRead, TypeOK, Live
  <2>2. n \in PlanuSessionState
    BY <2>1, BackendConstants, NullableValues, StateUpdate
  <2>3. SelectionMove(session, n)
    BY DEF SelectionMove, ToState
  <2>4. Command(t, ToState(session), n) /\ UNCHANGED session
    BY <1>4 DEF RegisterRead, storeVars
  <2>5. ThreadsAgree'
    <3> HIDE DEF n
    <3> QED
      BY <2>1, <2>2, <2>3, <2>4, CommandAgrees DEF Serial, InOrder
  <2> QED
    BY <1>1, <1>4, <2>5, SerialFromRead DEF RegisterRead
<1> QED
  BY <1>2, <1>3, <1>4 DEF GeneralStep

\* A service command leaves the selection alone or clears it.
LEMMA CommandsMove ==
  ASSUME NEW d \in SessionData,
         NEW request \in {"profile", "majors", "preferences", "confirm_conditions",
                          "clear_selection"},
         NEW n \in Commands(request, ToState(d))
  PROVE  SelectionMove(d, n)
<1> DEFINE s == ToState(d)
<1>1. s \in PlanuSessionState
  BY ToStateType
<1>2. /\ s.selected_timetable = d.selected_timetable
      /\ s.selected_timetable_status = d.selected_timetable_status
  BY DEF ToState
<1> HIDE DEF s
<1>3. ASSUME n \in ProfileChanges(s) \/ n \in MajorChanges(s) \/ n \in PreferenceChanges(s)
                \/ n = ConditionsConfirmed(s)
      PROVE  /\ n.selected_timetable = s.selected_timetable
             /\ n.selected_timetable_status = s.selected_timetable_status
  BY <1>1, <1>3
     DEF ProfileChanges, MajorChanges, PreferenceChanges, ConditionsConfirmed, PlanuSessionState
<1>4. ASSUME n = SelectionCleared(s)
      PROVE  n.selected_timetable = None /\ n.selected_timetable_status = None
  BY <1>1, <1>4 DEF SelectionCleared, PlanuSessionState
<1>5. \/ n \in ProfileChanges(s) \/ n \in MajorChanges(s) \/ n \in PreferenceChanges(s)
      \/ n = ConditionsConfirmed(s) \/ n = SelectionCleared(s)
  BY DEF Commands, s
<1> QED
  BY <1>2, <1>3, <1>4, <1>5 DEF SelectionMove

\* SessionService commands.
LEMMA SerialServiceStep ==
  ASSUME OneThread, TypeOK, Serial, NEW t \in Threads, ServiceStep(t)
  PROVE  Serial'
<1>1. StoreMoves
  BY ServiceStepOK
<1>2. CASE ServiceRead(t)
  <2>1. PICK request \in {"profile", "majors", "preferences", "confirm_conditions",
                         "clear_selection"} :
          /\ Begin(t, request)
          /\ \E n \in Commands(request, ToState(session)) : Command(t, ToState(session), n)
          /\ UNCHANGED recent
    BY <1>2 DEF ServiceRead
  <2>2. Live /\ session \in SessionData /\ UNCHANGED storeVars
    BY <2>1 DEF Begin, TypeOK, Live
  <2>3. PICK n \in Commands(request, ToState(session)) : Command(t, ToState(session), n)
    BY <2>1
  <2>4. n \in PlanuSessionState /\ SelectionMove(session, n)
    BY <2>2, <2>3, ToStateType, CommandsType, CommandsMove
  <2>5. ThreadsAgree'
    BY <2>2, <2>3, <2>4, CommandAgrees DEF Serial, InOrder, storeVars
  <2> QED
    BY <1>1, <2>1, <2>2, <2>5, SerialFromRead
<1>3. CASE ServiceTouch(t)
  BY <1>1, <1>3, DoneAgrees, OtherWritesInOrder, SerialFromWrite
     DEF ServiceTouch, Touch, Serial, TypeOK, Live
<1>4. CASE ServiceCheck(t)
  <2>1. AgreesWith(session, "service.check", work[t])
    BY <1>4 DEF ServiceCheck, At, Serial, ThreadsAgree
  <2>2. AgreesWith(session', "service.update", work[t])
    BY <1>4, <2>1 DEF ServiceCheck, storeVars, AgreesWith, HoldsState, HoldsSnapshot
  <2>3. ThreadsAgree'
    BY <1>4, <2>2, OneThreadAgrees DEF ServiceCheck
  <2> QED
    BY <1>1, <1>4, <2>3, SerialFromRead DEF ServiceCheck
<1>5. CASE VersionConflict(t)
  BY <1>1, <1>5, DoneAgrees, SerialFromRead DEF VersionConflict
<1>6. CASE ServiceUpdate(t)
  <2>1. Live /\ session \in SessionData /\ InOrder(session)
    BY <1>6 DEF ServiceUpdate, Update, TypeOK, Live, Serial
  <2>2. WriteOK(session, work[t])
    BY <1>6, <2>1 DEF ServiceUpdate, At, Serial, ThreadsAgree, AgreesWith, HoldsState
  <2>3. InOrder(session')
    BY <1>6, <2>1, <2>2, StateWriteInOrder DEF ServiceUpdate, Update
  <2> QED
    BY <1>1, <1>6, <2>3, DoneAgrees, SerialFromWrite DEF ServiceUpdate
<1> QED
  BY <1>2, <1>3, <1>4, <1>5, <1>6 DEF ServiceStep

\* A thread that carries a snapshot.
LEMMA SnapshotAgrees ==
  ASSUME NEW d, NEW label \in HoldsSnapshot
  PROVE  AgreesWith(d, label, SnapshotOf(d))
BY DEF AgreesWith, HoldsSnapshot, HoldsState

\* A batch made from the snapshot of the session is not ahead of it.
LEMMA BatchOfSnapshot ==
  ASSUME TypeOK, Live, UNCHANGED session,
         recent'.inputs = InputsOf(session), recent'.revision = session.generation_revision
  PROVE  BatchBehind'
<1>1. session.generation_revision \in Nat
  BY FieldType DEF TypeOK, Live
<1> QED
  BY <1>1 DEF BatchBehind

\* Generation and ranking.
LEMMA SerialTimetableStep ==
  ASSUME OneThread, TypeOK, Serial, GeneratingHasMajors, NEW t \in Threads, TimetableStep(t)
  PROVE  Serial'
<1>1. StoreMoves
  BY TimetableStepOK
<1>2. CASE GenerateRead(t)
  <2>1. ThreadsAgree'
    BY <1>2, OneThreadAgrees, SnapshotAgrees
       DEF GenerateRead, Begin, storeVars, HoldsSnapshot
  <2> QED
    BY <1>1, <1>2, <2>1, SerialFromRead DEF GenerateRead, Begin
<1>3. CASE GenerateCache(t)
  <2>1. Live => work[t] = SnapshotOf(session)
    BY <1>3 DEF GenerateCache, At, Serial, ThreadsAgree, AgreesWith, HoldsSnapshot
  <2>2. PICK added :
          /\ recent' = IF added = {} THEN None
                       ELSE [inputs |-> work[t].inputs, added |-> added,
                             revision |-> work[t].revision, source |-> "legacy"]
          /\ Goto(t, "generate.store", [inputs |-> work[t].inputs, added |-> added])
    BY <1>3 DEF GenerateCache
  <2>3. UNCHANGED session /\ (Live' => Live)
    BY <1>3 DEF GenerateCache, storeVars, Live
  <2>4. Live => AgreesWith(session, "generate.store", [inputs |-> work[t].inputs, added |-> added])
    BY <2>1 DEF SnapshotOf, AgreesWith, HoldsSnapshot, HoldsState
  <2>5. ThreadsAgree'
    BY <2>2, <2>3, <2>4, OneThreadAgrees
  <2>6. BatchBehind'
    <3>1. CASE added = {}
      BY <2>2, <3>1 DEF BatchBehind
    <3>2. CASE added # {} /\ Live
      BY <2>1, <2>2, <2>3, <3>2, BatchOfSnapshot DEF SnapshotOf
    <3> QED
      BY <2>3, <3>1, <3>2 DEF BatchBehind
  <2> QED
    BY <2>3, <2>5, <2>6 DEF Serial
<1>4. CASE GenerateStore(t) \/ RankStore(t)
  <2>1. Live /\ session \in SessionData /\ InOrder(session)
    BY <1>4 DEF GenerateStore, RankStore, UpdateTimetableGeneration, UpdateRankingResult,
                TypeOK, Live, Serial
  <2>2. session.fixed_courses # {} /\ AgreesWith(session, pc[t], work[t])
    BY <1>4, <2>1 DEF GenerateStore, RankStore, At, GeneratingHasMajors, Generating, Serial,
                      ThreadsAgree
  <2>3. InOrder(session')
    BY <1>4, <2>1, <2>2, ResultWritesInOrder
       DEF GenerateStore, RankStore, UpdateTimetableGeneration, UpdateRankingResult, At,
           AgreesWith
  <2> QED
    BY <1>1, <1>4, <2>3, DoneAgrees, SerialFromWrite DEF GenerateStore, RankStore
<1>5. CASE RankRead(t)
  <2>1. AgreesWith(session', "rank.store", session.generated_candidates)
    BY <1>5 DEF RankRead, Begin, storeVars, AgreesWith, HoldsSnapshot, HoldsState
  <2>2. ThreadsAgree'
    BY <1>5, <2>1, OneThreadAgrees DEF RankRead
  <2> QED
    BY <1>1, <1>5, <2>2, SerialFromRead DEF RankRead, Begin
<1> QED
  BY <1>2, <1>3, <1>4, <1>5 DEF TimetableStep

\* The agent's generation tool.
LEMMA SerialAgentStep ==
  ASSUME OneThread, TypeOK, Serial, NEW t \in Threads, AgentStep(t)
  PROVE  Serial'
<1> USE DEF HoldsSnapshot
<1>1. StoreMoves
  BY AgentStepOK
<1>2. CASE AgentRead(t)
  <2>1. ThreadsAgree'
    BY <1>2, OneThreadAgrees, SnapshotAgrees DEF AgentRead, Begin, storeVars
  <2> QED
    BY <1>1, <1>2, <2>1, SerialFromRead DEF AgentRead, Begin
<1>3. CASE AgentGate(t)
  <2>1. Live /\ work[t] = SnapshotOf(session)
    BY <1>3 DEF AgentGate, At, Serial, ThreadsAgree, AgreesWith
  <2>2. ThreadsAgree'
    BY <1>3, <2>1, OneThreadAgrees, SnapshotAgrees, DoneAgrees DEF AgentGate, storeVars
  <2> QED
    BY <1>1, <1>3, <2>2, SerialFromRead DEF AgentGate
<1>4. CASE AgentStamp(t)
  <2>1. Live /\ work[t] = SnapshotOf(session)
    BY <1>4 DEF AgentStamp, At, Serial, ThreadsAgree, AgreesWith
  <2>2. [work[t] EXCEPT !.revision = session.generation_revision] = SnapshotOf(session)
    BY <2>1 DEF SnapshotOf
  <2>3. ThreadsAgree'
    BY <1>4, <2>2, OneThreadAgrees, SnapshotAgrees DEF AgentStamp, storeVars
  <2> QED
    BY <1>1, <1>4, <2>3, SerialFromRead DEF AgentStamp
<1>5. CASE AgentClear(t)
  <2>1. Live => work[t] = SnapshotOf(session)
    BY <1>5 DEF AgentClear, At, Serial, ThreadsAgree, AgreesWith
  <2>2. ThreadsAgree'
    BY <1>5, <2>1, OneThreadAgrees, SnapshotAgrees DEF AgentClear, storeVars, Live
  <2> QED
    BY <1>1, <1>5, <2>2, SerialFromRead DEF AgentClear
<1>6. CASE AgentSave(t)
  <2>1. Live => work[t] = SnapshotOf(session)
    BY <1>6 DEF AgentSave, At, Serial, ThreadsAgree, AgreesWith
  <2>2. PICK added :
          recent' = IF added = {} THEN recent
                    ELSE [inputs |-> work[t].inputs, added |-> added,
                          revision |-> work[t].revision, source |-> "agent"]
    BY <1>6 DEF AgentSave
  <2>3. UNCHANGED storeVars /\ UNCHANGED session /\ (Live' => Live) /\ ThreadsAgree'
    BY <1>6, DoneAgrees DEF AgentSave, storeVars, Live
  <2>4. BatchBehind'
    <3>1. CASE added = {}
      BY <1>1, <2>2, <3>1, BatchKept DEF Serial
    <3>2. CASE added # {} /\ Live
      BY <2>1, <2>2, <2>3, <3>2, BatchOfSnapshot DEF SnapshotOf
    <3> QED
      BY <2>3, <3>1, <3>2 DEF BatchBehind
  <2> QED
    BY <2>3, <2>4 DEF Serial
<1> QED
  BY <1>2, <1>3, <1>4, <1>5, <1>6 DEF AgentStep

\* Selecting a candidate.
LEMMA SerialSelectStep ==
  ASSUME OneThread, TypeOK, Serial, NEW t \in Threads, SelectStep(t)
  PROVE  Serial'
<1>1. StoreMoves
  BY SelectStepOK
<1>2. CASE SelectRead(t)
  <2>1. AgreesWith(session', "select.candidate", [revision |-> session.generation_revision])
    BY <1>2 DEF SelectRead, Begin, storeVars, AgreesWith, HoldsSnapshot, HoldsState
  <2>2. ThreadsAgree'
    BY <1>2, <2>1, OneThreadAgrees DEF SelectRead
  <2> QED
    BY <1>1, <1>2, <2>2, SerialFromRead DEF SelectRead, Begin
<1>3. CASE SelectCandidate(t)
  <2>1. CASE Done(t)
    BY <1>1, <1>3, <2>1, DoneAgrees, SerialFromRead DEF SelectCandidate
  <2>2. CASE ~Done(t)
    <3>1. PICK candidate \in Candidates(recent) : Goto(t, "select.service", candidate)
      BY <1>3, <2>2 DEF SelectCandidate
    <3>2. candidate.basis = recent.inputs
      BY <3>1 DEF Candidates
    <3>3. Live => recent.revision = session.generation_revision /\ recent # None
      BY <1>3, <2>2 DEF SelectCandidate, At, Serial, ThreadsAgree, AgreesWith
    <3>4. Live => candidate.basis = InputsOf(session)
      BY <3>2, <3>3 DEF Serial, BatchBehind
    <3>5. Live' => AgreesWith(session', "select.service", candidate)
      BY <1>3, <3>4 DEF SelectCandidate, storeVars, Live, AgreesWith, HoldsSnapshot, HoldsState
    <3>6. ThreadsAgree'
      BY <3>1, <3>5, OneThreadAgrees
    <3> QED
      BY <1>1, <1>3, <3>6, SerialFromRead DEF SelectCandidate
  <2> QED
    BY <2>1, <2>2
<1>4. CASE SelectService(t)
  <2> DEFINE s == ToState(session)
             n == CandidateSelected(s, work[t])
  <2>1. Live /\ session \in SessionData /\ s \in PlanuSessionState
    BY <1>4, ToStateType DEF SelectService, TypeOK, Live
  <2>2. work[t] \in SelectedTimetable /\ work[t].basis = InputsOf(session)
    BY <1>4, <2>1, AtOK, LabelKinds
       DEF SelectService, At, Serial, ThreadsAgree, AgreesWith
  <2>3. /\ work[t] \in Nullable(SelectedTimetable)
        /\ "current" \in Nullable(SelectedTimetableStatus)
        /\ work[t] # None
    BY <2>2, NoneIsNoRecord DEF Nullable, SelectedTimetableStatus
  <2>4. n \in PlanuSessionState
    <3> HIDE DEF s
    <3> QED
      BY <2>1, <2>3, StateUpdate DEF CandidateSelected
  <2>5. SelectionMove(session, n)
    <3>1. CASE n = s
      BY <3>1 DEF SelectionMove, ToState
    <3>2. CASE n = [s EXCEPT !.selected_timetable = work[t],
                             !.selected_timetable_status = "current"]
      <4>1. /\ n.selected_timetable = work[t]
            /\ n.selected_timetable_status = "current"
            /\ ~InputsDiffer(s, n)
        BY <3>2 DEF ToState, InputsDiffer
      <4> QED
        BY <2>2, <2>3, <4>1 DEF SelectionMove
    <3> QED
      BY <3>1, <3>2 DEF CandidateSelected
  <2>6. Command(t, ToState(session), n) /\ UNCHANGED session
    BY <1>4 DEF SelectService, storeVars
  <2>7. ThreadsAgree'
    <3> HIDE DEF n
    <3> QED
      BY <2>1, <2>4, <2>5, <2>6, CommandAgrees DEF Serial, InOrder
  <2> QED
    BY <1>1, <1>4, <2>7, SerialFromRead DEF SelectService
<1> QED
  BY <1>2, <1>3, <1>4 DEF SelectStep

\* Every step keeps the invariant.
LEMMA SerialStep ==
  ASSUME OneThread, TypeOK, GeneratingHasMajors, Serial, Next
  PROVE  Serial'
<1>1. CASE SessionExpires
  BY <1>1 DEF SessionExpires, Expire, Serial, ThreadsAgree, BatchBehind, Live
<1>2. ASSUME NEW t \in Threads, SessionGone(t) PROVE Serial'
  BY <1>2 DEF SessionGone, storeVars, Serial, ThreadsAgree, BatchBehind, Live
<1> QED
  BY <1>1, <1>2, SerialMajorStep, SerialGeneralStep, SerialServiceStep, SerialTimetableStep,
     SerialAgentStep, SerialSelectStep DEF Next

\* An uploaded session has neither results nor a selection.
LEMMA SerialInit == Init => Serial
<1> SUFFICES ASSUME Init PROVE Serial
  OBVIOUS
<1>1. PICK d \in Departments, m \in MajorCatalogs : session = UploadedSession(d, m)
  BY DEF Init
<1>2. InOrder(session)
  BY <1>1, NoneIsNoRecord
     DEF UploadedSession, InOrder, SelectionOK, ResultsOK, SelectedTimetableStatus
<1>3. ThreadsAgree
  BY NothingAgrees DEF Init, ThreadsAgree, HoldsNothing
<1> QED
  BY <1>2, <1>3 DEF Init, Serial, BatchBehind

\* The invariant of one request at a time.
LEMMA SerialAlways == ASSUME OneThread PROVE Spec => []Serial
<1>1. TypeOK /\ MajorsFollow /\ Serial /\ [Next]_vars => Serial'
  <2>1. ASSUME Serial, UNCHANGED vars PROVE Serial'
    BY <2>1 DEF vars, Serial, ThreadsAgree, BatchBehind, Live
  <2> QED
    BY <2>1, SerialStep DEF MajorsFollow
<1> QED
  BY <1>1, SerialInit, TypeCorrect, MajorsFollowAlways, PTL DEF Spec

\* Comparing revisions, a selection accepts a cached batch only if it was
\* generated from the inputs the session has, also a batch of the agent, which is
\* stamped with a revision read after its inputs.
THEOREM BatchesCurrent == ASSUME OneThread PROVE Spec => []SelectableBatchIsCurrent
<1>1. Serial => SelectableBatchIsCurrent
  BY DEF Serial, BatchBehind, SelectableBatchIsCurrent
<1> QED
  BY <1>1, SerialAlways, PTL

\* Stored rankings rank the stored candidates, and these have the majors and the
\* pool of the session, whatever was reconfirmed or prepared since.
THEOREM ResultsFollow == ASSUME OneThread PROVE Spec => []ResultsFollowSession
<1>1. Serial => ResultsFollowSession
  BY DEF Serial, InOrder, ResultsOK, ResultsFollowSession
<1> QED
  BY <1>1, SerialAlways, PTL

\* A timetable shown as current was generated under the department, catalogs and
\* preferences the session has.
THEOREM SelectionsMatch == ASSUME OneThread PROVE Spec => []CurrentSelectionMatchesConditions
<1>1. Serial => CurrentSelectionMatchesConditions
  BY DEF Serial, InOrder, SelectionOK, MatchesConditions, CurrentSelectionMatchesConditions
<1> QED
  BY <1>1, SerialAlways, PTL

-----------------------------------------------------------------------------
(* Confirmations.                                                           *)

\* Every step keeps a pending preview apart from the confirmed one.
LEMMA PendingStep ==
  ASSUME TypeOK, MajorsFollow, PreviewIdsAreUnique, PendingIsNew, Next
  PROVE  PendingIsNew'
<1>1. CASE SessionExpires
  BY <1>1 DEF SessionExpires, Expire, PendingIsNew, Live
<1>2. ASSUME NEW t \in Threads, Quiet(t) PROVE PendingIsNew'
  <2>1. StoreKeepsMajors
    BY <1>2, QuietKeepsMajors DEF MajorsFollow
  <2> QED
    BY <2>1 DEF StoreKeepsMajors, MajorsKept, PendingIsNew, Live
<1>3. ASSUME NEW t \in Threads, PreviewSave(t) PROVE PendingIsNew'
  <2>1. PICK preview \in Preview :
          /\ Live
          /\ preview.preview_id \notin issued
          /\ session' = PreviewSaved(session, preview)
    BY <1>3 DEF PreviewSave, SavePreview
  <2>2. session \in SessionData
    BY <2>1 DEF TypeOK, Live
  <2>3. /\ session'.fixed_courses = session.fixed_courses
        /\ session'.confirmed_major_preview_id = session.confirmed_major_preview_id
        /\ \/ session'.pending_major_preview = session.pending_major_preview
           \/ session'.pending_major_preview = preview /\ session.fixed_courses # {}
    BY <2>1, <2>2 DEF PreviewSaved, SessionData
  <2>4. session.fixed_courses # {} => session.confirmed_major_preview_id \in issued
    BY <2>1 DEF MajorsFollow, ConfirmedMajorsAreClean, PreviewIdsAreUnique, StoredPreviews
  <2> QED
    BY <2>1, <2>3, <2>4 DEF PendingIsNew
<1>4. ASSUME NEW t \in Threads, ConfirmStore(t) \/ ReconfirmStore(t) PROVE PendingIsNew'
  <2>1. work[t].matched # {}
    BY <1>4 DEF ConfirmStore, ReconfirmStore, At, MajorsFollow, HeldPreviewsConfirmable,
                HoldsPreview, Confirmable
  <2>2. CASE ConfirmMajorPreview(work[t]) \/ ReconfirmMajorPreview(work[t])
    <3>1. /\ Live /\ session \in SessionData
          /\ \/ session.fixed_courses = {} /\ session' = MajorConfirmed(session, work[t])
             \/ session' = MajorReconfirmed(session, work[t])
      BY <2>2 DEF ConfirmMajorPreview, ReconfirmMajorPreview, ConfirmAccepted, TypeOK, Live
    <3>2. session.fixed_courses = {} => session.pending_major_preview = None
      BY <3>1 DEF MajorsFollow, StageFollowsMajors
    <3>3. session'.fixed_courses = work[t].matched /\ session'.pending_major_preview = None
      <4>1. CASE session.fixed_courses = {} /\ session' = MajorConfirmed(session, work[t])
        BY <3>1, <3>2, <4>1 DEF MajorConfirmed, SessionData
      <4>2. CASE session' = MajorReconfirmed(session, work[t])
        BY <3>1, <4>2 DEF MajorReconfirmed, SessionData
      <4> QED
        BY <3>1, <4>1, <4>2
    <3> QED
      BY <2>1, <3>3 DEF PendingIsNew
  <2>3. CASE UNCHANGED storeVars
    BY <2>3 DEF storeVars, PendingIsNew, Live
  <2> QED
    BY <1>4, <2>2, <2>3 DEF ConfirmStore, ReconfirmStore
<1> QED
  BY <1>1, <1>2, <1>3, <1>4, StepsOfMajors

\* The invariant of pending previews, for any number of threads.
LEMMA PendingAlways == Spec => []PendingIsNew
<1>1. Init => PendingIsNew
  BY DEF Init, PendingIsNew, UploadedSession
<1>2. TypeOK /\ MajorsFollow /\ PreviewIdsAreUnique /\ PendingIsNew /\ [Next]_vars => PendingIsNew'
  <2>1. ASSUME PendingIsNew, UNCHANGED vars PROVE PendingIsNew'
    BY <2>1 DEF vars, PendingIsNew, Live
  <2> QED
    BY <2>1, PendingStep
<1> QED
  BY <1>1, <1>2, TypeCorrect, MajorsFollowAlways, UniqueAlways, PTL DEF Spec

\* Writes that leave the generation inputs alone.
LEMMA InputsKept ==
  ASSUME NEW d \in SessionData
  PROVE  /\ \A preview : InputsOf(PreviewSaved(d, preview)) = InputsOf(d)
         /\ InputsOf(Touched(d)) = InputsOf(d)
         /\ \A list : /\ InputsOf(GenerationWritten(d, list)) = InputsOf(d)
                      /\ InputsOf(RankingWritten(d, list)) = InputsOf(d)
BY DEF InputsOf, PreviewSaved, Touched, GenerationWritten, RankingWritten, SessionData

\* A step that changes inputs and confirms no majors ends the confirmation.
LEMMA ConfirmationStep ==
  ASSUME TypeOK, Serial, PendingIsNew, [Next]_vars, Live, session' # None,
         InputsOf(session') # InputsOf(session),
         session'.confirmed_major_preview_id = session.confirmed_major_preview_id
  PROVE  ~session'.confirmed
<1>1. Next /\ ~UNCHANGED storeVars /\ session \in SessionData
  BY DEF vars, storeVars, TypeOK, Live
<1>2. PICK t \in Threads :
        Quiet(t) \/ PreviewSave(t) \/ ConfirmStore(t) \/ ReconfirmStore(t)
  BY <1>1, StepsOfMajors DEF SessionExpires, Expire
<1>3. ~PreviewSave(t)
  BY <1>1, InputsKept DEF PreviewSave, SavePreview
<1>4. ~ConfirmStore(t) /\ ~ReconfirmStore(t)
  <2> SUFFICES ASSUME ConfirmStore(t) \/ ReconfirmStore(t) PROVE FALSE
    OBVIOUS
  <2>1. work[t].preview_id \in PreviewIds
    BY AtOK, LabelKinds DEF ConfirmStore, ReconfirmStore, HoldsPreview, Preview
  <2>2. work[t].preview_id # None
    BY <2>1, ConstantsAreSeparate
  <2>3. CASE ConfirmMajorPreview(work[t])
    <3>1. session'.confirmed_major_preview_id = work[t].preview_id
      BY <1>1, <2>3 DEF ConfirmMajorPreview, MajorConfirmed, SessionData
    <3> QED
      BY <2>2, <2>3, <3>1 DEF ConfirmMajorPreview, ConfirmAccepted, PendingIsNew
  <2>4. CASE ReconfirmMajorPreview(work[t])
    <3>1. session'.confirmed_major_preview_id = work[t].preview_id
      BY <1>1, <2>4 DEF ReconfirmMajorPreview, MajorReconfirmed, SessionData
    <3> QED
      BY <2>4, <3>1 DEF ReconfirmMajorPreview, ReconfirmAccepted, PendingIsNew
  <2> QED
    BY <1>1, <2>3, <2>4 DEF ConfirmStore, ReconfirmStore
<1>5. CASE PoolStore(t)
  BY <1>1, <1>5 DEF PoolStore, UpdateGeneralCoursePool, PoolWritten, SessionData
<1>6. CASE ServiceUpdate(t)
  <2>1. WriteOK(session, work[t]) /\ session' = StateWritten(session, work[t])
    BY <1>6 DEF ServiceUpdate, Update, At, Serial, ThreadsAgree, AgreesWith, HoldsState
  <2>2. session'.confirmed = work[t].confirmed
    BY <1>1, <2>1 DEF StateWritten, SessionData
  <2> QED
    BY <2>1, <2>2 DEF WriteOK
<1>7. CASE ServiceTouch(t) \/ GenerateStore(t) \/ RankStore(t)
  BY <1>1, <1>7, InputsKept
     DEF ServiceTouch, Touch, GenerateStore, RankStore, UpdateTimetableGeneration,
         UpdateRankingResult
<1>8. CASE Quiet(t)
  <2>1. CASE PreviewRead(t) \/ ConfirmRead(t) \/ ReconfirmRead(t) \/ SessionGone(t)
    BY <1>1, <2>1 DEF PreviewRead, ConfirmRead, ReconfirmRead, SessionGone, Begin
  <2>2. CASE GeneralStep(t)
    BY <1>1, <1>5, <2>2 DEF GeneralStep, PrepareRead, ChatRead, RegisterRead, Begin
  <2>3. CASE ServiceStep(t)
    BY <1>1, <1>6, <1>7, <2>3
       DEF ServiceStep, ServiceRead, ServiceCheck, VersionConflict, Begin
  <2>4. CASE TimetableStep(t)
    BY <1>1, <1>7, <2>4 DEF TimetableStep, GenerateRead, GenerateCache, RankRead, Begin
  <2>5. CASE AgentStep(t)
    BY <1>1, <2>5
       DEF AgentStep, AgentRead, AgentGate, AgentStamp, AgentClear, AgentSave, Begin
  <2>6. CASE SelectStep(t)
    BY <1>1, <2>6 DEF SelectStep, SelectRead, SelectCandidate, SelectService, Begin
  <2> QED
    BY <1>8, <2>1, <2>2, <2>3, <2>4, <2>5, <2>6 DEF Quiet
<1> QED
  BY <1>2, <1>3, <1>4, <1>8

\* No step that changes the department, a catalog, the preferences, the selected
\* ids or the pool leaves the confirmation of the old conditions behind, except
\* the confirmation of another major preview.
THEOREM ConfirmationFalls == ASSUME OneThread PROVE Spec => ConfirmationFallsWithInputs
<1>1. TypeOK /\ Serial /\ PendingIsNew /\ [Next]_vars =>
        [ Live /\ session' # None
            /\ InputsOf(session') # InputsOf(session)
            /\ session'.confirmed_major_preview_id = session.confirmed_major_preview_id =>
          ~session'.confirmed ]_vars
  BY ConfirmationStep
<1> QED
  BY <1>1, TypeCorrect, SerialAlways, PendingAlways, PTL DEF Spec, ConfirmationFallsWithInputs

=============================================================================

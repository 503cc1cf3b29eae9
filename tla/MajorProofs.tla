----------------------------- MODULE MajorProofs -----------------------------
(***************************************************************************)
(* Theorems about the majors of a session: previews, confirmations and the *)
(* stages that depend on them, for any number of threads.                  *)
(*                                                                         *)
(* Confirming is a read, a check and a write in two critical sections, and *)
(* the write compares ids and courses only.  What makes it right is what a *)
(* thread on its way to the store can hold, and that no preview id is ever *)
(* drawn twice.                                                            *)
(***************************************************************************)
EXTENDS PlanuProofs

\* Labels of a thread that is going to store candidates or a ranking.
Generating == {"generate.cache", "generate.store", "rank.store"}

\* A preview on its way to the store is fit to be confirmed.
HeldPreviewsConfirmable ==
  \A t \in Threads : pc[t] \in HoldsPreview => Confirmable(work[t])

\* A generation or a ranking that has begun has majors to store them with.
GeneratingHasMajors ==
  Live => \A t \in Threads : pc[t] \in Generating => session.fixed_courses # {}

\* The inductive invariant for stages and confirmed majors.
MajorsFollow ==
  /\ StageFollowsMajors
  /\ ConfirmedMajorsAreClean
  /\ HeldPreviewsConfirmable
  /\ GeneratingHasMajors

\* Previews of the store, and those threads are about to confirm.
StoredPreviews ==
  IF Live THEN {session.latest_major_preview, session.pending_major_preview} \ {None} ELSE {}

HeldPreviews == {work[t] : t \in {u \in Threads : pc[u] \in HoldsPreview}}

\* Each known preview has an id of its own that was drawn before.
PreviewIdsAreUnique ==
  \A p \in StoredPreviews \cup HeldPreviews :
    /\ p.preview_id \in issued
    /\ \A q \in StoredPreviews \cup HeldPreviews : p.preview_id = q.preview_id => p = q

-----------------------------------------------------------------------------
(* How steps move the majors.                                               *)

\* A write that leaves the majors and their previews alone, and moves the stage
\* to candidates or a ranking only where there are majors.
MajorsKept(d, e) ==
  /\ e.fixed_courses = d.fixed_courses
  /\ e.confirmed_major_credits = d.confirmed_major_credits
  /\ e.confirmed_major_preview_id = d.confirmed_major_preview_id
  /\ e.latest_major_preview = d.latest_major_preview
  /\ e.pending_major_preview = d.pending_major_preview
  /\ \/ e.session_stage = d.session_stage
     \/ e.session_stage = "general_ready"
     \/ e.session_stage \in {"candidates_generated", "ranking_completed"} /\ d.fixed_courses # {}

StoreKeepsMajors ==
  /\ issued' = issued
  /\ \/ session' = session
     \/ session' = None
     \/ Live /\ MajorsKept(session, session')

\* A thread goes on, taking a preview only from a live session that has it, and
\* towards results only while there are majors.
ThreadGoesOn ==
  \E t \in Threads, label \in Labels : \E value :
    /\ Goto(t, label, value)
    /\ label \in HoldsPreview => value \in StoredPreviews /\ Confirmable(value)
    /\ label \in Generating => (Live => session.fixed_courses # {})

\* The record transformations that do not concern majors.
LEMMA OtherWritesKeepMajors ==
  ASSUME NEW d \in SessionData
  PROVE  /\ \A s : MajorsKept(d, StateWritten(d, s))
         /\ MajorsKept(d, Touched(d))
         /\ \A pool : MajorsKept(d, PoolWritten(d, pool))
         /\ \A list : d.fixed_courses # {} => /\ MajorsKept(d, GenerationWritten(d, list))
                                              /\ MajorsKept(d, RankingWritten(d, list))
<1>1. ASSUME NEW s PROVE MajorsKept(d, StateWritten(d, s))
  BY DEF StateWritten, MajorsKept, SessionData
<1>2. MajorsKept(d, Touched(d))
  BY DEF Touched, MajorsKept, SessionData
<1>3. ASSUME NEW pool PROVE MajorsKept(d, PoolWritten(d, pool))
  BY DEF PoolWritten, MajorsKept, SessionData
<1>4. ASSUME NEW list, d.fixed_courses # {}
      PROVE  MajorsKept(d, GenerationWritten(d, list)) /\ MajorsKept(d, RankingWritten(d, list))
  BY <1>4 DEF GenerationWritten, RankingWritten, MajorsKept, SessionData
<1> QED
  BY <1>1, <1>2, <1>3, <1>4

\* The steps of a thread that can leave the majors alone.
Quiet(t) ==
  \/ PreviewRead(t) \/ ConfirmRead(t) \/ ReconfirmRead(t)
  \/ GeneralStep(t) \/ ServiceStep(t) \/ TimetableStep(t) \/ AgentStep(t) \/ SelectStep(t)
  \/ SessionGone(t)

\* They do.
LEMMA QuietKeepsMajors ==
  ASSUME TypeOK, GeneratingHasMajors, NEW t \in Threads, Quiet(t)
  PROVE  StoreKeepsMajors
<1>1. Live => session \in SessionData
  BY DEF TypeOK, Live
<1>2. UNCHANGED storeVars => StoreKeepsMajors
  BY DEF storeVars, StoreKeepsMajors
<1>3. CASE PreviewRead(t) \/ ConfirmRead(t) \/ ReconfirmRead(t)
  BY <1>2, <1>3 DEF PreviewRead, ConfirmRead, ReconfirmRead, Begin
<1>4. CASE GeneralStep(t)
  BY <1>1, <1>2, <1>4, OtherWritesKeepMajors
     DEF GeneralStep, PrepareRead, ChatRead, PoolStore, RegisterRead, Begin,
         UpdateGeneralCoursePool, StoreKeepsMajors
<1>5. CASE ServiceStep(t)
  BY <1>1, <1>2, <1>5, OtherWritesKeepMajors
     DEF ServiceStep, ServiceRead, ServiceTouch, ServiceCheck, VersionConflict, ServiceUpdate,
         Begin, Touch, Update, StoreKeepsMajors
<1>6. CASE TimetableStep(t)
  <2>1. CASE GenerateRead(t) \/ GenerateCache(t) \/ RankRead(t)
    BY <1>2, <2>1 DEF GenerateRead, GenerateCache, RankRead, Begin
  <2>2. CASE GenerateStore(t) \/ RankStore(t)
    <3>1. Live /\ session.fixed_courses # {}
      BY <2>2 DEF GenerateStore, RankStore, At, UpdateTimetableGeneration, UpdateRankingResult,
                  GeneratingHasMajors, Generating
    <3> QED
      BY <1>1, <2>2, <3>1, OtherWritesKeepMajors
         DEF GenerateStore, RankStore, UpdateTimetableGeneration, UpdateRankingResult,
             StoreKeepsMajors
  <2> QED
    BY <1>6, <2>1, <2>2 DEF TimetableStep
<1>7. CASE AgentStep(t)
  BY <1>2, <1>7
     DEF AgentStep, AgentRead, AgentGate, AgentStamp, AgentClear, AgentSave, Begin
<1>8. CASE SelectStep(t)
  BY <1>2, <1>8 DEF SelectStep, SelectRead, SelectCandidate, SelectService, Begin
<1>9. CASE SessionGone(t)
  BY <1>2, <1>9 DEF SessionGone
<1> QED
  BY <1>3, <1>4, <1>5, <1>6, <1>7, <1>8, <1>9 DEF Quiet

\* Whatever a thread does, it goes on with what it may hold.
LEMMA ThreadsGoOn ==
  ASSUME TypeOK, StageFollowsMajors, GeneratingHasMajors, NEW t \in Threads,
         Quiet(t) \/ PreviewSave(t) \/ ConfirmStore(t) \/ ReconfirmStore(t)
  PROVE  ThreadGoesOn
<1> DEFINE plain == Labels \ (HoldsPreview \cup Generating)
<1>1. plain = {"idle", "preview.save", "register", "service.touch", "service.check",
               "service.update", "agent.gate", "agent.stamp", "agent.clear", "agent.save",
               "pool.store", "select.candidate", "select.service"}
  BY DEF Labels, Generating, HoldsNothing, HoldsPreview, HoldsState, HoldsSnapshot, HoldsList
<1>2. ASSUME NEW label \in plain, NEW value, Goto(t, label, value)
      PROVE  ThreadGoesOn
  BY <1>2 DEF ThreadGoesOn
<1>3. Done(t) => ThreadGoesOn
  BY <1>1, <1>2 DEF Done
<1>4. ASSUME NEW s, NEW n, Command(t, s, n)
      PROVE  ThreadGoesOn
  BY <1>1, <1>2, <1>4 DEF Command
<1>5. Generating \subseteq Labels \ HoldsPreview /\ HoldsPreview \subseteq Labels \ Generating
  BY DEF Labels, Generating, HoldsNothing, HoldsPreview, HoldsState, HoldsSnapshot, HoldsList
<1>6. ASSUME NEW label \in Generating, NEW value, Goto(t, label, value),
             Live => session.fixed_courses # {}
      PROVE  ThreadGoesOn
  BY <1>5, <1>6 DEF ThreadGoesOn
<1> HIDE DEF plain
<1>7. CASE PreviewRead(t) \/ PreviewSave(t) \/ ConfirmStore(t) \/ ReconfirmStore(t)
  BY <1>1, <1>2, <1>3, <1>7 DEF PreviewRead, PreviewSave, ConfirmStore, ReconfirmStore
<1>8. CASE ConfirmRead(t)
  <2>1. /\ Goto(t, "confirm.store", session.latest_major_preview)
        /\ session.latest_major_preview \in StoredPreviews
        /\ Confirmable(session.latest_major_preview)
    BY <1>8 DEF ConfirmRead, Begin, StoredPreviews, Confirmable
  <2> QED
    BY <1>5, <2>1 DEF ThreadGoesOn, HoldsPreview
<1>9. CASE ReconfirmRead(t)
  <2>1. /\ Goto(t, "reconfirm.store", session.pending_major_preview)
        /\ session.pending_major_preview \in StoredPreviews
        /\ Confirmable(session.pending_major_preview)
    BY <1>9 DEF ReconfirmRead, Begin, StoredPreviews, Confirmable
  <2> QED
    BY <1>5, <2>1 DEF ThreadGoesOn, HoldsPreview
<1>10. CASE GeneralStep(t)
  BY <1>1, <1>2, <1>4, <1>10 DEF GeneralStep, PrepareRead, ChatRead, PoolStore, RegisterRead
<1>11. CASE ServiceStep(t)
  BY <1>1, <1>2, <1>3, <1>4, <1>11
     DEF ServiceStep, ServiceRead, ServiceTouch, ServiceCheck, VersionConflict, ServiceUpdate
<1>12. CASE TimetableStep(t)
  <2>1. "generate.cache" \in Generating /\ "generate.store" \in Generating
          /\ "rank.store" \in Generating
    BY DEF Generating
  <2>2. CASE GenerateRead(t)
    BY <1>6, <2>1, <2>2 DEF GenerateRead
  <2>3. CASE GenerateCache(t)
    <3>1. Live => session.fixed_courses # {}
      BY <2>1, <2>3 DEF GenerateCache, At, GeneratingHasMajors
    <3> QED
      BY <1>6, <2>1, <2>3, <3>1 DEF GenerateCache
  <2>4. CASE RankRead(t)
    <3>1. session.fixed_courses # {}
      BY <2>4 DEF RankRead, Begin, StageFollowsMajors
    <3> QED
      BY <1>6, <2>1, <2>4, <3>1 DEF RankRead
  <2>5. CASE GenerateStore(t) \/ RankStore(t)
    BY <1>3, <2>5 DEF GenerateStore, RankStore
  <2> QED
    BY <1>12, <2>2, <2>3, <2>4, <2>5 DEF TimetableStep
<1>13. CASE AgentStep(t)
  BY <1>1, <1>2, <1>3, <1>13
     DEF AgentStep, AgentRead, AgentGate, AgentStamp, AgentClear, AgentSave
<1>14. CASE SelectStep(t)
  BY <1>1, <1>2, <1>3, <1>4, <1>14 DEF SelectStep, SelectRead, SelectCandidate, SelectService
<1>15. CASE SessionGone(t)
  BY <1>3, <1>15 DEF SessionGone
<1> QED
  BY <1>7, <1>8, <1>9, <1>10, <1>11, <1>12, <1>13, <1>14, <1>15 DEF Quiet

-----------------------------------------------------------------------------
(* Stages and confirmed majors.                                             *)

\* What the store holds follows the majors after a write that keeps them.
LEMMA KeptMajorsFollow ==
  ASSUME TypeOK, StageFollowsMajors, ConfirmedMajorsAreClean, StoreKeepsMajors
  PROVE  StageFollowsMajors' /\ ConfirmedMajorsAreClean'
BY DEF StageFollowsMajors, ConfirmedMajorsAreClean, StoreKeepsMajors, MajorsKept, Live

\* The threads' part of the invariant, once the majors are known to stay.
LEMMA ThreadsFollow ==
  ASSUME TypeOK, HeldPreviewsConfirmable, GeneratingHasMajors, ThreadGoesOn,
         Live' => Live /\ (session.fixed_courses # {} => session'.fixed_courses # {})
  PROVE  HeldPreviewsConfirmable' /\ GeneratingHasMajors'
<1>1. PICK t \in Threads, label \in Labels : \E value :
        /\ Goto(t, label, value)
        /\ label \in HoldsPreview => value \in StoredPreviews /\ Confirmable(value)
        /\ label \in Generating => (Live => session.fixed_courses # {})
  BY DEF ThreadGoesOn
<1>2. PICK value :
        /\ Goto(t, label, value)
        /\ label \in HoldsPreview => value \in StoredPreviews /\ Confirmable(value)
  BY <1>1
<1>3. /\ pc' = [pc EXCEPT ![t] = label] /\ work' = [work EXCEPT ![t] = value]
      /\ pc \in [Threads -> Labels] /\ DOMAIN work = Threads
  BY <1>2 DEF Goto, TypeOK, ThreadsOK
<1>4. ASSUME NEW u \in Threads, pc'[u] \in HoldsPreview
      PROVE  Confirmable(work'[u])
  <2>1. CASE u = t
    <3>1. pc'[u] = label /\ work'[u] = value
      BY <1>3, <2>1
    <3> QED
      BY <1>2, <1>4, <3>1
  <2>2. CASE u # t
    <3>1. pc'[u] = pc[u] /\ work'[u] = work[u]
      BY <1>3, <2>2
    <3> QED
      BY <1>4, <3>1 DEF HeldPreviewsConfirmable
  <2> QED
    BY <2>1, <2>2
<1>5. ASSUME NEW u \in Threads, pc'[u] \in Generating, Live'
      PROVE  session'.fixed_courses # {}
  <2>1. CASE u = t
    BY <1>1, <1>3, <1>5, <2>1
  <2>2. CASE u # t
    BY <1>3, <1>5, <2>2 DEF GeneratingHasMajors
  <2> QED
    BY <2>1, <2>2
<1> QED
  BY <1>4, <1>5 DEF HeldPreviewsConfirmable, GeneratingHasMajors

\* save_major_preview keeps the order of stages.
LEMMA SavedPreviewFollows ==
  ASSUME TypeOK, StageFollowsMajors, ConfirmedMajorsAreClean,
         NEW preview \in Preview, SavePreview(preview)
  PROVE  /\ StageFollowsMajors' /\ ConfirmedMajorsAreClean'
         /\ Live /\ Live' /\ session'.fixed_courses = session.fixed_courses
<1>1. Live /\ session \in SessionData /\ session' = PreviewSaved(session, preview)
  BY DEF SavePreview, TypeOK, Live
<1>2. Live'
  BY <1>1, PreviewSavedCorrect, NoneIsNoRecord DEF Live
<1>3. CASE session.fixed_courses # {}
  <2>1. /\ session'.fixed_courses = session.fixed_courses
        /\ session'.confirmed_major_credits = session.confirmed_major_credits
        /\ session'.confirmed_major_preview_id = session.confirmed_major_preview_id
        /\ session'.latest_major_preview = session.latest_major_preview
        /\ session'.session_stage = session.session_stage
    BY <1>1, <1>3 DEF PreviewSaved, SessionData
  <2> QED
    BY <1>1, <1>2, <1>3, <2>1 DEF StageFollowsMajors, ConfirmedMajorsAreClean
<1>4. CASE session.fixed_courses = {}
  <2>1. /\ session'.fixed_courses = {}
        /\ session'.pending_major_preview = session.pending_major_preview
        /\ session'.session_stage = "major_preview_created"
    BY <1>1, <1>4 DEF PreviewSaved, SessionData
  <2> QED
    BY <1>1, <1>2, <1>4, <2>1 DEF StageFollowsMajors, ConfirmedMajorsAreClean
<1> QED
  BY <1>3, <1>4

\* A write of confirmed majors puts them, the preview and the stage in order.
LEMMA StoredConfirmationFollows ==
  ASSUME TypeOK, NEW preview \in Preview,
         Confirmable(preview),
         ConfirmMajorPreview(preview) \/ ReconfirmMajorPreview(preview)
  PROVE  /\ StageFollowsMajors' /\ ConfirmedMajorsAreClean'
         /\ Live /\ Live' /\ session'.fixed_courses # {}
<1>1. Live /\ session \in SessionData
  BY DEF ConfirmMajorPreview, ReconfirmMajorPreview, TypeOK, Live
<1>2. \/ session' = MajorConfirmed(session, preview)
      \/ session' = MajorReconfirmed(session, preview)
  BY DEF ConfirmMajorPreview, ReconfirmMajorPreview
<1>3. Live'
  BY <1>1, <1>2, MajorConfirmedCorrect, MajorReconfirmedCorrect, NoneIsNoRecord DEF Live
<1>4. /\ session'.fixed_courses = preview.matched
      /\ session'.confirmed_major_credits = preview.matched
      /\ session'.confirmed_major_preview_id = preview.preview_id
      /\ session'.latest_major_preview = preview
      /\ session'.session_stage = "major_confirmed"
  <2>1. CASE session' = MajorConfirmed(session, preview)
    BY <1>1, <2>1 DEF MajorConfirmed, SessionData
  <2>2. CASE session' = MajorReconfirmed(session, preview)
    BY <1>1, <2>2 DEF MajorReconfirmed, SessionData
  <2> QED
    BY <1>2, <2>1, <2>2
<1> QED
  BY <1>1, <1>3, <1>4 DEF StageFollowsMajors, ConfirmedMajorsAreClean, Confirmable

\* What ConfirmStore and ReconfirmStore hand to the store.
LEMMA ConfirmationsFollow ==
  ASSUME TypeOK, MajorsFollow, NEW t \in Threads, ConfirmStore(t) \/ ReconfirmStore(t)
  PROVE  /\ StageFollowsMajors' /\ ConfirmedMajorsAreClean'
         /\ Live' => Live /\ (session.fixed_courses # {} => session'.fixed_courses # {})
<1>1. work[t] \in Preview
  BY AtOK, LabelKinds DEF ConfirmStore, ReconfirmStore, HoldsPreview
<1>2. Confirmable(work[t])
  BY DEF ConfirmStore, ReconfirmStore, At, MajorsFollow, HeldPreviewsConfirmable, HoldsPreview
<1>3. CASE ConfirmMajorPreview(work[t]) \/ ReconfirmMajorPreview(work[t])
  BY <1>1, <1>2, <1>3, StoredConfirmationFollows
<1>4. CASE UNCHANGED storeVars
  BY <1>4 DEF MajorsFollow, StageFollowsMajors, ConfirmedMajorsAreClean, storeVars, Live
<1> QED
  BY <1>3, <1>4 DEF ConfirmStore, ReconfirmStore

\* The steps of Next, as far as majors are concerned.
LEMMA StepsOfMajors ==
  ASSUME Next
  PROVE  \/ SessionExpires
         \/ \E t \in Threads :
              Quiet(t) \/ PreviewSave(t) \/ ConfirmStore(t) \/ ReconfirmStore(t)
BY DEF Next, MajorStep, Quiet

\* Every step keeps the invariant.
LEMMA MajorsFollowStep ==
  ASSUME TypeOK, MajorsFollow, Next
  PROVE  MajorsFollow'
<1> USE DEF MajorsFollow
<1>1. CASE SessionExpires
  BY <1>1
     DEF SessionExpires, Expire, Live, threadVars, StageFollowsMajors, ConfirmedMajorsAreClean,
         HeldPreviewsConfirmable, GeneratingHasMajors
<1>2. ASSUME NEW t \in Threads, Quiet(t) PROVE MajorsFollow'
  <2>1. StoreKeepsMajors /\ ThreadGoesOn
    BY <1>2, QuietKeepsMajors, ThreadsGoOn
  <2>2. Live' => Live /\ (session.fixed_courses # {} => session'.fixed_courses # {})
    BY <2>1 DEF StoreKeepsMajors, MajorsKept, Live
  <2> QED
    BY <2>1, <2>2, KeptMajorsFollow, ThreadsFollow
<1>3. ASSUME NEW t \in Threads, PreviewSave(t) PROVE MajorsFollow'
  <2>1. PICK preview \in Preview : SavePreview(preview)
    BY <1>3 DEF PreviewSave
  <2> QED
    BY <1>3, <2>1, SavedPreviewFollows, ThreadsGoOn, ThreadsFollow
<1>4. ASSUME NEW t \in Threads, ConfirmStore(t) \/ ReconfirmStore(t) PROVE MajorsFollow'
  BY <1>4, ConfirmationsFollow, ThreadsGoOn, ThreadsFollow
<1> QED
  BY <1>1, <1>2, <1>3, <1>4, StepsOfMajors

\* An uploaded session has no majors yet.
LEMMA MajorsFollowInit == Init => MajorsFollow
<1> SUFFICES ASSUME Init PROVE MajorsFollow
  OBVIOUS
<1>1. PICK d \in Departments, m \in MajorCatalogs : session = UploadedSession(d, m)
  BY DEF Init
<1>2. \A t \in Threads : pc[t] \notin HoldsPreview \cup Generating
  BY DEF Init, HoldsPreview, Generating
<1>3. /\ session.fixed_courses = {}
      /\ session.session_stage = "catalog_parsed"
      /\ session.pending_major_preview = None
  BY <1>1 DEF UploadedSession
<1> QED
  BY <1>2, <1>3
     DEF MajorsFollow, StageFollowsMajors, ConfirmedMajorsAreClean, HeldPreviewsConfirmable,
         GeneratingHasMajors

\* The invariant of stages and confirmed majors.
LEMMA MajorsFollowAlways == Spec => []MajorsFollow
<1>1. TypeOK /\ MajorsFollow /\ [Next]_vars => MajorsFollow'
  <2>1. ASSUME MajorsFollow, UNCHANGED vars PROVE MajorsFollow'
    BY <2>1
       DEF vars, MajorsFollow, StageFollowsMajors, ConfirmedMajorsAreClean,
           HeldPreviewsConfirmable, GeneratingHasMajors, Live
  <2> QED
    BY <2>1, MajorsFollowStep
<1> QED
  BY <1>1, MajorsFollowInit, TypeCorrect, PTL DEF Spec

\* A session never shows candidates, rankings or a pending preview without
\* confirmed majors, nor the first preview stage with them, although a handler
\* that stores them looked at the majors in an earlier call.
THEOREM StagesFollow == Spec => []StageFollowsMajors
<1>1. MajorsFollow => StageFollowsMajors
  BY DEF MajorsFollow
<1> QED
  BY <1>1, MajorsFollowAlways, PTL

\* The confirmed majors are those of one preview without warnings, whichever
\* previews other threads save between the handler's read and its write.
THEOREM ConfirmedClean == Spec => []ConfirmedMajorsAreClean
<1>1. MajorsFollow => ConfirmedMajorsAreClean
  BY DEF MajorsFollow
<1> QED
  BY <1>1, MajorsFollowAlways, PTL

-----------------------------------------------------------------------------
(* Only the newest preview is confirmed.                                    *)

\* What is known of previews after a step that saves none.
LEMMA PreviewsPassedOn ==
  ASSUME TypeOK, ThreadGoesOn
  PROVE  HeldPreviews' \subseteq HeldPreviews \cup StoredPreviews
<1>1. PICK t \in Threads, label \in Labels : \E value :
        /\ Goto(t, label, value)
        /\ label \in HoldsPreview => value \in StoredPreviews
  BY DEF ThreadGoesOn
<1>2. PICK value :
        /\ Goto(t, label, value)
        /\ label \in HoldsPreview => value \in StoredPreviews
  BY <1>1
<1>3. /\ pc' = [pc EXCEPT ![t] = label] /\ work' = [work EXCEPT ![t] = value]
      /\ pc \in [Threads -> Labels] /\ DOMAIN work = Threads
  BY <1>2 DEF Goto, TypeOK, ThreadsOK
<1>4. ASSUME NEW u \in Threads, pc'[u] \in HoldsPreview
      PROVE  work'[u] \in HeldPreviews \cup StoredPreviews
  <2>1. CASE u = t
    <3>1. pc'[u] = label /\ work'[u] = value
      BY <1>3, <2>1
    <3> QED
      BY <1>2, <1>4, <3>1
  <2>2. CASE u # t
    <3>1. pc'[u] = pc[u] /\ work'[u] = work[u]
      BY <1>3, <2>2
    <3> QED
      BY <1>4, <3>1 DEF HeldPreviews
  <2> QED
    BY <2>1, <2>2
<1> QED
  BY <1>4 DEF HeldPreviews

\* A step that brings no new preview keeps the ids unique.
LEMMA UniqueWithout ==
  ASSUME PreviewIdsAreUnique, issued' = issued,
         StoredPreviews' \cup HeldPreviews' \subseteq StoredPreviews \cup HeldPreviews
  PROVE  PreviewIdsAreUnique'
BY DEF PreviewIdsAreUnique

\* So does a step that brings one with a fresh id.
LEMMA UniqueWith ==
  ASSUME PreviewIdsAreUnique, NEW preview, preview.preview_id \notin issued,
         issued' = issued \cup {preview.preview_id},
         StoredPreviews' \cup HeldPreviews'
           \subseteq StoredPreviews \cup HeldPreviews \cup {preview}
  PROVE  PreviewIdsAreUnique'
BY DEF PreviewIdsAreUnique

\* What the store holds after each kind of step.
LEMMA StoredPreviewsStep ==
  ASSUME TypeOK
  PROVE  /\ StoreKeepsMajors => StoredPreviews' \subseteq StoredPreviews
         /\ \A preview \in Preview :
              /\ SavePreview(preview) => StoredPreviews' \subseteq StoredPreviews \cup {preview}
              /\ ConfirmMajorPreview(preview) \/ ReconfirmMajorPreview(preview) =>
                   StoredPreviews' \subseteq StoredPreviews \cup {preview}
<1>1. StoreKeepsMajors => StoredPreviews' \subseteq StoredPreviews
  BY DEF StoreKeepsMajors, MajorsKept, StoredPreviews, Live
<1>2. ASSUME NEW preview \in Preview, SavePreview(preview)
      PROVE  StoredPreviews' \subseteq StoredPreviews \cup {preview}
  <2>1. Live /\ session \in SessionData /\ session' = PreviewSaved(session, preview)
    BY <1>2 DEF SavePreview, TypeOK, Live
  <2>2. /\ session'.latest_major_preview \in {session.latest_major_preview, preview}
        /\ session'.pending_major_preview \in {session.pending_major_preview, preview}
    BY <2>1 DEF PreviewSaved, SessionData
  <2> QED
    BY <2>1, <2>2 DEF StoredPreviews
<1>3. ASSUME NEW preview \in Preview,
             ConfirmMajorPreview(preview) \/ ReconfirmMajorPreview(preview)
      PROVE  StoredPreviews' \subseteq StoredPreviews \cup {preview}
  <2>1. /\ Live /\ session \in SessionData
        /\ \/ session' = MajorConfirmed(session, preview)
           \/ session' = MajorReconfirmed(session, preview)
    BY <1>3 DEF ConfirmMajorPreview, ReconfirmMajorPreview, TypeOK, Live
  <2>2. /\ session'.latest_major_preview = preview
        /\ session'.pending_major_preview \in {session.pending_major_preview, None}
    BY <2>1 DEF MajorConfirmed, MajorReconfirmed, SessionData
  <2> QED
    BY <2>1, <2>2 DEF StoredPreviews
<1> QED
  BY <1>1, <1>2, <1>3

\* Preview ids stay unique.
LEMMA UniqueStep ==
  ASSUME TypeOK, MajorsFollow, PreviewIdsAreUnique, Next
  PROVE  PreviewIdsAreUnique'
<1>1. CASE SessionExpires
  <2>1. HeldPreviews' = HeldPreviews /\ StoredPreviews' = {} /\ issued' = issued
    BY <1>1 DEF SessionExpires, Expire, HeldPreviews, StoredPreviews, Live, threadVars
  <2> QED
    BY <2>1, UniqueWithout
<1>2. ASSUME NEW t \in Threads,
             Quiet(t) \/ PreviewSave(t) \/ ConfirmStore(t) \/ ReconfirmStore(t)
      PROVE  HeldPreviews' \subseteq HeldPreviews \cup StoredPreviews
  BY <1>2, ThreadsGoOn, PreviewsPassedOn DEF MajorsFollow
<1>3. ASSUME NEW t \in Threads, Quiet(t) PROVE PreviewIdsAreUnique'
  <2>1. StoreKeepsMajors
    BY <1>3, QuietKeepsMajors DEF MajorsFollow
  <2> QED
    BY <1>2, <1>3, <2>1, StoredPreviewsStep, UniqueWithout DEF StoreKeepsMajors
<1>4. ASSUME NEW t \in Threads, PreviewSave(t) PROVE PreviewIdsAreUnique'
  <2>1. PICK preview \in Preview : SavePreview(preview)
    BY <1>4 DEF PreviewSave
  <2>2. /\ preview.preview_id \notin issued
        /\ issued' = issued \cup {preview.preview_id}
    BY <2>1 DEF SavePreview
  <2>3. StoredPreviews' \subseteq StoredPreviews \cup {preview}
    BY <1>4, <2>1, StoredPreviewsStep
  <2> QED
    BY <1>2, <1>4, <2>2, <2>3, UniqueWith
<1>5. ASSUME NEW t \in Threads, ConfirmStore(t) \/ ReconfirmStore(t)
      PROVE  PreviewIdsAreUnique'
  <2>1. work[t] \in Preview /\ work[t] \in HeldPreviews
    BY <1>5, AtOK, LabelKinds DEF ConfirmStore, ReconfirmStore, At, HoldsPreview, HeldPreviews
  <2>2. issued' = issued
    BY <1>5
       DEF ConfirmStore, ReconfirmStore, ConfirmMajorPreview, ReconfirmMajorPreview, storeVars
  <2>3. StoredPreviews' \subseteq StoredPreviews \cup {work[t]}
    <3>1. CASE ConfirmMajorPreview(work[t]) \/ ReconfirmMajorPreview(work[t])
      BY <1>5, <2>1, <3>1, StoredPreviewsStep
    <3>2. CASE UNCHANGED storeVars
      BY <3>2 DEF storeVars, StoredPreviews, Live
    <3> QED
      BY <1>5, <3>1, <3>2 DEF ConfirmStore, ReconfirmStore
  <2> QED
    BY <1>2, <1>5, <2>1, <2>2, <2>3, UniqueWithout
<1> QED
  BY <1>1, <1>3, <1>4, <1>5, StepsOfMajors

\* A step that changes the confirmed preview confirms the newest one.
LEMMA NewestStep ==
  ASSUME TypeOK, MajorsFollow, PreviewIdsAreUnique, [Next]_vars, Live, session' # None,
         session'.confirmed_major_preview_id # session.confirmed_major_preview_id
  PROVE  session'.latest_major_preview =
           IF session.fixed_courses = {} THEN session.latest_major_preview
           ELSE session.pending_major_preview
<1>1. Next /\ ~StoreKeepsMajors /\ session \in SessionData
  BY DEF vars, StoreKeepsMajors, MajorsKept, TypeOK, Live
<1>2. ASSUME NEW preview \in Preview, SavePreview(preview) PROVE FALSE
  BY <1>1, <1>2 DEF SavePreview, PreviewSaved, SessionData
<1>3. PICK t \in Threads : ConfirmStore(t) \/ ReconfirmStore(t)
  BY <1>1, <1>2, QuietKeepsMajors, StepsOfMajors
     DEF MajorsFollow, PreviewSave, SessionExpires, Expire
<1>4. work[t] \in HeldPreviews
  BY <1>3 DEF ConfirmStore, ReconfirmStore, At, HoldsPreview, HeldPreviews
<1>5. CASE ConfirmMajorPreview(work[t])
  <2>1. /\ session.fixed_courses = {}
        /\ session.latest_major_preview # None
        /\ session.latest_major_preview.preview_id = work[t].preview_id
    BY <1>5 DEF ConfirmMajorPreview, ConfirmAccepted
  <2>2. session.latest_major_preview = work[t]
    BY <1>4, <2>1 DEF PreviewIdsAreUnique, StoredPreviews
  <2>3. session'.latest_major_preview = work[t]
    BY <1>1, <1>5 DEF ConfirmMajorPreview, MajorConfirmed, SessionData
  <2> QED
    BY <2>1, <2>2, <2>3
<1>6. CASE ReconfirmMajorPreview(work[t])
  <2>1. /\ session.pending_major_preview # None
        /\ session.pending_major_preview.preview_id = work[t].preview_id
    BY <1>6 DEF ReconfirmMajorPreview, ReconfirmAccepted
  <2>2. session.pending_major_preview = work[t]
    BY <1>4, <2>1 DEF PreviewIdsAreUnique, StoredPreviews
  <2>3. session'.latest_major_preview = work[t]
    BY <1>1, <1>6 DEF ReconfirmMajorPreview, MajorReconfirmed, SessionData
  <2>4. session.fixed_courses # {}
    BY <2>1 DEF MajorsFollow, StageFollowsMajors
  <2> QED
    BY <2>2, <2>3, <2>4
<1> QED
  BY <1>1, <1>3, <1>5, <1>6 DEF ConfirmStore, ReconfirmStore, storeVars, StoreKeepsMajors

\* The invariant of preview ids.
LEMMA UniqueAlways == Spec => []PreviewIdsAreUnique
<1>1. Init => PreviewIdsAreUnique
  <2> SUFFICES ASSUME Init PROVE PreviewIdsAreUnique
    OBVIOUS
  <2>1. PICK d \in Departments, m \in MajorCatalogs : session = UploadedSession(d, m)
    BY DEF Init
  <2>2. HeldPreviews = {} /\ StoredPreviews = {}
    BY <2>1 DEF Init, HeldPreviews, HoldsPreview, StoredPreviews, UploadedSession
  <2> QED
    BY <2>2 DEF PreviewIdsAreUnique
<1>2. TypeOK /\ MajorsFollow /\ PreviewIdsAreUnique /\ [Next]_vars => PreviewIdsAreUnique'
  <2>1. ASSUME PreviewIdsAreUnique, UNCHANGED vars PROVE PreviewIdsAreUnique'
    BY <2>1 DEF vars, PreviewIdsAreUnique, StoredPreviews, HeldPreviews, Live
  <2> QED
    BY <2>1, UniqueStep
<1> QED
  BY <1>1, <1>2, TypeCorrect, MajorsFollowAlways, PTL DEF Spec

\* Whatever previews other threads save between the handler's read and its
\* write, what is confirmed is the newest preview of its kind: the ids and
\* courses that the store compares stand for the whole preview.
THEOREM NewestConfirmed == Spec => OnlyNewestPreviewConfirmed
<1>1. TypeOK /\ MajorsFollow /\ PreviewIdsAreUnique /\ [Next]_vars =>
        [ Live /\ session' # None
            /\ session'.confirmed_major_preview_id # session.confirmed_major_preview_id =>
          session'.latest_major_preview =
            IF session.fixed_courses = {} THEN session.latest_major_preview
            ELSE session.pending_major_preview ]_vars
  BY NewestStep
<1> QED
  BY <1>1, TypeCorrect, MajorsFollowAlways, UniqueAlways, PTL
     DEF Spec, OnlyNewestPreviewConfirmed

=============================================================================

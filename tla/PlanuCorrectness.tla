-------------------------- MODULE PlanuCorrectness --------------------------
(***************************************************************************)
(* What makes the request handlers of PlanuBackend correct: which cached   *)
(* or stored results may be used, and for which inputs.                    *)
(*                                                                         *)
(* The first group must hold whatever the threads do.  The second holds    *)
(* for a client that waits for one answer before it sends the next request *)
(* (one thread), which is what SessionService asks of its callers.  The    *)
(* third states what the documentation or the tests say and the code does  *)
(* not do; the runs that check them end in a counterexample.               *)
(***************************************************************************)
EXTENDS PlanuBackend

-----------------------------------------------------------------------------
(* Types.                                                                   *)

HoldsNothing == {"idle", "preview.save", "register", "service.touch"}
HoldsPreview == {"confirm.store", "reconfirm.store"}
HoldsState == {"service.check", "service.update"}
HoldsSnapshot == {"generate.cache", "agent.gate", "agent.stamp", "agent.clear", "agent.save"}
HoldsList == {"generate.store", "rank.store"}

Labels ==
  HoldsNothing \cup HoldsPreview \cup HoldsState \cup HoldsSnapshot \cup HoldsList
    \cup {"pool.store", "select.candidate", "select.service"}

WorkOK(label, value) ==
  /\ label \in HoldsNothing => value = None
  /\ label \in HoldsPreview => value \in Preview
  /\ label \in HoldsState => value \in PlanuSessionState
  /\ label \in HoldsSnapshot => value \in Snapshot
  /\ label \in HoldsList => value \in CandidateList
  /\ label = "pool.store" => value \in GeneralPool
  /\ label = "select.candidate" => value \in [revision : Nat]
  /\ label = "select.service" => value \in SelectedTimetable

\* Every thread holds a value its next step can work with.
ThreadsOK ==
  /\ pc \in [Threads -> Labels]
  /\ DOMAIN work = Threads
  /\ \A t \in Threads : WorkOK(pc[t], work[t])

\* The store, the cache and every thread hold values of the types the code
\* declares (SessionData, GeneratedTimetableCandidate, PlanuSessionState): no
\* argument that update() reads as "unchanged" is ever stored as None.
TypeOK ==
  /\ session \in SessionData \cup {None}
  /\ issued \in SUBSET PreviewIds
  /\ recent \in CandidateBatch \cup {None}
  /\ ThreadsOK
  /\ served \in Nat

-----------------------------------------------------------------------------
(* For all interleavings.                                                   *)

\* Snapshots whose revision was read together with their inputs: those of the
\* handlers that have not written yet, and the legacy generator's cached batch.
Stamped ==
  {work[t] : t \in {u \in Threads : pc[u] \in {"generate.cache", "agent.gate"}}}
    \cup {b \in {recent} : b # None /\ b.source = "legacy"}

\* A generation revision identifies the inputs it was read with: a result
\* computed by generate_for_session from a snapshot carries the session's
\* revision only while the session still has exactly those inputs, however many
\* writes of other requests fell in between.  select_timetable_candidate
\* compares nothing but this number.
RevisionIdentifiesInputs ==
  Live =>
    \A s \in Stamped :
      s.revision = session.generation_revision => s.inputs = InputsOf(session)

\* The stage of a session never runs ahead of its majors: there are no stored
\* candidates or rankings, and no pending preview, without confirmed majors, and
\* the first preview stage is over once they are confirmed.
StageFollowsMajors ==
  Live =>
    LET confirmed == session.fixed_courses # {}
    IN  /\ session.session_stage \in
             {"major_confirmed", "candidates_generated", "ranking_completed"} => confirmed
        /\ session.session_stage = "major_preview_created" => ~confirmed
        /\ session.pending_major_preview # None => confirmed

\* Confirmed majors are those of one preview that the user saw and that had
\* nothing ambiguous or overlapping, although confirming reads the preview in
\* one call and stores the courses in another, with new previews in between.
ConfirmedMajorsAreClean ==
  Live /\ session.fixed_courses # {} =>
    /\ session.latest_major_preview # None
    /\ session.latest_major_preview.clean
    /\ session.latest_major_preview.matched = session.fixed_courses
    /\ session.latest_major_preview.preview_id = session.confirmed_major_preview_id
    /\ session.confirmed_major_credits = session.fixed_courses

\* A preview is confirmed only while it is the newest one of its kind: a preview
\* replaced between the handler's read and its write is refused as stale.
OnlyNewestPreviewConfirmed ==
  [][ Live /\ session' # None
        /\ session'.confirmed_major_preview_id # session.confirmed_major_preview_id =>
      session'.latest_major_preview =
        IF session.fixed_courses = {} THEN session.latest_major_preview
        ELSE session.pending_major_preview ]_vars

\* A stored record is never changed without a larger version, so a version
\* compared by SessionStoreRepository.save stands for the whole record.
VersionCountsWrites ==
  [][ Live /\ session' # None /\ session' # session =>
      session'.version > session.version ]_vars

\* The handlers implement the promise of generation_revision.
Revision ==
  INSTANCE PlanningRevision WITH
    Inputs <- GenerationInputs,
    Ended <- None,
    inputs <- IF session = None THEN None ELSE InputsOf(session),
    revision <- IF session = None THEN 0 ELSE session.generation_revision

RevisionSpec == Revision!Spec

-----------------------------------------------------------------------------
(* For one request at a time.                                               *)

\* Every cached batch that a selection would accept was generated from the
\* inputs the session has now, whichever generator made it.
SelectableBatchIsCurrent ==
  Live /\ recent # None /\ recent.revision = session.generation_revision =>
    recent.inputs = InputsOf(session)

\* A stored ranking ranks the stored candidates, and they were generated from
\* the majors and the general pool the session has.
ResultsFollowSession ==
  Live =>
    /\ session.latest_ranking_result # None =>
         session.latest_ranking_result = session.generated_candidates
    /\ session.generated_candidates # None =>
         /\ session.generated_candidates.inputs.fixed_courses = session.fixed_courses
         /\ session.generated_candidates.inputs.general_pool = session.general_pool

\* A selected timetable that is shown as current was generated under the
\* department, catalogs and preferences the session has.
CurrentSelectionMatchesConditions ==
  Live /\ session.selected_timetable_status = "current" =>
    LET basis == session.selected_timetable.basis
    IN  /\ basis.department = session.department
        /\ basis.major_catalog_id = session.major_catalog_id
        /\ basis.elective_catalog_id = session.elective_catalog_id
        /\ basis.hard_constraints = session.hard_constraints
        /\ basis.soft_preferences = session.soft_preferences

\* A step that changes the department, a catalog, the preferences, the selected
\* ids or the general pool leaves no confirmation of the old conditions behind
\* (confirming another major preview is the exception, see below).
ConfirmationFallsWithInputs ==
  [][ Live /\ session' # None
        /\ InputsOf(session') # InputsOf(session)
        /\ session'.confirmed_major_preview_id = session.confirmed_major_preview_id =>
      ~session'.confirmed ]_vars

-----------------------------------------------------------------------------
(* What the documentation says and the code does not do.                    *)

\* A current selection keeps exactly the confirmed majors ("Atomically replace
\* the confirmed major selection and clear descendants").
CurrentSelectionKeepsMajors ==
  Live /\ session.selected_timetable_status = "current"
       /\ session.selected_timetable.source = "legacy" =>
    session.selected_timetable.fixed = session.fixed_courses

\* Stored candidates contain the confirmed majors: reconfirming clears those of
\* the old majors, and no generation brings them back.
StoredCandidatesKeepMajors ==
  Live /\ session.generated_candidates # None =>
    session.generated_candidates.inputs.fixed_courses = session.fixed_courses

\* A change of the selected majors withdraws the confirmation of the conditions.
ConfirmationFallsWithMajors ==
  [][ Live /\ session' # None
        /\ session'.selected_major_course_ids # session.selected_major_course_ids =>
      ~session'.confirmed ]_vars

\* Majors can be confirmed once a preview has been made: a preview fit to be confirmed
\* stays in the stage that confirming asks for.
PreviewStaysConfirmable ==
  Live /\ session.fixed_courses = {} /\ Confirmable(session.latest_major_preview) =>
    session.session_stage = "major_preview_created"

\* A timetable becomes current only if it was generated from the conditions the
\* session has at that moment, provided that nobody wrote between the read of the
\* session by the service and its write.
SelectionIsOfCurrentConditions ==
  [][ \A t \in Threads :
        /\ ServiceUpdate(t) /\ Live /\ session.version = work[t].version
        /\ session'.selected_timetable # session.selected_timetable
        /\ session'.selected_timetable_status = "current"
        => LET basis == session'.selected_timetable.basis
           IN  /\ basis.hard_constraints = session'.hard_constraints
               /\ basis.soft_preferences = session'.soft_preferences ]_vars

=============================================================================

# PLANU: verification of the planning backend

PLANU builds university timetables. A FastAPI backend (`src/backend/app`) keeps
one *planning session* per client in memory; a Flutter client
(`src/frontend/lib`) sends it requests. These modules model the session and the
handlers that read and write it, the two generators that search timetables and
the two rankings that order them, and the agent that turns a chat message into
changes of the session. What they are about: a timetable shown, stored or
selected has to belong to the conditions the session has, although handlers run
for seconds on copies of it; a search must not lose or invent timetables; and a
chat turn has to tell the truth about what it changed, however it ended.

## 1. The system

Paths are below `src/backend/app`.

| component | state it keeps | operations | talks to |
|---|---|---|---|
| session store (`services/session_store.py`) | a dictionary of `SessionData`, one re-entrant lock, a sliding 30-minute TTL | save a preview, confirm, reconfirm, update, pool, generation, ranking, delete, expiry | called by everything below; each method is one critical section |
| repository adapter (`repositories/session_store_repository.py`) | none | get, save (check of the version, then write), touch, delete | store |
| session service (`services/session_service.py`) | none | profile, selected majors, preference patches and commands, confirmation of the conditions, selection of a timetable | adapter: read, compute, save |
| preference models (`models/session_preferences.py`, `services/session_service.py`) | hard constraints and soft preferences of a session | validation, merging of patches, priority of hard over soft | session service |
| recent candidates (`repositories/recent_timetable_candidate_repository.py`) | the newest batch of candidates per session, under its own lock | save, clear, get | both generators write it, selection reads it |
| major preview and confirmation (`major_preview_service.py`, `major_confirm_service.py`) | none | preview (awaits a language model), manual preview, confirm, reconfirm | store |
| general-course preparation (`general_course_pool_service.py`) | none | prepare a pool on request; prepare a default pool before every chat message; register its catalog | store, session service |
| legacy generation and ranking (`timetable_generation_service.py`, `timetable_generator.py`, `timetable_ranking_service.py`, `timetable_ranker.py`) | none | read the session, search or rank, cache and store the result | store, recent candidates |
| rules and validation (`timetable_validator.py`, `campus_rule_engine.py`, `timetable_candidate_validation_service.py`) | none | conflicts, travel, credit bounds, hard rules | both generators |
| preparation of the agent's generation (`timetable_preparation_service.py`) | none | readiness issues, sources of sections, the request | candidate search |
| candidate search (`timetable_candidate_generation_service.py`) | the stack, node counter and results of one search | generate | rules |
| scoring and soft ranking (`timetable_scoring_service.py`, `timetable_soft_ranking_service.py`) | none | score and order candidates | pure |
| agent tools (`agent_tools/*.py`) | none | readiness gate, revision stamp, generate, select, clear; every change of conditions and majors as read, command, comparison | store, session service, recent candidates |
| session-state agent (`agents/session_state_agent.py`) | the counters and the last summary of a turn | asks a model for tools and runs them, within limits | all tools |
| supervisor and domain agents (`agents/supervisor_agent.py`, `container.py`) | none | route a message, refuse one, restrict the toolset | session-state agent |
| session routes (`routes/sessions.py`) | none | chat, deletion of one condition, pass-through | agents, session service |
| upload and creation (`major_catalog_upload_service.py`) | temporary files | create a session in five writes, clean up on failure | store |
| in-memory repositories | dictionaries under a lock | the same contract as the adapter | tests |
| parsers, matchers, language models | none | text to values | |
| wiring (`deps.py`) | the object graph, once per process | build | |
| frontend `MajorFlowController` | idle/busy, the last answer | preview, confirm, retry | backend |

Behaviours that are hard here:

* **Concurrency.** Plain route handlers run in a thread pool, async ones on the
  event loop with awaits in the middle. The only locks last for one call, so a
  handler that reads, computes and writes back interleaves with all others.
* **Two kinds of staleness.** `version` counts every write of a record and
  guards `SessionStoreRepository.save`; `generation_revision` counts changes of
  generation inputs and guards the selection of a candidate. Nothing else ties a
  result to what it was computed from.
* **Two generations of code.** The legacy generator and the agent's generator
  share the cache of candidates and the validator, and take their majors from
  different fields (`fixed_courses`, `selected_major_course_ids`).
* **Order of requests.** Stages admit requests in an order; chat is admitted in
  every stage and has side effects.
* **The session may vanish** (TTL, delete) between two calls of one handler.
* **Pruned searches.** Both generators cut branches by targets, credits and
  limits; a cut that is one off loses timetables without a word.
* **Turns that stop half-way.** A chat turn ends at a limit, an error of the
  model or a tool that fails, after some of its changes are stored.
* **Conditions that come in by different ways.** Patches, commands, resets and
  deletions each have code of their own that keeps hard over soft.

The hazards are listed one by one, each at its line, in `PROJECT.json`.

What makes each component correct:

* store: a changed record has a larger version; changed inputs have a larger
  revision; only the newest preview is confirmed; the stage agrees with the
  majors; no field receives a `None` that its type does not have.
* session service: a change of the conditions withdraws their confirmation and
  marks a selection stale; the conditions never contradict each other. Lost
  updates between concurrent commands are conceded by the class itself
  (`session_service.py:238`) and are not claimed.
* preparation, generation, ranking: what is stored belongs to the session that
  stores it.
* recent candidates and selection: a candidate that a selection accepts was
  generated from the inputs the session has.
* candidate search: only admissible timetables, none twice, all of them unless a
  limit cut the search, which it then says; an empty answer has a reason.
* legacy generator: only timetables that can be recommended, the best of them
  first, a reason for an empty answer.
* rankings: a preference that is met does not cost; no wish outweighs a target.
* chat turn: the limits hold, every turn is answered, the answer says whether
  the session was changed and shows it as it is, and a message is refused only
  if no agent would take it.
* deletion of a condition: takes that condition and nothing else.

## 2. The modules

Four families share a few modules of rules.

```
PlanningRevision          what generation_revision promises (abstract)
        ^ refined by
SessionStore              the store: one action per method
   ^ EXTENDS
PlanuBackend              handlers as threads over store and cache
   ^ EXTENDS
PlanuCorrectness          the properties
   ^ EXTENDS         ^ EXTENDS
MCPlanuBackend       PlanuProofs
                       ^ EXTENDS
                     MajorProofs
                       ^ EXTENDS
                     SerialProofs

TimetableOffer            what a generator promises (abstract)
        ^ refined by both searches
TimetableRules            conflicts, travel, credits, hard rules
   ^ EXTENDS                          ^ EXTENDS
CandidateSearch                     LegacyGeneration
   ^                                  ^
CandidateRanking                    LegacyRanking
   ^                                  ^
CandidateCorrectness                LegacyCorrectness
   ^               ^                  ^              ^
MCCandidateSearch  CandidateProofs  MCLegacyGeneration  LegacyProofs
                     ^
                   CompletenessProofs

RulesProofs EXTENDS TimetableRules: sums and sorting, for both families of proofs

Preferences               conditions: models, patches, commands
   ^ EXTENDS
ChatTurn                  a chat message and a deletion, call by call
   ^ EXTENDS
ChatCorrectness
   ^            ^
MCChatTurn   ChatProofs
```

### The session and its handlers

**SessionStore** is `session_store.py` for the entry of one session id. Each
public method holds the store's lock from beginning to end, so each is one
action. A method is split into the checks that lead to its assignments
(`ConfirmAccepted`, `ReconfirmAccepted`) and the transformation of the record
(`MajorConfirmed`, `StateWritten`, ...), so that the transformations can be
proved about alone. `update()` is modelled as the adapter calls it, with a whole
state; it reads `None` as "unchanged" (`Supplied`) and increments the revision
once per differing field (`ClearedBy`). Courses, catalogs, preferences are
values that are only compared; a credit total is the set of courses it sums;
timestamps are left out, and `confirmed` is "`..._confirmed_at` is not `None`".
Preview ids are `uuid4` values and hence never drawn twice (`issued`).
`SelectedTimetable.basis` and the `inputs` of a list of candidates are history:
the program does not store them, no guard compares them, and they exist to state
what a result was computed from.

**PlanuBackend** is every handler of a session, run by `Threads`. `pc[t]` is the
next call the thread makes into the store or the cache, `work[t]` the values it
carries there. Each call is a step; the computing between two calls is folded
into one of them.

| request | steps | code |
|---|---|---|
| `preview` | `PreviewRead`, `PreviewSave` | `MajorPreviewService.create_preview`, `create_manual_preview` |
| `confirm`, `reconfirm` | `ConfirmRead`, `ConfirmStore`; `ReconfirmRead`, `ReconfirmStore` | `MajorConfirmService._confirm` |
| `prepare` | `PrepareRead`, `PoolStore`, `RegisterRead`, then a save | `prepare_for_session` |
| `chat` | `ChatRead`, (`PoolStore`), `RegisterRead`, then a save | `prepare_default_for_session` |
| `profile`, `majors`, `preferences`, `confirm_conditions`, `clear_selection` | `ServiceRead`, then a save | the commands of `SessionService` |
| a save | `ServiceCheck` or `VersionConflict`, `ServiceUpdate`; or `ServiceTouch` if nothing differs | `_save_changed_state`, `SessionStoreRepository.save`, `touch` |
| `generate` | `GenerateRead`, `GenerateCache`, `GenerateStore` | `generate_for_session` |
| `rank` | `RankRead`, `RankStore` | `rank_for_session` |
| `agent_generate` | `AgentRead`, `AgentGate`, `AgentStamp`, `AgentClear`, `AgentSave` | `TimetableGenerationTools` |
| `select` | `SelectRead`, `SelectCandidate`, `SelectService`, then a save | `select_timetable_candidate` |
| any | `SessionGone`, `SessionExpires` | `_get_live_locked` raises; TTL or delete |

A request that is refused at its first read changes nothing and is no action.
What a handler computes from data outside the session is arbitrary: the courses
a prompt matches, the courses a pool keeps, the combinations a search finds, the
values a preference patch results in. The agent's request is taken to be a copy
of a summary the model read earlier in the same turn.

**PlanuCorrectness** has the properties in three groups: for all interleavings;
for one request at a time, which is what `SessionService` asks of its callers;
and statements of the documentation or the tests that the code does not meet.

**PlanningRevision** is the abstract specification of the revision number: inputs
are replaced only together with a larger number. `Revision` in PlanuCorrectness
instantiates it with `InputsOf(session)` and `generation_revision` (and "ended"
for a session that is gone); `RevisionSpec` is the refinement.

**MCPlanuBackend** adds symmetry for TLC. Threads, courses, preview ids and
departments are never told apart; no liveness is checked, so the reduction is
sound.

### The two searches and their rankings

**TimetableRules** has what both generators judge sections by: overlapping
meetings, travel (`CanTravel` on the first digits of two buildings, between
neighbours of a day, within `MaxGap` minutes for the agent and without a bound
for the legacy route; a day is sorted by start, and class times of one section that
start together keep the order of its list, `Precedes`), credit bounds that are inclusive or not, and the
agent's rules per section. Sections and courses are numbers in the order of
their ids; times are minutes; credits are whole numbers.

**CandidateSearch** is `TimetablePreparationService` followed by
`TimetableCandidateGenerationService.generate`. `Prepare` refuses an ask with its
readiness issues or makes a request of it. The set-up filters the sections,
orders the courses and finds required courses that cannot be met. The recursion
`backtrack` is a stack machine: a frame is an open call with its course index,
the sections added so far and its loop position; a step is one visit of a call,
one section tried, or one return, so that each place where the code looks at the
node limit or the result limit is a state. `reason` and `failures` are the
result's `termination_reason` and the codes of its failures.

**CandidateRanking** scores and orders what was found
(`rank_timetable_candidates`), all components of the default policy, in
hundredths of a point so that every weight is whole.

**LegacyGeneration** is `TimetableGenerator.generate_detailed`. A step is one pass
of one of its two loops: one choice of required courses, largest first, or one
choice of electives for it. The hard filters, the credit ceilings, the range of
elective counts, the objective key and the diagnostics are operators.
**LegacyRanking** is `TimetableRankingService.rank_for_session` for a given
template: hard filters again, weights per template, scores in 120ths of a point,
the sort with all its tie-breaks.

**CandidateCorrectness** and **LegacyCorrectness** define an admissible timetable
as a property of a set of sections, without following a loop, and state the
properties against it. **TimetableOffer** is the abstract specification of a
generator: it offers timetables one by one, each admissible, none twice, at most
as many as allowed, takes none back, and answers. `Promise` and `LegacyPromise`
instantiate it with the results found so far.

### Conditions and the chat turn

**Preferences** is the algebra of a session's conditions: the two models with
their validators, patches (supplied values, clears, inclusive flags that come
with their bounds, the swap between required and excluded courses, hard over
soft), and the commands that change one field. Operators return the set of
accepted outcomes: empty means the code raises.

**ChatTurn** is one chat message and one request that deletes a condition, over
one session. `Receive` is the supervisor's routing and the domain agent's
responsibility check; a message is the set of markers found in it. A turn is
`SessionStateAgent.run`: `FirstSummary`, then whatever the model asks for
(`ModelFails`, `ModelStops`, `ModelMisuses`, a reading tool, a changing tool), then
`FinalSummary` and the second read of `Respond`. A changing tool is five calls
with others in between: its own read of the session (`ToolReadsBefore`), the
service's read and command (`ToolCommands`), the version check (`ToolChecks`), the
write (`ToolWrites`) or the refresh of an unchanged session (`ToolTouches`). The
deletion (`DeleteReads`, `DeletePatches`, `DeleteChecks`, `DeleteWrites`) builds its
patch from one read and applies it to another, as `routes/sessions.py:145` does,
and the session may expire at any step. `history` is history: what the turn found,
how often it wrote, whether somebody else did.

**ChatCorrectness** has the properties, **MCChatTurn** the menu of calls.

Definitions named as wrong variants (`ConfirmAcceptedStale`,
`PoolWrittenUnrevised`, ...) are used by no action. Each is one plausible mistake
in the code; substituted for the right definition it makes a property fail, which
shows that the property watches that code.

## 3. What the runs check

The sessions of the runs of PlanuBackend begin as a successful upload leaves
them: stage `catalog_parsed`, version 5, revision 4 (the upload writes the record
five times, changing four generation inputs).

| run | instance | shows |
|---|---|---|
| `majors_concurrent` | 2 threads, 6 requests, 2 courses, 2 previews, 1 area | `RevisionIdentifiesInputs`, `StageFollowsMajors`, `ConfirmedMajorsAreClean`, `OnlyNewestPreviewConfirmed` and `RevisionSpec` under every interleaving of preview, confirm, reconfirm, preparation, chat, generation, ranking and expiry |
| `service_concurrent` | 2 threads, 5 requests, 1 course, 2 departments, 2 hard constraints | `VersionCountsWrites`, `RevisionIdentifiesInputs` and `RevisionSpec` under every interleaving of the service's commands, chat, the agent's generation and selection: lost updates never leave changed inputs under an old number |
| `serial` | 1 thread, 7 requests of all fourteen kinds | `TypeOK`, `SelectableBatchIsCurrent`, `ResultsFollowSession`, `CurrentSelectionMatchesConditions`, `ConfirmationFallsWithInputs`: with one request at a time, results and confirmations belong to the session's inputs |
| `candidate_search` | 7 sections of 4 courses, about 1000 asks, 15,611 states | `CandidatesAreAdmissible` and `ExhaustedSearchIsComplete` (the search offers exactly the admissible timetables), `LimitsAreKept`, `EmptyAnswerIsExplained`, `SearchKeepsPromise` (it implements TimetableOffer, and answers), `SatisfiedPreferenceDoesNotCost` |
| `legacy_generation` | 8 sections of 6 courses, 99 orders, 2 wishes, 4 templates, 4,555 states | `BestIsFound`, `EmptyRecommendationIsExplained`, `LegacyKeepsPromise`, `MetWishScoresNoLess`, `TargetsComeFirst` |
| `chat_turn` | 1 turn of at most 4 tools, 2 of them changing, 12 calls to choose from, 3 deletions, all 32 sets of markers, 227,898 states | `ConditionsStayConsistent`, `AnswerReportsChanges`, `AnswerShowsSession`, `ToolsStayWithinLimits`, `RefusalMeansNobodyAccepts`, `DeletionTakesOne`, and `TurnsEnd` |

Six runs end in a counterexample; each refutes one statement of the repository
about itself.

| run | what happens |
|---|---|
| `reconfirm_keeps_selection` | reconfirming replaces the majors "and clear[s] descendants" (`session_store.py:339`), but a selected timetable of the old majors stays `CURRENT` |
| `confirm_keeps_confirmation` | a change of the selected majors withdraws the confirmation when it goes through the service (the test at `test_condition_summary_confirmation_gate.py:293`), not when it comes from confirming a preview |
| `chat_before_confirm` | a chat message between preview and confirmation prepares the default pool, moves the stage to `general_ready`, and the preview is refused with "only after a preview" (`major_confirm_service.py:102`) |
| `generation_races_reconfirm` | a generation begun before a reconfirmation stores candidates of the old majors after it |
| `selection_races_change` | a change of conditions between the tool's revision check and the service's write makes an outdated timetable current, which the tool's message (`timetable_selection_tools.py:60`) excludes. Only the legacy generator runs, whose batches carry the revision that was read with their inputs, so what lets the old conditions through is the selection's second read alone: with the revision compared in the service's write, the run ends without an error |
| `chat_unchanged` | the tools decide what they changed by lists of fields that omit `min_credit_inclusive` and `max_credit_inclusive` (`session_agent_tools.py:131`) and, for a reset, `excluded_elective_areas`: a turn that changed only these answers that nothing was changed |

### What the properties except

Some properties name an exception where the code does something else and nothing
says what it should do. Each is a hazard in `PROJECT.json`.

* A gap of exactly 120 minutes satisfies the wish for a compact day and is
  penalised as a long one (`SatisfiedPreferenceDoesNotCost`).
* A first class wished before nine is met by one at half past eight, which scores
  less than a late one (`MetWishScoresNoLess`).
* The credit target of the legacy generator is taken for its limit, so an
  exclusive maximum excludes the target itself (`TargetAsLimit`); with a minimum
  the number of electives follows from the minimum alone (`ElectivesUpToMinimum`),
  and electives that a hard condition names are not counted
  (`MoreNamedThanAsked`), so that a request for none of them and a hard condition
  for one finds nothing. `BestIsFound` leaves these requests out.
* A class between two far buildings makes the trip between them possible, since
  only neighbours are compared. A search that drops the two before it tries the
  third never offers the three; `ExhaustedSearchIsComplete` and `BestIsFound` leave
  such timetables out.
* A message about a revision that also names a condition is refused by all
  (`RefusalMeansNobodyAccepts`).
* The agent's generation gives its batch a revision read after its request
  (`AgentStamp`), so a concurrent change can leave timetables of the old conditions
  under the new revision. `SelectableBatchIsCurrent` speaks of one request at a time,
  and `RevisionIdentifiesInputs` of batches that carry the revision of their inputs.
* `AnswerReportsChanges`, `AnswerShowsSession` and `DeletionTakesOne` speak of a
  session that nobody else wrote in between; `AnswerReportsChanges` leaves out the
  fields of `chat_unchanged`.

### Bounds

| bound | why it is enough |
|---|---|
| `MaxRequests` 4 to 7 | the longest chain of requests in the code is preview, confirm, preview, reconfirm, prepare, generate, rank or select; seven reach all of it but one last step, and mutants and counterexamples show that the interesting endings occur. The proofs hold for any number |
| `Threads` 1 or 2 | every handler relates the session to at most one snapshot of its own; a disturbance by a third thread could be made by the second in a later request. The proofs hold for any number (SerialProofs: for one) |
| `Courses` 1 or 2 | majors are only compared: two are enough for "none", "some", "others" |
| `PreviewIds` 0 or 2 | one confirmed and one pending preview, or two rivals; a run where all are drawn refuses further previews only |
| `Departments`, `HardConstraints` 1 or 2, `SoftPreferences` 1 | an old and a new value; soft preferences take the same path as hard constraints, which vary instead |
| `MajorCatalogs`, `ElectiveCatalogs` 1 | an id is set or not; the catalog of a live session exists as long as the session |
| `Areas` 0 or 1, `Electives` 1 | a pool is empty or not, limited or not; a batch has no candidate, the bare majors, or majors with a general course |
| the catalog of `candidate_search` | three courses with two sections each reach depth three with a choice at each; the sections contain one overlap with each other, one with the fixed major, one far trip, one class that bridges it, a barred department, two areas, and a section whose two class times overlap |
| its asks | all combinations of targets, required and excluded ids with node limits below, at and above the number of nodes and result limits below and above the number of results; each hard rule at, below and above its bound; each readiness issue |
| the catalog and orders of `legacy_generation` | two required courses with two sections, three electives, chains of three classes, a class before nine, a far trip, a section with two class times that start together; targets and bounds around the credits that can be reached, inclusive and exclusive (a bound that is not given is inclusive, as the route leaves it), limits 1, 3 and 50 |
| `MaxTools` 4, `MaxMutations` 2 | both limits are reached in either order, a changing tool before and after each, and one tool after a failed one; the proofs hold for any limits |
| calls and deletions of `chat_turn` | each changing tool; patches and commands that collide with what the session has and with each other, so that each refusal and each priority rule occurs; a list value, a whole list and a bound to delete |
| `Starts` 1 | a session with two days, a credit bound and an excluded area: what the calls and deletions touch; other sessions are those a first tool leaves |

`CHECK_DEADLOCK FALSE`: behaviours really end, when the session expires, the
bounded number of requests is served, the search has answered or the turn is
answered.

### Fairness and liveness

PlanuBackend states no fairness and no liveness is claimed of it: no handler
retries or waits for another, and a client may abandon a session at any point.

The searches are synchronous calls that run to their return, so `RankSpec` and
`LegacyRankSpec` assume weak fairness of their next step; that they answer, the
fairness of `TimetableOffer!Answer`, is then a consequence of the search being finite,
and not of the limits alone: TLC checks it with node limits that are never met.

A chat request that was received is run by its thread until it is answered: each
call into the store returns or raises, and so does the model: the simple one is a
function, the other one calls its provider with a timeout
(`openai_client.py:85`). `Spec` of ChatTurn assumes weak fairness of `Turn` and of
nothing else: not of the deletion, nor of receiving a message. The model may ask
for tools forever; `TurnsEnd` holds because every call counts against `MaxTools`.

## 4. What is proved

For any number of threads, requests, catalogs and sets of values. Each
invariant and action property that a passing run checks is proved, and the safety
part of each refinement; the runs show them on small instances.

| theorem | states | module |
|---|---|---|
| `TypeCorrect` | `Spec => []TypeOK` | PlanuProofs |
| `VersionsCount` | `Spec => VersionCountsWrites` | PlanuProofs |
| `RevisionRefined` | `Spec => RevisionSpec`: the handlers implement PlanningRevision | PlanuProofs |
| `RevisionIdentifies` | `Spec => []RevisionIdentifiesInputs` | PlanuProofs |
| `StagesFollow` | `Spec => []StageFollowsMajors` | MajorProofs |
| `ConfirmedClean` | `Spec => []ConfirmedMajorsAreClean` | MajorProofs |
| `NewestConfirmed` | `Spec => OnlyNewestPreviewConfirmed` | MajorProofs |
| `BatchesCurrent` | one thread: `Spec => []SelectableBatchIsCurrent` | SerialProofs |
| `ResultsFollow` | one thread: `Spec => []ResultsFollowSession` | SerialProofs |
| `SelectionsMatch` | one thread: `Spec => []CurrentSelectionMatchesConditions` | SerialProofs |
| `ConfirmationFalls` | one thread: `Spec => ConfirmationFallsWithInputs` | SerialProofs |
| `SearchLimitsKept` | `RankSpec => []LimitsAreKept` | CandidateProofs |
| `EmptyAnswersExplained` | `RankSpec => []EmptyAnswerIsExplained` | CandidateProofs |
| `AdmissibleOnly` | `RankSpec => []CandidatesAreAdmissible` | CandidateProofs |
| `SearchImplementsPromise` | `RankSpec => Promise!Init /\ [][Promise!Next]_(Promise!vars)`: the search implements TimetableOffer, but for its liveness | CandidateProofs |
| `SatisfiedPreferencesCostNothing` | `RankSpec => []SatisfiedPreferenceDoesNotCost` | CandidateProofs |
| `ExhaustedSearchesAreComplete` | `RankSpec => []ExhaustedSearchIsComplete` | CompletenessProofs |
| `SearchComesToAnEnd` | `RankSpec => [](SearchLeft \in [1..4 -> Nat]) /\ SearchRunsDown`: each step of the search lowers a measure of what it has left to do | CompletenessProofs |
| `SearchTypesHold` | `RankSpec => []SearchTypeOK` | CompletenessProofs |
| `LegacyTypesHold` | `LegacyRankSpec => []LegacyTypeOK` | LegacyProofs |
| `LegacyImplementsPromise` | `LegacyRankSpec => LegacyPromise!Init /\ [][LegacyPromise!Next]_(LegacyPromise!vars)`: the legacy generator implements TimetableOffer, but for its liveness | LegacyProofs |
| `BestAreFound` | `LegacyRankSpec => []BestIsFound` | LegacyProofs |
| `EmptyRecommendationsExplained` | `LegacyRankSpec => []EmptyRecommendationIsExplained` | LegacyProofs |
| `TargetsRankFirst` | `LegacyRankSpec => []TargetsComeFirst` | LegacyProofs |
| `MetWishesCostNothing` | `LegacyRankSpec => []MetWishScoresNoLess` | LegacyProofs |
| `LegacyComesToAnEnd` | `LegacyRankSpec => [](LegacyLeft \in [1..4 -> Nat]) /\ LegacyRunsDown`: so does each step of the legacy generator | LegacyProofs |
| `ChatTypesHold` | `Spec => []ChatTypeOK` | ChatProofs |
| `TurnsComeToAnEnd` | `Spec => [](StepsLeft \in Nat) /\ TurnsRunDown`: each step of a turn lowers the number of steps it has left, and no other step raises it | ChatProofs |
| `ConditionsConsistent` | `Spec => []ConditionsStayConsistent` | ChatProofs |
| `LimitsKept` | `Spec => []ToolsStayWithinLimits` | ChatProofs |
| `AnswersShowSession` | `Spec => []AnswerShowsSession` | ChatProofs |
| `AnswersReportChanges` | `Spec => []AnswerReportsChanges` | ChatProofs |
| `DeletionsTakeOne` | `Spec => DeletionTakesOne` | ChatProofs |
| `RefusalsAreRight` | `Spec => []RefusalMeansNobodyAccepts` | ChatProofs |

What the runs check and no theorem states is liveness: `TurnsEnd`, and that
both generators answer, the fairness in `SearchKeepsPromise` and `LegacyKeepsPromise`.
Of it one half is proved: nothing runs for ever (`SearchComesToAnEnd`,
`LegacyComesToAnEnd`, `TurnsComeToAnEnd`).

**Assumptions**, each evaluated by TLC in the runs.

* `ConstantsAreSeparate`, `NoneIsNoRecord`, `NoneIsNoError`, `NoneIsNoCode`: Python's
  `None` is no department, id, record or code, and the empty preference models are
  preference models. `BackendConstants`: the general catalog id is an elective
  catalog id.
* `CatalogIsTyped`: the catalog is finite, ids, credits and times are natural numbers
  here, a section has some credits and a meeting, and a meeting ends after it starts,
  as the models of a course and a class time demand (`models/course.py:118`).
  `SectionsAreNoCourses`: the id of a section is the id of its course, a dash and a
  number. `CoursesAreKnown`: every section is of a course of the catalog.
* `MeetingsAreListed`: a section's class times are a list, so two of them have different
  places in it. They may overlap: a comment of the model says that this is checked
  (`models/course.py:165`), but only repetitions are refused. The catalogs of both
  generators' runs hold such a section.
* `AsksHaveLimits`, `AsksAreTyped`, `OrdersAreTyped`, `WishesAreTyped`,
  `SoftPreferencesAreTyped`: what the request models admit (limits of at least one;
  bounds that are numbers or absent; finite lists), and what the route does before
  it calls the legacy generator: there are confirmed majors, and a bound that is not
  given is inclusive.
* `LimitsAreUsable`: what the agent's constructor checks of its two limits.
  `CallsAreTools`, `DeletionsAreFields`: the model's calls are calls of the tools there
  are, with the operations the tools' schemas have, and a deletion names a field.
  `StartsAreConsistent`: a session starts with conditions of their models' fields that do
  not contradict each other.

The theorems of SerialProofs have the hypothesis `OneThread`, two threads are equal,
which the run `serial` satisfies; without it the runs `generation_races_reconfirm` and
`selection_races_change` show what happens.

**Versions and revisions.** `TypeOK` is inductive: one lemma per group of handlers
(`MajorStepOK`, ..., `SelectStepOK`) on top of one lemma per method of the store.
Those lemmas also establish `Advances`, that a method's result is a well-typed
record with a larger version, whose revision is not smaller, and larger if any
generation input differs. `VersionsCount` and `RevisionRefined` follow from
`Advances` and `TypeOK`.
`RevisionIdentifiesInputs` is not inductive: it says nothing of a snapshot whose
revision lies ahead of the session's, which would become current later, with
other inputs. The strengthening is `StampedBehind`: every snapshot in a thread or
in the legacy generator's cached batch has a revision not larger than the
session's, and the session's inputs if it is equal. Reads bring in the session's
own pair (`StampedByRead`), the cache takes over a thread's (`StampedByCache`), and
all other steps bring in none (`StampedElsewhere`) while `Advances` only moves the
session ahead.

**Majors.** `MajorsFollow` adds to the two invariants that a preview a thread is about
to confirm is fit to be confirmed (`HeldPreviewsConfirmable`), although it may have
been replaced in the store, and that a generation or ranking under way has majors
in the session to store its result with (`GeneratingHasMajors`): majors are never
taken away again. Steps that leave the majors alone are treated once
(`KeptMajorsFollow`). `OnlyNewestPreviewConfirmed` compares whole previews where the
store compares an id and courses, so it needs `PreviewIdsAreUnique`: of the previews
in the store and in threads, no two share an id, since each was drawn once
(`issued`).

**One request at a time.** `Serial` says that the record is in order (`InOrder`: a
current selection matches the conditions, results match majors and pool), that
what the thread carries agrees with the session at its label (`ThreadsAgree`: its
snapshot is the session's, the state it is about to write leaves the record in
order and withdraws the confirmation if inputs change), and that the cached batch
is behind the session (`BatchBehind`). With one thread, a step of the store is the
step of the thread that carries the value. `ConfirmationFallsWithInputs` also needs
`PendingIsNew`, that a pending preview is another one than the confirmed.

**The agent's search.** `Limited` relates `reason` to the counters at every stage of the
search; each of the three places that look at the node limit keeps it. `Explained`
adds that the codes collected so far explain an empty result.
`CandidatesAreAdmissible` is proved from `Sound`: each open call on the stack holds
sections of the pool only (`Pool`: offered, of courses neither excluded nor fixed), and
an open call that tries sections points into a plan that lists the pool
(`PlanFits`). What is offered then passes the whole check of `Offered`, and
`OfferedIsAdmissible` shows that this check, made of the code's helpers, implies
`Admissible`, which follows none of them.
`SearchImplementsPromise` adds that a set of offers has no more elements than the list
(`OffersAreCounted`), whose length `Limited` bounds.

**Nothing is lost.** `Complete` is the invariant of the recursion: while no limit cut the
search, each admissible choice of sections is among the results or *covered* by an open
call (`Covers`): it contains what the call has selected, and the rest of it lies in the
courses, and for the current course in the sections, that the call still has to
visit. A call that ends hands what it covered to the calls that replace it
(`MovingOn`, `Exploring`, `ExploredCovers`), and each cut is shown to be of a call that covers
nothing: a partial timetable that breaks a rule stays broken (`PartsAreAllowed`, which
needs that each part of the timetable can be travelled), a count out of reach and credits
out of reach (`HopelessCoversNothing`). The last compares the code's sum of the largest
sections with the credits of a choice, course by course (`CreditsAreBounded`,
`HeaviestAreSummed`). With an empty stack nothing is covered, so all is found (`Thorough`).

**Sums and sorting.** Bounds are compared with sums of credits, and both rankings sort.
Without induction over data, that a sum over a finite set is a number, splits over
disjoint parts and grows with its parts is shown by taking a least counterexample among
the cardinalities of subsets (`LeastNumber`, `Climbing`, `SumExists`, `SumsAdd`), and that
sorting a finite set by a strict linear order lists it by counting: the numbers of
predecessors are distinct and below the size of the set, so they take each position
(`PositionsAreTaken`). `SortedItems` carries this over to the stable sort of a list by a
key: the result is a permutation (`KeepsSorted`) without an inversion. These lemmas are
in RulesProofs, and each search adds that its keys are ordered strictly and linearly
(`KeysAreOrdered`; for the ids that break the ties of the legacy ranking `IdsAreOrdered`).

**Scores.** A satisfied preference of the agent's ranking adds a component that is at
least the one of the same preference unsatisfied, component by component, for any
number of days and courses. The compact schedule is the only one with an exception
(section 3). In the legacy ranking a wish is scored by what is met and what is
not with one weight each, so that a timetable that meets all of it scores the most
(`AllMetIsMost`, `ProductsClimb`).

**What the legacy generator recommends.** `LegacySound` says that each accepted candidate is
recommendable and different from the others, that their number stays within the limit, and
that a truncated generation has reached it. The sort at the end is a permutation, so it
takes nothing back. That acceptance implies the promise (`AcceptedIsRecommendable`)
compares the code's run of consecutive classes, which counts neighbours in time, with the
definition of a row of classes, each the next of its day (`RowClimbs`,
`RowsAreCounted`). For an empty answer, `LegacyExplained` says that the
choice without required courses, which is tried last, is still to come until something
has been counted. `TargetsRankFirst` says of the ranked list that its first entry
is a greatest one by the first two parts of its key.

**The best is found.** `BestIsFound` speaks of any admissible timetable, while the generator
tries only some: as few electives as the request counts, and no required courses whose
cheapest sections exceed the credits. The proof has two halves. `AsGoodIsSought`: for
each admissible timetable there is one the loops try that is no worse by the sort key:
one with enough electives to satisfy the counts and the hard conditions that name some
(`MostIsEnough`, `NamedAreKept`), still possible since its parts are (`PartIsPossible`, where
`ChainsAreRows` is the converse of the comparison above), and with required courses that
are not cut (`CoursesAreAffordable`). `LegacyCovers`: a pair of required courses
and electives that would be accepted is among the candidates, or its required courses
are still to be tried, or are being tried and its electives are still to come. At the
end nothing is to come, and the sort puts a greatest key first (`FirstIsBest`).
The three exceptions of section 3 are where the first half fails.
Rows and chains agree since the classes of a day are in a total order, also those of one
section that overlap (`ClassesAreListed`, from `MeetingsAreListed`); a row of a part is a
row of the whole since no two sections of a timetable meet at the same time (`RowsOfParts`).

**Conditions.** `GoodEverywhere`: besides the session, the conditions a tool or the
deletion is about to write are consistent, so it does not matter whose write comes
last. Per operation: what a patch, a command or a reset makes of consistent
conditions is consistent (`PatchedIsGood`, `CommandedIsGood`, `ResetIsGood`). A
command does not validate the credit flags again, which is right because no
command touches credits (`CommandsKeepCredits`).

**Answers.** `WithinLimits`: a running tool is counted only when it ends, so both
counters are below their limits while it runs. `SummaryIsCurrent`: while nobody
else writes, the last summary of a turn is the session. `ChangesSoFar`: while nobody else
writes, what the turn holds to have changed is what differs from the session it found,
but for the fields of `chat_unchanged`; a tool that runs has a change only if its write
makes one, and each tool compares the fields it can change. `RefusedByItsAgent`: a
refusal is the routed agent's own, so that refusals are a matter of routing
against acceptance (`RefusedByAll`).

**Deletions.** `DeletionFollows`: the patch of a deletion was made of its first read, its
conditions of its second, and the versions tell whether the two are the same. A patch about
one field changes that field and nothing else (`SuppliedOne`), and the priority of hard
conditions takes nothing from soft ones that did not meet them before
(`PriorityTakesNothing`).

**Coming to an end.** Each measure is made of natural numbers, so its lexicographic order
(`KeyLess`) is well founded and no behaviour lowers it for ever. `StepsLeft` of a turn
counts four steps for each tool it may still call and the steps its phase has before
it; a tool is counted when it ends, so `WithinLimits` bounds both. `LegacyLeft` is the stage,
the choices the outer loop has left, the groups the inner one has left, and the return to
the outer loop. `SearchLeft` is the stage, the nodes until the limit, the visits
until the next node can be counted (the search opens the next course without counting
anything), and the open calls. Its invariant is `CallsAreVisited`: every call below the
open one has come to a section of its course, so closing calls leads to no
further visit. The node limit alone would not end the search: going on to the next course
without a section of this one counts no node.

**Only model-checked.** Liveness (`TurnsEnd`, and that generators answer): given the
measures, what is left needs `ENABLED`, that a step is possible until there is an answer. The agent's batches are outside `RevisionIdentifiesInputs`, since `AgentStamp`
gives them a revision read after their inputs; they are covered, for one request at a
time, by `SelectableBatchIsCurrent`. The mutants, and the six counterexamples, are TLC's.

## 5. What is not modelled

* **Text.** The language models, the simple session model, the preference parsers,
  catalog parsing, course matching and discovery: Korean text or spreadsheets in,
  values out, by regular expressions, and no state. Their results are arbitrary:
  any tool call, any preview, any pool, any list of discovered courses.
* **Session creation.** The upload's five writes and their clean-up: nobody else
  knows the id of a session that is being created, so they meet no other request.
* **In-memory repositories** (used by tests only) and the wiring of the container,
  which is built once per process.
* **Revision preparation**: a pure function from a candidate and a wish to the
  options of the next search, which are arbitrary in CandidateSearch.
* **The tool that validates a given list of sections**, the other reading tools, the
  transcript and the results an answer carries along: they change nothing.
* **Wording, labels, reasons and candidate ids.** Ids of candidates are hashes; the last
  tie of the agent's ranking is broken by them in the code and by the order of
  generation here. The labels of preferred days know Monday to Friday only
  (`timetable_ranker.py:1081`).
* **Travel rules from a file**, which the program does not load: every trip takes the
  default, and the distance of buildings decides. The legacy ranking without a
  template, which no route asks for.
* **Floating point.** Credits are whole numbers here; the code compares sums with a
  tolerance of 1e-9. Scores are scaled to whole numbers.
* `update_generated_candidates` (called by tests only), sliding expiry times,
  routes' mapping of exceptions to HTTP, logging.
* **The frontend.** Screens, and a controller with one busy flag.

## 6. What could follow

* A turn of ChatTurn over the store of PlanuBackend, so that confirmation and
  selection are part of a turn's answer.
* The upload with its clean-up, once sessions can be shared before it has ended.
* For the two generators, how many timetables the exceptions of section 3 cost: which
  requests lose the best one, and which all of them.

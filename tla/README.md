# A TLA+ model of novel_ai

`novel_ai` is a workspace for writing long novels. A browser page edits the chapters of a work; a
FastAPI service keeps chapters, immutable revisions and publications in PostgreSQL; separate worker
processes ask a language model for candidate chapters and plans. The paths below are relative to the
repository; `writing.py`, `generation.py`, `planning.py` are `src/novel_ai/application/*`, `models.py`
is `src/novel_ai/db/models.py`, `app.js` is `src/novel_ai/web/static/app.js`.

This directory holds TLA+ modules for the part of the program where order matters and for its domain
algorithms, TLC configurations that check them on small instances, and proofs that TLAPS checks for every
instance.

## 1. Inventory

| component | state | operations | interacts with | what is hard | what makes it correct | model |
|---|---|---|---|---|---|---|
| **chapter revisions and publication** (`writing.py:215-486`) | rows of `chapters`, `chapter_revisions`, `artifacts`, `works`, `outbox_events` | open, edit metadata, save content, publish | pages (HTTP), worker (same tables) | two requests on one chapter, two chapters of one work, answers read after the commit | no accepted text is lost or rewritten, no save covers a draft its page does not show; publications form one numbered ledger; one canonical revision; a version names one state | `Manuscript` |
| **works, settings, chapter creation** (`writing.py:80-212`) | `works` row, new `chapters` rows | create work, update settings, create chapter | pages | `create_chapter` reads the work without a lock and raises its version | settings are not overwritten unseen; chapter numbers unique | `WorkSettings` |
| **chapter generation** (`generation.py`, `worker.py`) | `workflow_runs`, `workflow_steps`, `generation_runs`, the lease, the worker's session | create, schedule, claim, prepare, call, repair, fail, store, resume | web process starts it; writes chapters and revisions; publication completes runs | process death, lease expiry, retries, rows read before a model call and written after it | one worker per run, one candidate per run, no false success, nothing hangs | `ChapterGeneration` |
| **work planning assistant** (`planning.py`) | planning runs, their steps and artifacts, the tab's `sessionStorage` | create, execute, fail, status | page polls and shows the candidate | two requests at once, repeated candidates, late workers | a candidate belongs to its run, is new and stays | `WorkPlanning` |
| **workspace page** (`app.js`) | `state.chapter`, editor, form, dirty flags, poll timer | select, save all, publish, history, generate, poll | HTTP interface | late answers, lost answers, what the editor shows versus what it will overwrite | text stays in its chapter and is not dropped unasked; what is published was seen | `Workspace` |
| **HTTP interface** (`api/`, `main.py`) | none of its own (a session per request) | maps 404/409/422/503, commits or rolls back | everything | an error must end the transaction | every request ends | in the modules above |
| **model gateway and providers** (`providers/`) | a subprocess or an HTTP call | complete | workers | event stream, timeout, process kill | only a final answer is accepted; every call ends; no process stays | `ProviderAnswers`, `ModelCall` |
| **object store** (`storage/objects.py`) | files | put | generation, planning | concurrent writers, a crash in the middle | a visible file is whole | `ModelCall` |
| **workflow tables** (`domain/workflows.py:15-80`) | none | transition checks, fingerprint | no application code calls them | the tables and what runs really do can drift apart | runs move along the table | `WorkflowTables` |
| **invalidation of outputs** (`domain/workflows.py:94-115`) | none | transitive invalidation | none yet | work-list order, cycles | equals reachability | `StaleOutputs` |
| **item ownership** (`domain/events.py`) | a fold over events | create, transfer | none yet | order, duplicates, wrong owner | one owner, no event twice | `ItemProjection` |
| **prose length policy** (`domain/prose_length.py`) | none | five limits, verdicts | generation, page | separate rounding | limits agree for every target | `ProseLength` |
| **prose purity gate** (`domain/prose_purity.py`) | none | scan | publication, generation | text patterns | a published text was accepted | a set, `CleanTexts` |
| **canonical hashing** (`domain/artifacts.py`) | none | normalize, hash | artifacts | text processing | equal texts have one artifact | a text is its hash |
| **provider factory, audit** (`providers/factory.py`, `audit.py`, `strict_schema.py`) | none | construct, redact | workers | - | - | not modelled |
| **prompt catalog** (`prompts/`) | loaded templates | load, render | workers | - | - | not modelled |
| **structured memory tables** (`models.py:282-400`) | tables nothing writes | - | - | - | - | not modelled |
| **configuration** (`config.py`) | constants | - | lease length against timeouts | - | - | not modelled; a worker may always be late |
| **migrations** (`alembic/`) | the schema | - | - | - | constraints as in `models.py` | not modelled |

How they interact: a page's request is one transaction in the web process. A generation or planning request
commits a `PLANNED` run and then starts a worker process (`generation.py:69-82`); from there web process
and worker communicate only through the tables. Worker and pages write the same chapter rows, each from the
copy its own session read. A worker calls one provider through the gateway and archives the raw answer in the
object store before it commits the row that refers to it. A publication completes the run whose revision it
publishes.

The hazards, each with its line and the properties that would catch it, are in `PROJECT.json`.

## 2. Modules

| module | models | state |
|---|---|---|
| `RevisionLedger` | what the service promises: per chapter a history of accepted texts, one canonical text, one log of publications per work | `history`, `canonical`, `log` |
| `Manuscript` | `writing.py:215-468` on its tables, and what a page holds of a chapter; implements `RevisionLedger` | `chapter`, `revision`, `artifact`, `work`, `outbox`, `page`, `request` |
| `WorkflowTables` | the transition table of workflow statuses | - |
| `ChapterGeneration` | extends `Manuscript` with `generation.py`: runs, workers, leases, launches | plus `run`, `generation`, `worker`, `expired`, `late`, `launch` |
| `WorkSettings` | `writing.py:80-212` on one work, and the pages that edit its settings | `work`, `chapters`, `page`, `loading`, `request`, `creation`, `rewound` |
| `WorkPlanning` | `planning.py` on one work, its workers, and the tabs that keep candidates | `run`, `worker`, `expired`, `tab` |
| `Workspace` | one page with several handlers in flight, on a reduced chapter service | `chapter`, `history`, `run`, `page`, `editor`, `watch`, `task` |
| `ProviderAnswers` | what each adapter and the gateway make of an answer | - (operators) |
| `ModelCall` | extends `ProviderAnswers`: calls, codex processes, the object store, the rows that refer to it | `call`, `child`, `object`, `temporary`, `row` |
| `StaleOutputs`, `ItemProjection`, `ProseLength` | the three algorithms of `domain/` and their callers | work-list; events and projections; a draft |
| `ManuscriptProofs`, `ChapterGenerationProofs`, `WorkPlanningProofs`, `WorkSettingsProofs`, `WorkspaceProofs`, `ModelCallProofs` | theorems about the module of that name | - |
| `DomainProofs` | theorems about `StaleOutputs`, `ItemProjection` and `ProseLength` | - |
| `MCManuscript`, `MCChapterGeneration`, `MCWorkSettings`, `MCWorkPlanning`, `MCWorkspace`, `MCModelCall`, `MCDomain` | instances for TLC; `MCDomain` runs the three algorithms side by side | - |

### Manuscript

A request is at most four steps, because a handler has at most four points at which others can run
between its reads and its writes: it takes the chapter's lock and reads the row (`Begin...`); a
publication takes the work's lock (`LockWork`); the transaction commits (`Finish...`, `KeepContent`);
and the answer, which the code reads with a query *after* the commit (`writing.py:306, 390, 468`), reaches
the page (`ReceiveAnswer`) or does not (`LoseAnswer`). An error or a dead connection rolls back (`Abort`,
`RejectSave`). `request[p]` is the transaction of page `p`: its step, what it asks for, and `row`, the
chapter object its session holds.

A revision row is named by its chapter and its `revision_number`; the unique index on the pair is the guard
`RevisionNumberFree`. A text stands for its normalized form and its hash; the artifact of a text has only a
status. `CleanTexts` are the texts the purity gate accepts. Title, brief and target length are one value,
`brief`, because they are written together and under one check. A page has the two things a later request
sends back, `rev` and `version`.

`SavesKnowTheirDraft` ties the two ends of a save together: when a text becomes a revision, the page that sent it
shows the very draft it is stored over. It is what `expected_revision_number` is for, compared under the lock,
also when the answer of an earlier save of that page was lost and the page sends its text again.

SQLAlchemy semantics kept: a session writes the columns whose value differs from the one it loaded
(`Column`); `version` is written from the loaded value, never `version = version + 1` in SQL;
`expire_on_commit=False` leaves a committed object as it was; a rollback expires it (`row = Nothing`).

### ChapterGeneration

A caller's request is `BeginGenerate` (the chapter is read without a lock, `generation.py:91`),
`CheckGenerate` (key and active run are looked up), `CommitGenerate` and `Launch`; each may be the last
(`LoseLaunch`: the web process dies, `RejectGenerate`: the key was inserted meanwhile). A worker is
`Claim`, `Prepare`, then one model call that fails (`CallFails`), is rejected (`RejectOutput`), is off
length (`AskRepair`, followed by `RepairFails` or success) or is stored (`StoreCandidate`).
`DieOnConflict` is the `IntegrityError` no handler catches; `Crash` is a kill between any two commits;
`ExpireLease` is the clock. `StoreCandidate` uses the same `StoreRevision` as a page's save, from the row
the worker's session read *before* the call: a `SELECT ... FOR UPDATE` on an object that is already in the
session returns it without refreshing it, so the lock does not make the row current.
`FinishPublishOfRun` replaces `FinishPublish`, with what the handler does to the run.

`owner` stands for `worker_id` and `lease_expires_at`, which are written and cleared together. A lease is
over when its worker is in `expired`, and it may be over in any phase: the lease is the longest model timeout plus
60 s (`generation.py:149-156`; 600 s and 180 s in `config.py`), which covers the first call and not the second
call a repair makes, and a machine may sleep. `late` is a history variable: the run a worker was at work on when
its lease ended. The properties count with it instead of excluding it. A run has one live worker and one
candidate, *and one more at most for each of its late workers*; its steps and its moves are those of an undisturbed
run as long as it has no late worker, whatever the late workers of other runs write into the chapter they share.

`FailRun` reads the status of the chapter's latest revision and writes the chapter in one step. In the code a
request that holds the chapter may commit between the two, and the status written is then older than in the model.
The row it is written from is old in any case, and no property that is checked with the worker depends on which of
`DRAFT`, `REVIEW` and `COMMITTED` is left; `GENERATING` is never among them.

`Workers` bounds the processes ever started; a process is never reused.

### RevisionLedger

`Manuscript!LedgerSpec` maps the tables to it: `history[c]` is the texts of the chapter's revisions by
number, `canonical[c]` the number of the revision with the flag, `log` the outbox events by sequence. The
refinement says that a step appends at most one text to one chapter, or publishes one revision with the
next place in the log, and never rewrites either; a lock, a refusal, an answer or a crash is a stutter.

### WorkSettings

A PATCH of the settings is `SaveSettings` (the row is locked and read), then `StoreSettings` or
`RefuseSettings` (409), then `ReceiveSettings`, which reads the row *after* the commit. `AskWork` and
`ReceiveWork` are the reloads of `state.work`, answered now and delivered at any later moment. A creation is
`BeginCreate` (the work is read without a lock), `ChooseNumber` (a second query reads the highest number, unless the
client names one) and `CommitCreate` (version written from what was read; the unique index decides about the
number), or `FailCreate` at any point. `rewound` is a history variable: a creation has written
a lower version than the work had reached. `Publish` is what `Manuscript`'s publication does to this row.

### WorkPlanning

The same protocol of key, launch, lease and late worker as chapter generation, with one model call and without
a chapter: `AskPlanning`, `InsertPlanning`, `Claim`, `Prepare`, `FailPlanning`, `StoreCandidate`, `Crash`,
`ExpireLease`, `Resume`. A tab polls, fetches the candidate and keeps it (`Fetch`, bounded by the storage
`Quota`), and names the newest `PriorLimit` outlines in its next request. A candidate is the nonce it carries
and an outline; any answer of the model is a candidate of any run or of none. `late` is a history variable:
the worker was still at work when its lease ended. The page filters its list by the candidate's id before it
adds one (`app.js:320`); `Without` takes out the one entry with that id, since a list has one at most
(`KeptOnce`, theorem `TabsKeepCandidatesOnce`).

### Workspace

Every handler of `app.js` is asynchronous: it reads the page's `state` when it starts and writes it when the
answer arrives. The page makes nobody wait: it disables neither the text area nor the list while a request is in
flight. `task[h]` is a handler in flight, of any kind, and `Handlers` only bounds how many there are together; the
author clicks and types in between, and answers come in any order. `saveAll` is two requests (`form`, `save`), the
refresh of the lists and then what its button was for; opening a chapter is its answer (`ReceiveChapter`), the
request for the newest run *of the chapter the page shows by then* (`AskRun`) and its answer (`ReceiveRun`); a
poll whose run awaits review opens the page's chapter, with the same question as a click.

The service is `Manuscript` reduced to what this page sees: a write commits in one step and
is read back in a later one, other pages (`OtherPageSaves`) and the worker (`WorkerEnds`) store revisions of
their own, and any request may fail. A publication completes the run whose candidate it publishes, and only that
(`RunAfterPublication`). A text is named by the chapter and revision it was loaded from. `Fail` is every error
answer and lost connection.

Three marks are about history and read by no guard of the page. `stray`: the answer of a request about another
chapter has changed `state.chapter` under the text. `late`: the author typed while an answer was to come that will
clear the mark of unsaved text. `settled`: a save has sent what the text area holds, or the author agreed to lose it.
With them the properties say what this code does guarantee (`TextStaysInItsChapter`, `UnsavedNotDropped`);
without them they would say what the page tells its author, and fail (section 4).

### ProviderAnswers and ModelCall

`ProviderAnswers` gives, for each adapter, the shapes an answer can have (output items of `openai.py`, finish
reasons of `deepseek.py`, event streams and the final-message file of `codex_session.py`) and the code or
acceptance the adapter and then the gateway produce. `ModelCall` is the call itself: the login check and
`exec`, each a process of its own that may not start, hang or be killed too late (`KillTooLate`: the
`ProcessLookupError` of a process that has just exited is reported as a start that failed), the events the codex
process prints whenever it likes, the timeout, the kill and the wait for the pipes, removal of the temporary
directory; then `put_json` as check, temporary file, rename and `stat`, and the commit of the row.
A caller can crash between any two of these.

### The domain algorithms

`StaleOutputs` is the work-list of `find_invalidated_outputs`, one step per element, on a graph and a list of
changes chosen in the initial state; its reference is the least set closed under the dependencies.
`ItemProjection` records transfers under free numbers in any order and shows them to projectors in any order
and any number of times. `ProseLength` has the exact decimal ratios with Python's rounding (a half goes to the
even neighbour) and the worker's decisions about a draft.

## 3. Runs

| run | instance | what it shows |
|---|---|---|
| `manuscript` | 2 pages, 2 chapters of one work, 2 texts, 3 revisions, versions below 5 | types; what handlers read under their locks stays true; the commit sequence is gapless and each number has one event; the canonical revision is the newest publication, also after an older one is published again; every change raises the version by one; no save is stored over a draft its page does not show; the tables implement `RevisionLedger` |
| `manuscript_live` | the same with 2 revisions, versions below 3, no symmetry, fair | every request is answered or refused |
| `generation` | 1 page (saves and publishes; no metadata edits), 1 caller, 2 runs, 2 workers, 2 keys, 1 text, leases may run out in every phase | one worker and one candidate per run and one more at most for each late worker; steps and moves of runs without one; no success without a candidate, no chapter left `GENERATING` without a run, publications included; the ledger is still implemented when workers write from old rows |
| `generation_slow` | 2 callers, 2 runs, 2 workers, no page, leases may run out in every phase, fair | one run per key, and a run ends or becomes resumable |
| `work_settings` | 2 pages, 2 creations, 2 plans, a client that names number 2, 2 chapters, versions up to 3 | chapter numbers are unique; an accepted save replaces a plan its page held, until a creation has written an old version back |
| `work_planning` | 2 tabs, 2 runs, 2 workers, 2 keys, 2 outlines, 1 named outline, room for 2 candidates, fair | a run in review has its own new candidate, which stays; one run per key; a settled run rests; no run blocks the assistant for ever |
| `workspace` | 2 chapters, 2 handlers in flight, 2 revisions, 2 changes and a publication | types; a text is stored in its own chapter unless a late answer had put another one under it; typed text is not dropped unasked unless it was typed while an answer was to come |
| `model_call` | 2 callers, 2 payloads, answers of up to 3 items, streams of up to 2 events, fair | only final answers are accepted, no process is left behind, rows refer to whole files, every call ends |
| `domain` | all graphs of 3 hashes with change lists up to 2; 2 items, 2 owners, 2 projectors, numbers to 4; targets 100 to 119 with lengths 0 to 205 | the three algorithms agree with their reference definitions |
| `manuscript_fresh`, `generation_lease`, `workspace_publish` | small instances of the same modules | the three findings of section 4 |

**Bounds.** `MaxRevisions`, `MaxVersion`, `MaxChapters` and `MaxChanges` appear in guards marked `bound`.
Three revisions are enough for publication of either of two, publication of the older one again, and a save
whose number is taken. Two chapters of one work are needed for the commit sequence and for waiting on the
work's lock, and two pages for every conflict between requests (locks are pairwise). Two workers give one
take-over, three give the second start of `generation_lease`. Two keys and two runs let two requests race with
one key and with two. In `work_settings` two creations race for one number, a third number is named, and three
versions let a creation write the first back over the second. In `work_planning` one named outline with two
kept ones reaches the outline that has fallen out of the list, and the quota of two reaches the pruning of the
storage. In `generation` the texts of a page and of a worker are the same text; different ones are in `manuscript`. In
`workspace` two changes are a save and another page's save, or a run and its candidate, and a publication may follow
them; two handlers are every pair that can overtake each other. In `model_call` three
items hold a message beside reasoning and a tool, or two messages; two events hold a failure after a message.
Three hashes make every cycle, diamond and self-dependency of the work-list. A target modulo 20 decides every
rounding of `ProseLength` (the ratios have denominators 20, 5, 4, 2, 10), so twenty targets show every case;
the theorem covers all. Sets of pages, callers, keys, workers, runs, chapters, creations and handlers are symmetric
and used as such in safety runs only (`MCManuscript`, `MCChapterGeneration`, `MCWorkSettings` and `MCWorkspace`).

**Where the system may stop.** `CHECK_DEADLOCK FALSE` is set where a legitimate end exists: in
`generation_slow` and `generation_lease`, which have no page, and in `work_planning`, a run that awaits its
review and has nobody to ask for more; in `work_settings` and `workspace`, an author who has
nothing left to change within the bound; in `model_call` and `domain`, calls and algorithms that are done.

**Fairness.** A handler that holds what it needs goes on (weak fairness of `Finish`). `FinishSave` and
`LockWork` have strong fairness: PostgreSQL queues row lock requests, so a request that waits is not overtaken
for ever. Nothing is assumed of an author: opening, saving and publishing are not fair, nor are `Abort`
and `LoseAnswer`. In generation and planning a started worker goes on unless it is killed, and its lease clock
runs (weak fairness of `Work` and `ExpireLease` of each worker); every call has a timeout. Nobody is assumed
to resume a run, and tabs need not poll. In `ModelCall` a caller goes on (weak fairness of `CallerStep`, which
contains the timeout); nothing is assumed of the codex process, which may print, exit or hang.

**Every property can fail.** For each property of a passing run `PROJECT.json` names a mutant: a fault
operator (`ChapterNeverLocked`, `DemotedNothing`, `RollbackForgotten`, `RecoverableWhileLeased`,
`AcceptedOfAnyRun`, `NewUnlessChanged`, ...) that replaces one definition, after which TLC finds the property
violated under the same configuration.

## 4. Where code and documents disagree

Each is a run in which TLC finds a behaviour of the code that a document of the repository excludes.

1. **After an older revision is published nobody can save** (`manuscript_fresh`). Publication moves
   `latest_revision_id` back (`writing.py:437`), the next save takes the number after it, which exists, and
   the unique index answers 409 to every page, until somebody publishes the newest revision.
   `docs/WRITING_WORKSPACE.md:54-55` promises 409 to expired pages only.
   The page offers publication for the working draft only, so it needs two pages, or a page whose draft is
   replaced before it publishes.
2. **A run under a valid lease is started again** (`generation_lease`). A worker in its repair outlives its
   lease, the run is resumed, the old worker then fails and its `_fail_run` clears the new worker's lease and
   sets `FAILED`; a third worker may start. `docs/WRITING_WORKSPACE.md:80` excludes a second start.
3. **A text that was never on the screen can be published** (`workspace_publish`). The answer of a save shows
   the chapter as it is after the commit, perhaps with a revision the worker or another page stored in between;
   `saveAll` makes it `state.chapter`, keeps its own text in the editor (`app.js:166-173`) and
   `publishCurrent` publishes `state.chapter.latestRevisionId` (`app.js:401`).
   `docs/WRITING_WORKSPACE.md:76-77` puts a human review before the publication.

Further disagreements met while modelling, which no run shows. The properties of the passing runs name the first five
as exceptions, so that they say what does hold.

- `create_generation_run`, `_fail_run` and the worker's save write `chapter.version` from a row read without or
  before a lock (`generation.py:134, 767`, `writing.py:385`), so a change can keep or lower the version and hide
  from the check of `writing.py:298`; `docs/CORE_DATA_MODEL.md:16` puts every modification under the optimistic
  lock. All other writers count: `VersionCountsChanges` is a property of `manuscript` and not of `generation`.
- `create_chapter` writes an old work version back in the same way (`writing.py:204`). The version then names a plan
  that has been replaced, and a page that still holds that plan passes the comparison with `expected_version`, which
  `docs/WRITING_WORKSPACE.md:101` has to keep pages from covering each other. `AcceptedSaveKnewPlan` ends where
  `rewound` begins.
- `prepare_generation_resume` sets `FAILED` and `RUNNING` runs back to `PLANNED` (`generation.py:425`), which the
  table of `workflows.py:30-46` does not have and `transition_workflow` would refuse; `docs/PROJECT_DESIGN.md:128`
  says that a state machine drives the workflow. `RunFollowsTable` is the table with these two moves.
- What the author types while a save is in flight is marked as saved by its answer (`app.js:171`), and the page says
  so (`:173`). What he types while a chapter, a revision or a reload is on its way is replaced by the answer
  (`app.js:109, 139`); the question (`:103, 136`) came before. `late` in `UnsavedNotDropped` is such text.
- The slower answer of a chapter opened first replaces the second, and the answer of a save or a publication puts
  its chapter under the text of another one: `stray` in `TextStaysInItsChapter`.
- The same answer that causes the third finding makes later saves overwrite what the page never showed: a brief
  (`app.js:170`) or a text (`docs/WRITING_WORKSPACE.md:55` says an expired page gets 409). The service keeps its
  word (`SavesKnowTheirDraft`): the page names the draft of its `state.chapter`, which is not the text it shows.
- Every request of the workers has reasoning effort `low`, which the DeepSeek adapter refuses
  (`deepseek.py:85`): that route always fails, although `README.md:49` offers it for production. `MCModelCall`
  also makes requests with a higher effort, which no worker sends, to reach the adapter's answers.
- The codex adapter takes its text from the final-message file: a stream without `turn.completed`, or with
  several messages, is accepted if the process exits with 0.

## 5. Proofs

The theorems hold for every value of the constants that satisfies the module's named assumptions; sets of
chapters, pages, texts, plans, items and owners are not assumed finite (only `Hashes` is).

| module | theorem | statement |
|---|---|---|
| `ManuscriptProofs` | `Invariant` | `Spec => []IInv` |
| | `TypeCorrect` | `Spec => []TypeOK` |
| | `LocksKeepRowsCurrent` | `Spec => []LockedRowsAreCurrent` |
| | `CommitSequenceIsALedger` | `Spec => []CommitLedger` |
| | `CanonicalIsNewestPublication` | `Spec => []CanonicalRevision` |
| | `VersionsCount` | `Spec => VersionCountsChanges` |
| | `SavesAreInformed` | `Spec => SavesKnowTheirDraft` |
| | `ImplementsLedger` | `Spec => LedgerSpec` |
| `ChapterGenerationProofs` | `GenerationInvariant` | `GenerationSpec => []GenerationInv` |
| | `GenerationTypeCorrect` | `GenerationSpec => []GenerationTypeOK` |
| | `KeysAreIdempotent` | `GenerationSpec => []OneRunPerKey` |
| | `SuccessIsNeverFake` | `GenerationSpec => []NoFakeSuccess` |
| | `GeneratingIsBackedByARun` | `GenerationSpec => []GeneratingHasRun` |
| | `GenerationImplementsLedger` | `GenerationSpec => LedgerSpec` |
| | `ClaimInvariant` | `GenerationSpec => [](ClaimInv /\ StepsInv)` |
| | `ClaimsAreExclusive` | `GenerationSpec => []ExclusiveClaim` |
| | `RetriesStoreOnce` | `GenerationSpec => []OneCandidatePerRun` |
| | `StepsAgree` | `GenerationSpec => []StepsAgreeWithRun` |
| | `RunsFollowTable` | `GenerationSpec => RunFollowsTable` |
| `WorkPlanningProofs` | `PlanningInvariant` | `PlanningSpec => []PlanningInv` |
| | `PlanningTypeCorrect` | `PlanningSpec => []PlanningTypeOK` |
| | `PlanningKeysAreIdempotent` | `PlanningSpec => []OnePlanningPerKey` |
| | `CandidateAnswersItsRequest` | `PlanningSpec => []ReviewHasOwnCandidate` |
| | `SettledRunsRest` | `PlanningSpec => []SettledRunRests` |
| | `TabsKeepCandidatesOnce` | `PlanningSpec => []KeptOnce` |
| | `CandidatesAwaitReview` | `PlanningSpec => AnnouncedCandidateStays` |
| | `RequestsBringNewOutlines` | `PlanningSpec => FetchedOutlineIsNew` |
| `WorkSettingsProofs` | `WorkTypeCorrect` | `WorkSpec => []WorkTypeOK` |
| | `NumbersStayUnique` | `WorkSpec => []ChapterNumbersUnique` |
| | `SavesKnowThePlan` | `WorkSpec => AcceptedSaveKnewPlan` |
| `WorkspaceProofs` | `WorkspaceInvariant` | `WorkspaceSpec => []WorkspaceInv` |
| | `WorkspaceTypeCorrect` | `WorkspaceSpec => []WorkspaceTypeOK` |
| | `TextStays` | `WorkspaceSpec => []TextStaysInItsChapter` |
| | `UnsavedIsNotDropped` | `WorkspaceSpec => UnsavedNotDropped` |
| `DomainProofs` | `WorkListIsReachability` | `StaleSpec => []ExactlyStale` |
| | `ProjectionsAreDetermined` | `ProjectionSpec => []ProjectorsAgree` |
| | `TransfersChain` | `ProjectionSpec => []OwnersChain` |
| | `LengthPolicySound` | `LengthSpec => []LengthPolicyAgrees` |
| `ModelCallProofs` | `CallsAreTyped` | `CallSpec => []CallTypeOK` |
| | `AcceptsOnlyFinalAnswers` | `CallSpec => []AcceptedAnswerIsFinal` |
| | `LeavesNoProcess` | `CallSpec => []EndedCallLeavesNoProcess` |
| | `RowsHaveWholeObjects` | `CallSpec => []RowsReferToWholeObjects` |

**Manuscript.** From `ManuscriptAssumption` (clean texts are texts, the bounds are positive, NULL is none of
the values) and `NullAssumption` (NULL is no row). The argument has two layers.

*Layer 1, `Consistent`*: types, locks, and references. `LockedRowsAreCurrent` is not inductive alone: that a
commit leaves every *other* lock holder's row as it is needs that the locks exclude each other, that the
request that writes chapter `c` is the holder of `c`, and that what a page refers to exists (`LatestExists`,
`PageRevisionExists`) and a request carries the data of its operation (`RequestsCarryData`). One lemma per
way of writing the rows (`ChapterRowUpdate`, `BriefUpdate`, `AnswerUpdate`, ...) states what must hold of the
new row; the lemma of each action shows that its row qualifies.

*Layer 2, `LedgerInv`*: `CommitLedger`, `CanonicalRevision` and the link between them. It rests on layer 1:
the sequence a publication writes is the one after the work's current number only because the work was
locked when it was read and still is. `DemotedRows` and `PublicationShape` describe what a publication does
to the rows of a chapter; `SaveLedger`, `MetadataLedger`, `PublishLedger` and `QuietStep` cover the four
kinds of step.

`VersionsCount` is an action property and follows from layer 1: the row a handler writes from is the current
one, so old version plus one is current version plus one. `SavesAreInformed` adds one fact to it
(`SavesChecked`): while a request holds its lock the page's revision number is the one in the row it read. A page of
`Manuscript` has one request at a time, so `page[p]` is what that request was sent from; the page with several is
`Workspace`.

`ImplementsLedger` maps every step to a step of `RevisionLedger` or to a stutter, from both layers. Of the
three actions that write tables, a save with a new text appends it to one history (`AcceptMapping`), a
publication puts a revision that is not the canonical one at the end of its work's log (`PublishMapping`), and
a change of the brief is a stutter, as are all other steps (`StutterMapping`, `QuietLedger`).

**ChapterGeneration.** From the assumptions of `Manuscript` and `GenerationAssumption` (NULL is no worker and
no row of a run). Callers, workers, runs and keys are not assumed finite. No theorem assumes anything about leases.
There are two invariants.

*`GenerationInv`* contains the two layers of
`Manuscript`, which must survive a writer with an old row: a worker stores under a number that the unique index
finds free, and the chapter row it writes then names a revision the chapter has (`WorkerData`, `LaunchData`).
`NoFakeSuccess` needs that a revision with a run is that run's and of its chapter (`CandidatesBelong`) and that
no step takes a candidate away. `GeneratingHasRun` is not inductive alone: a failing worker whose chapter row
is old would leave the chapter in `GENERATING`, were it not for what the columns it writes then are
(`GeneratingIsReleased`).

*`ClaimInv` and `StepsInv`* count. A run is open (`Open`) if somebody may still claim it: it is neither done nor
held by an owner at work within its lease. For each run the live workers, the candidates and an open claim
together are one more than the late workers at most (`Counted`). A claim turns the open claim into a live worker, a
candidate takes the place of the worker that stores it, a failure or a crash gives a worker back as an open
claim, and a lease that ends under a worker pays for the claim it opens. Both bounds follow (`CountedMeans`), and
that a run without late workers is held by the one live worker it has (`OnTime`); for such a run the steps are what
its worker has done (`StepsInv`). Neither theorem follows from the other bound alone: that a candidate and a
worker do not add up is what makes storing twice impossible.

**WorkPlanning.** From `PlanningAssumption`, `PlanningNullAssumption` and `PlanningRowAssumption`. There is no
hypothesis on leases: what late workers can spoil is said of runs that are not `Overtaken`, and the rest of all
runs. `DataInv` has the rows and tabs: only the call is ever shown at work (`OnlyTheCallRuns`), so storing or
failing settles every step; a request names what its tab still keeps when it fetches (`TabsHaveRuns`), so an
answer that was checked against the request is new to the tab. `ClaimInv` has the leases: a worker whose lease
is over while it calls is late for ever (`LeasesOfWorkers`), a live worker of a run that is not overtaken owns
it (`ClaimsHold`), and therefore is the only one that writes it. `LatestOf`, `WithoutOf`, `KeptOf` and
`PriorOf` are the lemmas about the lists of candidates.

**WorkSettings.** From `WorkAssumption` and `WorkNullAssumption`. `AcceptedSaveKnewPlan` needs two facts at
once: the holder of the lock has read the row as it is (`LockHolderIsCurrent`), and until a version was written
back no page, no answer on its way and no request holds a copy newer than the row, nor another plan under the
row's version (`CopiesAgree`). `PageOnlyStep` covers the steps that move copies about, `UnlockedWrite` those
that change the row beside a lock. `HighestExists` says that the maximum of `create_chapter` is defined; it is
what type correctness adds to the types.

**Workspace.** From `WorkspaceAssumption`; the author waits for nothing, and any number of handlers is in flight.
`PageFits` ties the text area to the page's chapter, unless it has strayed, and unsaved text to its mark, unless it
was typed too late. `TaskFits` says what a handler in flight may rely on when its answer comes: the answer is about
the chapter it asked for and names a revision that exists, a text on its way was written in its chapter unless it had
strayed, and an answer that clears the mark of unsaved text has sent it or asked. The last is why `late` has to be
recorded when the author types, and `settled` has to fall when the text area changes. `AnswerGrows` carries answers
over the revisions that others store meanwhile.

**StaleOutputs.** From `HashesAssumption`. Four facts about the work-list: visited inputs have their outputs
invalidated (`VisitedDone`), what is changed or invalidated is visited or waits (`NothingForgotten`), every
closed set contains what is invalidated (`NothingExtra`), and only changed or invalidated hashes wait
(`OnlyStaleWaits`). With an empty queue the first two make `invalidated` closed, the third makes it least.

**ItemProjection.** The owner in a projection is where the newest projected transfer of the item went
(`OwnerIsNewest`), and no number a projector has passed is free (`NoGapBehind`), so a transfer recorded late
lies ahead of every projector. Numbers are unique, hence two projectors at one number agree.

**ProseLength.** `RoundedWithinHalf` bounds a rounded quotient, `LimitsOrdered` derives the strict order of the
five limits around the target for every target from 100 up, and each action is then linear arithmetic.

**ModelCall.** From `ModelCallAssumption`; callers and payloads are not assumed finite, answers and event streams
have any length. Three arguments side by side. Acceptance: one lemma per adapter (`OpenAIAccepts`,
`DeepSeekAccepts`, `SessionAccepts`) shows that its code is "accepted" only for a final answer; `StreamAccepts`
rests on the first refused event, which exists because a set of positions has a least element. Processes: one
runs only while its caller waits for it or is dead (`ProcessFollowsCall`), because a timeout kills before it
waits. Files: a caller that renames has a whole file, one past `stat` refers to one (`StoreFollowsCall`), and no
step takes a file away again. `CallUpdate` covers every step that leaves the files and rows alone.

*Model-checked only*: liveness under fairness (`EveryRequestEnds`, `EveryRunEndsOrCanResume`,
`PlanningEndsOrCanResume`, `EveryCallEnds`) is out of the prover's reach. Every invariant and every other action
property that a passing run checks is a theorem. What the three violation runs refute is of course none.

## 6. Plan

The modules of section 2, their runs and the proofs of section 5 are complete as planned. Open: the moment between
the reads and the write of `FailRun` (section 2), and a codex process that starts processes which outlive it and hold
its pipes open; `EveryCallEnds` assumes there are none.

## 7. What is not modelled

- Insertion of an artifact that another transaction inserts at the same moment: the second insertion waits and
  fails with 409, as any failed request does (`Abort`).
- Database deadlocks: PostgreSQL aborts one of the requests, which is `Abort` or `LoseLaunch`; the cycle of
  waits itself is not built. `EveryRequestEnds` covers waits between the locks that are modelled.
- `run.version` and `attempt_count` (no guard reads them), context snapshots, prompt texts, hashes, token counts
  and timings; the content of answers and of error messages.
- Length limits and normalization of a text (`Texts` are texts within the limit), and JSON canonicalization; the
  length verdict of a candidate is a free choice in `ChapterGeneration` and computed in `ProseLength`.
- The regular expressions of the purity gate: text processing. Its verdict is a set of texts.
- The step transition table and `input_fingerprint` of `domain/workflows.py`: no code calls them, and steps are
  written without them.
- The page's lists, search, preview and layout: they read and show.
- The prompt catalog, provider construction, schema rewriting, audit, migrations and configuration: no state that
  changes. The structured memory tables have no code that writes them.

-------------------------- MODULE ChapterGeneration ---------------------------
(***************************************************************************)
(* Chapter generation (application/generation.py) over the tables of       *)
(* Manuscript: a page asks for a run, the web process starts one worker    *)
(* process per request, the worker claims the run under a lease, calls the *)
(* model once or twice and stores a candidate revision; a failed, unstarted*)
(* or expired run can be resumed.                                          *)
(*                                                                         *)
(* A worker keeps ONE database session.  session.get and SELECT ... FOR    *)
(* UPDATE return the object the session already holds without refreshing   *)
(* it (expire_on_commit=False), so the run and the chapter a worker writes *)
(* from are the rows it read when it began.  Worker processes are not      *)
(* reused: Workers bounds how many are ever started.  run.version and      *)
(* attempt_count are read by no guard and are left out.                    *)
(***************************************************************************)
EXTENDS Manuscript, WorkflowTables

CONSTANTS
    Callers,        \* clients of the generation endpoints: pages, tools, scripts
    Workers,        \* worker processes
    Keys            \* idempotency keys

VARIABLES
    run,            \* run[r]: the row of workflow_runs with its steps, or Nothing
    generation,     \* generation[w][k]: status of the k-th model call of w
    worker,         \* worker[w]: a worker process and the rows its session holds
    expired,        \* the workers whose lease (lease_expires_at of their claim) is over
    late,           \* history: the run a live worker had when its lease ended, or Nothing
    launch          \* launch[a]: a generate or resume request of caller a

generationVars == <<run, generation, worker, expired, late, launch>>
allVars == <<vars, generationVars>>

-------------------------------------------------------------------------------
(* Rows and processes *)

RunStatuses == {"PLANNED", "RUNNING", "AWAITING_REVIEW", "COMPLETED", "FAILED"}

StepKeys == {"load_chapter_task", "compile_context", "write_chapter",
             "scan_prose_purity", "save_candidate", "review_candidate"}

StepStatuses == {"PENDING", "RUNNING", "SUCCEEDED", "FAILED"}

(* worker_id and lease_expires_at are written and cleared together: owner stands for *)
(* both, Nothing for NULL.                                                            *)
RunRows == [chapter : Chapters, key : Keys, status : RunStatuses,
            owner : Workers \cup {Nothing}, steps : [StepKeys -> StepStatuses]]

CallStatuses == {"NONE", "RUNNING", "SUCCEEDED", "REJECTED", "FAILED"}

(* row is the chapter object of the worker's session. *)
WorkerStates == [phase : {"none", "spawned", "claimed", "calling", "repairing", "ended"},
                 run : Runs \cup {Nothing}, row : ChapterRows \cup {Nothing}]

NoWorker == [phase |-> "none", run |-> Nothing, row |-> Nothing]

Launches == [step : {"idle", "read", "checked", "start"}, chapter : Chapters \cup {Nothing},
             key : Keys \cup {Nothing}, row : ChapterRows \cup {Nothing},
             run : Runs \cup {Nothing}]

NoLaunch == [step |-> "idle", chapter |-> Nothing, key |-> Nothing, row |-> Nothing,
             run |-> Nothing]

ASSUME GenerationAssumption == Nothing \notin Workers \cup RunRows

Existing == {r \in Runs : run[r] # Nothing}

Live(w) == worker[w].phase \in {"claimed", "calling", "repairing"}

(* The query for a run that is planned or running on the chapter. *)
Active(c) == \E r \in Existing : run[r].chapter = c /\ run[r].status \in {"PLANNED", "RUNNING"}

(* The query for a run that has the key. *)
KeyKnown(k) == \E r \in Existing : run[r].key = k

(* Fault: the unique index below is missing. *)
KeyUnchecked(k) == TRUE

(* The unique index on (work_id, idempotency_key). *)
KeyFree(k) == \A r \in Existing : run[r].key # k

(* Faults of the test below: it ignores the lease; it only asks whether the run is    *)
(* working; it never takes over a run that is.                                        *)
RecoverableWhileLeased(r) == run[r].status \in {"PLANNED", "FAILED", "RUNNING"}
RecoverableWhenDone(r) == run[r].status # "RUNNING" \/ run[r].owner \in expired
RecoverableNeverExpired(r) == run[r].status \in {"PLANNED", "FAILED"}

Recoverable(r) == \/ run[r].status \in {"PLANNED", "FAILED"}
                  \/ run[r].status = "RUNNING" /\ run[r].owner \in expired

(* _mark_step on each of keys. *)
Marked(steps, keys, status) == [s \in StepKeys |-> IF s \in keys THEN status ELSE steps[s]]

(* Fault: _fail_run leaves the steps as they are. *)
FailingNothing(steps) == steps

(* _fail_run's steps: every running one fails. *)
Failing(steps) == Marked(steps, {s \in StepKeys : steps[s] = "RUNNING"}, "FAILED")

-------------------------------------------------------------------------------
(* Web requests *)

(* create_generation_run reads the chapter without a lock. *)
BeginGenerate(a, c, k) ==
    /\ launch[a] = NoLaunch
    /\ chapter[c].version < MaxVersion                             \* bound
    /\ launch' = [launch EXCEPT ![a] = [NoLaunch EXCEPT !.step = "read", !.chapter = c,
                                                        !.key = k, !.row = chapter[c]]]
    /\ UNCHANGED <<vars, run, generation, worker, expired, late>>

(* A known key returns the run it has; an active run is a conflict. *)
CheckGenerate(a) ==
    LET l == launch[a] IN
    /\ l.step = "read"
    /\ launch' = [launch EXCEPT ![a] =
           IF ~KeyKnown(l.key) /\ ~Active(l.chapter) THEN [l EXCEPT !.step = "checked"]
           ELSE NoLaunch]
    /\ UNCHANGED <<vars, run, generation, worker, expired, late>>

(* The inserts wait for the row locks their foreign keys share; the chapter is then *)
(* written from the row read before.                                                *)
CommitGenerate(a, r) ==
    LET l == launch[a] IN
    /\ l.step = "checked"
    /\ ~ChapterLocked(l.chapter) /\ ~WorkLocked
    /\ KeyFree(l.key)
    /\ r \notin Existing
    /\ run' = [run EXCEPT ![r] =
           [chapter |-> l.chapter, key |-> l.key, status |-> "PLANNED", owner |-> Nothing,
            steps |-> [s \in StepKeys |-> "PENDING"]]]
    /\ chapter' = [chapter EXCEPT
           ![l.chapter].status = Column(@, l.row.status, "GENERATING"),
           ![l.chapter].version = l.row.version + 1]
    /\ launch' = [launch EXCEPT ![a] = [NoLaunch EXCEPT !.step = "start", !.run = r]]
    /\ UNCHANGED <<revision, artifact, work, outbox, page, request>>
    /\ UNCHANGED <<generation, worker, expired, late>>

(* The key was inserted meanwhile: IntegrityError, answered with 409. *)
RejectGenerate(a) ==
    /\ launch[a].step = "checked"
    /\ ~KeyFree(launch[a].key)
    /\ launch' = [launch EXCEPT ![a] = NoLaunch]
    /\ UNCHANGED <<vars, run, generation, worker, expired, late>>

(* prepare_generation_resume: one transaction under the run's row lock. *)
Resume(a, r) ==
    /\ launch[a] = NoLaunch
    /\ r \in Existing
    /\ Recoverable(r)
    /\ run' = [run EXCEPT ![r].status = "PLANNED", ![r].owner = Nothing]
    /\ launch' = [launch EXCEPT ![a] = [NoLaunch EXCEPT !.step = "start", !.run = r]]
    /\ UNCHANGED <<vars, generation, worker, expired, late>>

(* schedule_generation_run, after the commit. *)
Launch(a, w) ==
    /\ launch[a].step = "start"
    /\ worker[w].phase = "none"
    /\ worker' = [worker EXCEPT ![w] = [NoWorker EXCEPT !.phase = "spawned",
                                                        !.run = launch[a].run]]
    /\ launch' = [launch EXCEPT ![a] = NoLaunch]
    /\ UNCHANGED <<vars, run, generation, expired, late>>

(* The web process dies: before its commit nothing is written, after it the run is  *)
(* planned and nobody works on it.                                                   *)
LoseLaunch(a) ==
    /\ launch[a].step # "idle"
    /\ launch' = [launch EXCEPT ![a] = NoLaunch]
    /\ UNCHANGED <<vars, run, generation, worker, expired, late>>

(* publish_revision completes the run that wrote the revision, whatever its status. *)
FinishPublishOfRun(p) ==
    LET r == revision[page[p].chapter][page[p].rev].run IN
    /\ FinishPublish(p)
    /\ run' = IF r = Nothing THEN run
              ELSE [run EXCEPT ![r].status = "COMPLETED",
                               ![r].steps["review_candidate"] = "SUCCEEDED"]
    /\ UNCHANGED <<generation, worker, expired, late, launch>>

-------------------------------------------------------------------------------
(* The worker process *)

(* execute_generation_run, first transaction: the claim, under the run's row lock. *)
Claim(w) ==
    LET r == worker[w].run IN
    /\ worker[w].phase = "spawned"
    /\ \/ /\ run[r].status \in {"PLANNED", "FAILED"}
          /\ run' = [run EXCEPT ![r].status = "RUNNING", ![r].owner = w]
          /\ worker' = [worker EXCEPT ![w].phase = "claimed"]
       \/ /\ run[r].status \notin {"PLANNED", "FAILED"}
          /\ worker' = [worker EXCEPT ![w] = [NoWorker EXCEPT !.phase = "ended"]]
          /\ UNCHANGED run
    /\ UNCHANGED <<vars, generation, expired, late, launch>>

(* Second transaction: the task is loaded, the prompt compiled and the call recorded. *)
Prepare(w) ==
    LET r == worker[w].run IN
    /\ worker[w].phase = "claimed"
    /\ run' = [run EXCEPT ![r].steps =
           Marked(Marked(@, {"load_chapter_task", "compile_context"}, "SUCCEEDED"),
                  {"write_chapter"}, "RUNNING")]
    /\ generation' = [generation EXCEPT ![w][1] = "RUNNING"]
    /\ worker' = [worker EXCEPT ![w].phase = "calling", ![w].row = chapter[run[r].chapter]]
    /\ UNCHANGED <<vars, expired, late, launch>>

End(w) == worker' = [worker EXCEPT ![w] = [NoWorker EXCEPT !.phase = "ended"]]

(* Faults: the chapter is left as it is; it takes the run's status. *)
StatusKept(c, n) == chapter[c].status
StatusOfRun(c, n) == "FAILED"

(* What a chapter goes back to: read from the latest revision the worker knows of. *)
StatusOfLatest(c, n) ==
    IF n = 0 THEN "PLANNED"
    ELSE IF revision[c][n].canonical THEN "COMMITTED"
    ELSE IF revision[c][n].source = "MODEL" THEN "REVIEW" ELSE "DRAFT"

(* _fail_run, by a worker that has marked steps so far.  Between its reads (:752-756)  *)
(* and the write of a chapter another request has locked there may be a wait: the      *)
(* status is then older than here, as row already is.                                  *)
FailRun(w, steps) ==
    LET r == worker[w].run
        c == run[r].chapter
        row == worker[w].row
    IN
    /\ ~ChapterLocked(c)
    /\ run' = [run EXCEPT
           ![r].status = "FAILED", ![r].owner = Nothing,
           ![r].steps = Failing(steps)]
    /\ chapter' = [chapter EXCEPT
           ![c].status = Column(@, row.status, StatusOfLatest(c, row.latest)),
           ![c].version = row.version + 1]
    /\ End(w)
    /\ UNCHANGED <<revision, artifact, work, outbox, page, request, expired, late, launch>>

(* The model call raises. *)
CallFails(w) ==
    /\ worker[w].phase = "calling"
    /\ FailRun(w, run[worker[w].run].steps)
    /\ generation' = [generation EXCEPT ![w][1] = "FAILED"]

(* The steps once an answer has arrived and is being scanned. *)
Scanning(steps) == Marked(Marked(steps, {"write_chapter"}, "SUCCEEDED"),
                          {"scan_prose_purity"}, "RUNNING")

(* The answer breaks its contract or the purity gate. *)
RejectOutput(w) ==
    /\ worker[w].phase = "calling"
    /\ FailRun(w, Scanning(run[worker[w].run].steps))
    /\ generation' = [generation EXCEPT ![w][1] = "FAILED"]

(* The length is off: _repair_chapter_length commits and calls the model again. *)
AskRepair(w) ==
    /\ worker[w].phase = "calling"
    /\ run' = [run EXCEPT ![worker[w].run].steps = Scanning(@)]
    /\ generation' = [generation EXCEPT ![w] = [@ EXCEPT ![1] = "REJECTED", ![2] = "RUNNING"]]
    /\ worker' = [worker EXCEPT ![w].phase = "repairing"]
    /\ UNCHANGED <<vars, expired, late, launch>>

(* The repair fails: the second call raised or was impure, its answer broke the      *)
(* contract (its row is left as it is), or its length is still out of bounds.        *)
RepairFails(w) ==
    /\ worker[w].phase = "repairing"
    /\ FailRun(w, run[worker[w].run].steps)
    /\ \E calls \in {<<"FAILED", "FAILED">>, <<"FAILED", "RUNNING">>, <<"REJECTED", "FAILED">>} :
           generation' = [generation EXCEPT ![w] = calls]

(* The candidate is stored and the run waits for review, in one transaction. *)
StoreCandidate(w, t) ==
    LET r == worker[w].run
        c == run[r].chapter
        row == worker[w].row
    IN
    /\ worker[w].phase \in {"calling", "repairing"}
    /\ row.latest < MaxRevisions                                   \* bound
    /\ ~ChapterLocked(c)
    /\ artifact[t] = "ABSENT" => ~WorkLocked
    /\ StoreRevision(c, row, t, "MODEL", r, TRUE)
    /\ run' = [run EXCEPT
           ![r].status = "AWAITING_REVIEW", ![r].owner = Nothing,
           ![r].steps = Marked(Marked(
               IF worker[w].phase = "calling" THEN Scanning(@) ELSE @,
               {"scan_prose_purity", "save_candidate"}, "SUCCEEDED"),
               {"review_candidate"}, "PENDING")]
    /\ generation' = [generation EXCEPT
           ![w][IF worker[w].phase = "calling" THEN 1 ELSE 2] = "SUCCEEDED"]
    /\ End(w)
    /\ UNCHANGED <<work, outbox, page, request, expired, late, launch>>

(* Fault: the IntegrityError is swallowed and the run goes on to its review. *)
FinishOnConflict(w) ==
    /\ worker[w].phase \in {"calling", "repairing"}
    /\ worker[w].row.latest < MaxRevisions
    /\ ~RevisionNumberFree(run[worker[w].run].chapter, worker[w].row.latest + 1)
    /\ run' = [run EXCEPT ![worker[w].run].status = "AWAITING_REVIEW"]
    /\ End(w)
    /\ UNCHANGED <<vars, generation, expired, late, launch>>

(* The number is taken: the IntegrityError is not caught, the transaction is rolled  *)
(* back and the process dies with the run still RUNNING.                             *)
DieOnConflict(w) ==
    LET row == worker[w].row IN
    /\ worker[w].phase \in {"calling", "repairing"}
    /\ row.latest < MaxRevisions                                   \* bound
    /\ ~ChapterLocked(run[worker[w].run].chapter)
    /\ ~RevisionNumberFree(run[worker[w].run].chapter, row.latest + 1)
    /\ End(w)
    /\ UNCHANGED <<vars, run, generation, expired, late, launch>>

(* The process is killed, or fails where no handler catches it. *)
Crash(w) ==
    /\ worker[w].phase \in {"spawned", "claimed", "calling", "repairing"}
    /\ End(w)
    /\ UNCHANGED <<vars, run, generation, expired, late, launch>>

(* The clock passes lease_expires_at of w's claim. *)
ExpireLease(w) ==
    /\ w \notin expired
    /\ Live(w) \/ \E r \in Existing : run[r].owner = w
    /\ expired' = expired \cup {w}
    /\ late' = [late EXCEPT ![w] = IF Live(w) THEN worker[w].run ELSE @]
    /\ UNCHANGED <<vars, run, generation, worker, launch>>

-------------------------------------------------------------------------------
(* The specification *)

GenerationInit ==
    /\ Init
    /\ run = [r \in Runs |-> Nothing]
    /\ generation = [w \in Workers |-> <<"NONE", "NONE">>]
    /\ worker = [w \in Workers |-> NoWorker]
    /\ expired = {}
    /\ late = [w \in Workers |-> Nothing]
    /\ launch = [a \in Callers |-> NoLaunch]

LaunchStep(a) ==
    \/ \E c \in Chapters, k \in Keys : BeginGenerate(a, c, k)
    \/ CheckGenerate(a)
    \/ \E r \in Runs : CommitGenerate(a, r) \/ Resume(a, r)
    \/ RejectGenerate(a)
    \/ \E w \in Workers : Launch(a, w)
    \/ LoseLaunch(a)

(* What a started worker does unless it is killed. *)
Work(w) ==
    \/ Claim(w) \/ Prepare(w)
    \/ CallFails(w) \/ RejectOutput(w) \/ AskRepair(w) \/ RepairFails(w)
    \/ \E t \in CleanTexts : StoreCandidate(w, t)
    \/ DieOnConflict(w)

GenerationNext ==
    \/ \E p \in Pages : \/ PageStep(p) /\ UNCHANGED generationVars
                       \/ FinishPublishOfRun(p)
    \/ \E a \in Callers : LaunchStep(a)
    \/ \E w \in Workers : Work(w) \/ Crash(w) \/ ExpireLease(w)

GenerationSpec == GenerationInit /\ [][GenerationNext]_allVars

(* A started worker goes on until it ends or is killed, and the clock runs: every     *)
(* call the worker makes has a timeout of its own.  Nobody is assumed to ask again.    *)
GenerationFairness ==
    \A w \in Workers : WF_allVars(Work(w)) /\ WF_allVars(ExpireLease(w))

FairGenerationSpec == GenerationSpec /\ GenerationFairness

-------------------------------------------------------------------------------
(* Properties *)

GenerationTypeOK ==
    /\ TypeOK
    /\ run \in [Runs -> RunRows \cup {Nothing}]
    /\ generation \in [Workers -> [1 .. 2 -> CallStatuses]]
    /\ worker \in [Workers -> WorkerStates]
    /\ expired \in SUBSET Workers
    /\ late \in [Workers -> Runs \cup {Nothing}]
    /\ launch \in [Callers -> Launches]

Candidate(c, n, r) == revision[c][n] # Nothing /\ revision[c][n].run = r

(* A run is never shown as done without its result: one that awaits review has a     *)
(* model revision of its own, and a completed one has published a revision of its    *)
(* own (docs/WRITING_WORKSPACE.md:80).                                                *)
NoFakeSuccess ==
    \A r \in Existing :
        /\ run[r].status \in {"AWAITING_REVIEW", "COMPLETED"} =>
               \E n \in RevisionNumbers : Candidate(run[r].chapter, n, r)
        /\ run[r].status = "COMPLETED" =>
               \E e \in outbox : Candidate(e.chapter, e.revision, r)

(* One key never makes two runs, however its requests interleave. *)
OneRunPerKey == \A r, s \in Existing : run[r].key = run[s].key => r = s

(* The workers at work on a run; those it had at work when their lease ended; the     *)
(* revisions that are its candidates.                                                  *)
LiveOf(r) == {w \in Workers : Live(w) /\ worker[w].run = r}
LateOf(r) == {w \in Workers : late[w] = r}
CandidatesOf(r) == {x \in Chapters \X RevisionNumbers : Candidate(x[1], x[2], r)}

(* A run has one worker at a time, and one more for each of its workers whose lease    *)
(* has ended under it; while none has, the run is RUNNING and names the one it has.     *)
ExclusiveClaim ==
    \A r \in Existing :
        /\ Cardinality(LiveOf(r)) <= 1 + Cardinality(LateOf(r))
        /\ LateOf(r) = {} =>
               \A w \in LiveOf(r) : run[r].owner = w /\ run[r].status = "RUNNING"

(* However often a run fails, crashes and is resumed, it adds one candidate at most,   *)
(* and one more for each of its workers whose lease has ended under it.                *)
OneCandidatePerRun ==
    \A r \in Runs : Cardinality(CandidatesOf(r)) <= 1 + Cardinality(LateOf(r))

(* StepsAgreeWithRun of one row. *)
StepsFit(x) ==
    /\ x.status \in {"AWAITING_REVIEW", "COMPLETED", "FAILED"} =>
           \A s \in StepKeys : x.steps[s] # "RUNNING"
    /\ x.status \in {"AWAITING_REVIEW", "COMPLETED"} =>
           \A s \in StepKeys \ {"review_candidate"} : x.steps[s] = "SUCCEEDED"

(* A run that has ended leaves no step running, and one that awaits review has done   *)
(* every step before the review, unless one of its workers was at work after its lease.*)
StepsAgreeWithRun == \A r \in Existing : LateOf(r) = {} => StepsFit(run[r])

(* A chapter shown as being generated has a run that is planned or running. *)
GeneratingHasRun ==
    \A c \in Chapters : chapter[c].status = "GENERATING" => Active(c)

(* Two live workers share a run only if the lease of one of them is over: a task in a  *)
(* valid lease is not started again (docs/WRITING_WORKSPACE.md:80).                    *)
NoSecondStart ==
    \A v, w \in Workers :
        (v # w /\ Live(v) /\ Live(w) /\ worker[v].run = worker[w].run) =>
            v \in expired \/ w \in expired

(* A move of the transition table (workflows.py:30-46), or a resume, which plans again *)
(* a failed run or one whose lease is over (generation.py:425) and is not in it.        *)
Moves(r, is) ==
    LET was == run[r].status
    IN \/ is = was \/ MayBecome(was, is)
       \/ was = "FAILED" /\ is = "PLANNED"
       \/ was = "RUNNING" /\ run[r].owner \in expired /\ is = "PLANNED"

(* Runs go through the states of the table although no code asks it, unless a worker   *)
(* was at work on them after its lease.  A completed run stays completed.               *)
RunFollowsTable ==
    [][\A r \in Existing : LateOf(r) = {} => Moves(r, run'[r].status)]_allVars

(* A run does not hang: it ends, or its lease runs out and it can be resumed. *)
EveryRunEndsOrCanResume ==
    \A r \in Runs : (r \in Existing /\ run[r].status = "RUNNING") ~>
        (r \in Existing /\ (run[r].status # "RUNNING" \/ Recoverable(r)))
===============================================================================

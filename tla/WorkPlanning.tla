----------------------------- MODULE WorkPlanning ------------------------------
(***************************************************************************)
(* The work planning assistant (application/planning.py) of one work: a    *)
(* browser tab asks for an outline, the web process starts a worker, the   *)
(* worker claims the run under a lease, calls the model once and stores a  *)
(* candidate that the tab fetches and keeps in its sessionStorage.         *)
(*                                                                         *)
(* As in chapter generation the worker writes the run from the row its     *)
(* session read at the claim, and prepare_generation_resume and worker.py  *)
(* serve both kinds of run.  The work itself is only read.                 *)
(*                                                                         *)
(* A candidate is the nonce it carries and an outline, its content without *)
(* the nonce: the signature is identified with the outline.                *)
(***************************************************************************)
EXTENDS Integers, Sequences, FiniteSets

CONSTANTS
    Tabs,           \* browser tabs on the work
    Workers,        \* worker processes that are ever started
    Runs,           \* planning runs
    Keys,           \* idempotency keys
    Outlines,       \* contents of a candidate
    PriorLimit,     \* how many outlines a request names: 10
    Quota,          \* how many candidates sessionStorage holds
    Nothing         \* NULL

ASSUME PlanningAssumption ==
    /\ PriorLimit \in Nat \ {0}
    /\ Quota \in Nat
    /\ Nothing \notin Workers \cup Runs \cup Keys

VARIABLES
    run,        \* run[r]: the row of workflow_runs with its steps and request, or Nothing
    worker,     \* worker[w]: a worker process
    expired,    \* the workers whose lease is over
    tab         \* tab[t]: what a tab does and the candidates it keeps

planningVars == <<run, worker, expired, tab>>

-------------------------------------------------------------------------------
(* Rows and processes *)

Candidates == [id : Runs \cup {Nothing}, outline : Outlines]

ASSUME PlanningNullAssumption == Nothing \notin Candidates

PlanningStatuses == {"PLANNED", "RUNNING", "AWAITING_REVIEW", "FAILED"}

(* capture_author_brief has SUCCEEDED from the start; review_work_plan_candidate stays *)
(* PENDING.                                                                            *)
PlanningSteps == {"compile_work_plan_context", "generate_work_plan",
                  "save_work_plan_candidate"}

StepStatuses == {"PENDING", "RUNNING", "SUCCEEDED", "FAILED"}

(* owner stands for worker_id and lease_expires_at, prior for prior_candidate_hashes,  *)
(* output for the artifact of the save step.                                           *)
PlanningRows == [key : Keys, status : PlanningStatuses, owner : Workers \cup {Nothing},
                 prior : SUBSET Outlines, steps : [PlanningSteps -> StepStatuses],
                 output : Candidates \cup {Nothing}]

ASSUME PlanningRowAssumption == Nothing \notin PlanningRows

(* late: the worker was still at work when its lease ended. *)
WorkerStates == [phase : {"none", "scheduled", "claimed", "calling", "ended"},
                 run : Runs \cup {Nothing}, late : BOOLEAN]

NoWorker == [phase |-> "none", run |-> Nothing, late |-> FALSE]

(* own: the run was created by this tab's request, not found under its key. *)
TabStates == [step : {"idle", "checked", "polling", "fetching"},
              key : Keys \cup {Nothing}, run : Runs \cup {Nothing}, own : BOOLEAN,
              kept : Seq(Candidates)]

Idle(t) == [t EXCEPT !.step = "idle", !.key = Nothing, !.run = Nothing, !.own = FALSE]

Existing == {r \in Runs : run[r] # Nothing}

Live(w) == worker[w].phase \in {"claimed", "calling"}

(* The query for a run that is planned or running. *)
Active == \E r \in Existing : run[r].status \in {"PLANNED", "RUNNING"}

(* The query for a run that has the key. *)
KeyKnown(k) == \E r \in Existing : run[r].key = k

(* Fault: the unique index below is missing. *)
KeyUnchecked(k) == TRUE

(* The unique index on (work_id, idempotency_key). *)
KeyFree(k) == \A r \in Existing : run[r].key # k

(* Faults of the test below: it ignores the lease; it never takes a running run over. *)
RecoverableWhileLeased(r) == run[r].status \in {"PLANNED", "FAILED", "RUNNING"}
RecoverableNeverExpired(r) == run[r].status \in {"PLANNED", "FAILED"}

(* What prepare_generation_resume asks of a run. *)
Recoverable(r) == \/ run[r].status \in {"PLANNED", "FAILED"}
                  \/ run[r].status = "RUNNING" /\ run[r].owner \in expired

(* Fault: the artifact's status. *)
ArtifactStatus == "REVIEW"

(* The status a stored candidate gives its run. *)
ReviewStatus == "AWAITING_REVIEW"

(* Fault: the steps are left as they are. *)
StepsKept(steps) == steps

(* The steps a failing run leaves: none of them runs. *)
StepsFailed(steps) == [s \in PlanningSteps |-> IF steps[s] = "RUNNING" THEN "FAILED"
                                               ELSE steps[s]]

(* The last n entries of s. *)
Latest(s, n) == SubSeq(s, IF Len(s) > n THEN Len(s) - n + 1 ELSE 1, Len(s))

(* Fault: the newest candidate is left out. *)
OutlinesBeforeNewest(kept) == {kept[i].outline : i \in 1 .. Len(kept) - 1}

(* The hashes a tab sends, those of its newest candidates. *)
PriorOutlines(kept) ==
    LET s == Latest(kept, PriorLimit) IN {s[i].outline : i \in DOMAIN s}

(* The candidates kept except the one with this id: there is one at most (KeptOnce). *)
Without(kept, id) ==
    IF \E i \in 1 .. Len(kept) : kept[i].id = id
    THEN LET i == CHOOSE i \in 1 .. Len(kept) : kept[i].id = id
         IN SubSeq(kept, 1, i - 1) \o SubSeq(kept, i + 1, Len(kept))
    ELSE kept

(* cachePlanningCandidates: the oldest are dropped until the rest fits. *)
Kept(kept, candidate) == Latest(Append(Without(kept, candidate.id), candidate), Quota)

-------------------------------------------------------------------------------
(* The tab and the web process *)

(* create_work_planning_run looks for the key, then for an active run. *)
AskPlanning(t, k) ==
    /\ tab[t].step = "idle"
    /\ \/ /\ ~KeyKnown(k) /\ ~Active
          /\ tab' = [tab EXCEPT ![t].step = "checked", ![t].key = k]
       \/ \E r \in Existing :
              /\ run[r].key = k
              /\ tab' = [tab EXCEPT ![t].step = "polling", ![t].run = r]
    /\ UNCHANGED <<run, worker, expired>>

(* schedule_generation_run, after the commit: a process will start and find its run's  *)
(* kind, unless the web process dies before (Crash).                                    *)
Schedule(r, w) ==
    /\ worker[w].phase = "none"                                    \* bound
    /\ worker' = [worker EXCEPT ![w] = [NoWorker EXCEPT !.phase = "scheduled", !.run = r]]

(* The run, its request and its steps are inserted in one transaction. *)
InsertPlanning(t, r, w) ==
    /\ tab[t].step = "checked"
    /\ KeyFree(tab[t].key)
    /\ r \notin Existing
    /\ run' = [run EXCEPT ![r] =
           [key |-> tab[t].key, status |-> "PLANNED", owner |-> Nothing,
            prior |-> PriorOutlines(tab[t].kept),
            steps |-> [s \in PlanningSteps |-> "PENDING"], output |-> Nothing]]
    /\ Schedule(r, w)
    /\ tab' = [tab EXCEPT ![t].step = "polling", ![t].key = Nothing, ![t].run = r,
                          ![t].own = TRUE]
    /\ UNCHANGED expired

(* A poll ends when the run does; it goes on to fetch a candidate. *)
Poll(t) ==
    /\ tab[t].step = "polling"
    /\ run[tab[t].run].status \notin {"PLANNED", "RUNNING"}
    /\ tab' = [tab EXCEPT ![t] =
           IF run[@.run].status = "AWAITING_REVIEW" THEN [@ EXCEPT !.step = "fetching"]
           ELSE Idle(@)]
    /\ UNCHANGED <<run, worker, expired>>

(* get_work_planning_candidate; the candidate is kept and put into the form.  409 if *)
(* the run is not in review any more.                                                *)
Fetch(t) ==
    /\ tab[t].step = "fetching"
    /\ LET r == tab[t].run
           kept == IF run[r].status = "AWAITING_REVIEW" THEN Kept(tab[t].kept, run[r].output)
                   ELSE tab[t].kept
       IN tab' = [tab EXCEPT ![t] = [Idle(tab[t]) EXCEPT !.kept = kept]]
    /\ UNCHANGED <<run, worker, expired>>

(* A conflict, a lost answer, or the tab is reloaded: it keeps its sessionStorage. *)
Forget(t) ==
    /\ tab[t].step # "idle"
    /\ tab' = [tab EXCEPT ![t] = Idle(@)]
    /\ UNCHANGED <<run, worker, expired>>

(* POST /workflow-runs/{id}/resume, by any client: no page shows a button for it. *)
Resume(r, w) ==
    /\ r \in Existing
    /\ Recoverable(r)
    /\ run' = [run EXCEPT ![r].status = "PLANNED", ![r].owner = Nothing]
    /\ Schedule(r, w)
    /\ UNCHANGED <<expired, tab>>

-------------------------------------------------------------------------------
(* The worker process *)

End(w) == worker' = [worker EXCEPT ![w].phase = "ended"]

(* execute_work_planning_run, first transaction: the claim, under the run's lock. *)
Claim(w) ==
    LET r == worker[w].run IN
    /\ worker[w].phase = "scheduled"
    /\ \/ /\ run[r].status \in {"PLANNED", "FAILED"}
          /\ run' = [run EXCEPT ![r].status = "RUNNING", ![r].owner = w]
          /\ worker' = [worker EXCEPT ![w].phase = "claimed"]
       \/ /\ run[r].status \notin {"PLANNED", "FAILED"}
          /\ End(w)
          /\ UNCHANGED run
    /\ UNCHANGED <<expired, tab>>

(* Second transaction: the prompt and the call are recorded. *)
Prepare(w) ==
    /\ worker[w].phase = "claimed"
    /\ run' = [run EXCEPT ![worker[w].run].steps["compile_work_plan_context"] = "SUCCEEDED",
                          ![worker[w].run].steps["generate_work_plan"] = "RUNNING"]
    /\ worker' = [worker EXCEPT ![w].phase = "calling"]
    /\ UNCHANGED <<expired, tab>>

(* _fail_planning_run writes the run it read at the claim and fails running steps: the *)
(* call raised, or its answer is no object, of another run or a repetition.            *)
FailPlanning(w) ==
    LET r == worker[w].run IN
    /\ worker[w].phase = "calling"
    /\ run' = [run EXCEPT ![r].status = "FAILED", ![r].owner = Nothing,
                          ![r].steps = StepsFailed(@)]
    /\ End(w)
    /\ UNCHANGED <<expired, tab>>

(* Fault: the nonce is not compared. *)
AcceptedOfAnyRun(r, answer) == answer.outline \notin run[r].prior

(* An answer must carry the run's nonce and an outline the request did not name. *)
Accepted(r, answer) == answer.id = r /\ answer.outline \notin run[r].prior

(* The candidate is stored and announced in one transaction. *)
StoreCandidate(w, answer) ==
    LET r == worker[w].run IN
    /\ worker[w].phase = "calling"
    /\ Accepted(r, answer)
    /\ run' = [run EXCEPT ![r] = [@ EXCEPT
           !.status = ReviewStatus, !.owner = Nothing, !.output = answer,
           !.steps["generate_work_plan"] = "SUCCEEDED",
           !.steps["save_work_plan_candidate"] = "SUCCEEDED"]]
    /\ End(w)
    /\ UNCHANGED <<expired, tab>>

(* The process is killed, never started, or fails where nothing is caught: the prompt, *)
(* the object store, the unique index on the candidate's hash.                         *)
Crash(w) ==
    /\ worker[w].phase \in {"scheduled", "claimed", "calling"}
    /\ End(w)
    /\ UNCHANGED <<run, expired, tab>>

(* The clock passes lease_expires_at of w's claim; a call may last longer than that.   *)
ExpireLease(w) ==
    /\ w \notin expired
    /\ worker[w].phase = "calling" \/ (~Live(w) /\ \E r \in Existing : run[r].owner = w)
    /\ expired' = expired \cup {w}
    /\ worker' = [worker EXCEPT ![w].late = Live(w)]
    /\ UNCHANGED <<run, tab>>

-------------------------------------------------------------------------------
(* The specification *)

PlanningInit ==
    /\ run = [r \in Runs |-> Nothing]
    /\ worker = [w \in Workers |-> NoWorker]
    /\ expired = {}
    /\ tab = [t \in Tabs |-> [step |-> "idle", key |-> Nothing, run |-> Nothing,
                              own |-> FALSE, kept |-> <<>>]]

TabStep(t) ==
    \/ \E k \in Keys : AskPlanning(t, k)
    \/ \E r \in Runs, w \in Workers : InsertPlanning(t, r, w)
    \/ Poll(t) \/ Fetch(t) \/ Forget(t)

(* What a started worker does unless it is killed. *)
Work(w) ==
    \/ Claim(w) \/ Prepare(w) \/ FailPlanning(w)
    \/ \E answer \in Candidates : StoreCandidate(w, answer)

PlanningNext ==
    \/ \E t \in Tabs : TabStep(t)
    \/ \E r \in Runs, w \in Workers : Resume(r, w)
    \/ \E w \in Workers : Work(w) \/ Crash(w) \/ ExpireLease(w)

PlanningSpec == PlanningInit /\ [][PlanningNext]_planningVars

(* A started worker goes on until it ends or is killed, and the clock runs.  Nobody is *)
(* assumed to ask or to resume.                                                        *)
PlanningFairness ==
    \A w \in Workers : WF_planningVars(Work(w)) /\ WF_planningVars(ExpireLease(w))

FairPlanningSpec == PlanningSpec /\ PlanningFairness

-------------------------------------------------------------------------------
(* Properties *)

(* Every row, process and tab has its type. *)
PlanningTypeOK ==
    /\ run \in [Runs -> PlanningRows \cup {Nothing}]
    /\ worker \in [Workers -> WorkerStates]
    /\ expired \in SUBSET Workers
    /\ tab \in [Tabs -> TabStates]

(* A run that is shown for review has a candidate, made for this run and not one of    *)
(* those the tab had named, however many workers have worked on it.                    *)
ReviewHasOwnCandidate ==
    \A r \in Existing : run[r].status = "AWAITING_REVIEW" =>
        /\ run[r].output # Nothing
        /\ run[r].output.id = r
        /\ run[r].output.outline \notin run[r].prior

(* A tab lists a candidate once, however often it asks for it under the same key. *)
KeptOnce ==
    \A t \in Tabs : \A i, j \in 1 .. Len(tab[t].kept) :
        tab[t].kept[i].id = tab[t].kept[j].id => i = j

(* One key never makes two runs, however its requests interleave. *)
OnePlanningPerKey == \A r, s \in Existing : run[r].key = run[s].key => r = s

(* A worker of the run was still at work when its lease ended. *)
Overtaken(r) == \E w \in Workers : worker[w].run = r /\ worker[w].late

(* A run that has failed or awaits review shows no step at work, unless a worker of it *)
(* has outlived its lease.                                                             *)
SettledRunRests ==
    \A r \in Existing : (run[r].status \in {"AWAITING_REVIEW", "FAILED"} /\ ~Overtaken(r)) =>
        \A s \in PlanningSteps : run[r].steps[s] # "RUNNING"

(* A candidate that is waiting for review is not replaced, failed or reopened, unless  *)
(* a worker of its run has outlived its lease.                                         *)
AnnouncedCandidateStays ==
    [][\A r \in Existing :
           (run[r].status = "AWAITING_REVIEW" /\ run'[r] # run[r]) =>
               Overtaken(r)]_planningVars

(* A tab that fetches the candidate of a run it asked for has not had the outline among *)
(* the newest it keeps (docs/WRITING_WORKSPACE.md:92).                                  *)
FetchedOutlineIsNew ==
    [][\A t \in Tabs : (tab'[t].kept # tab[t].kept /\ tab[t].own) =>
           LET newest == Latest(tab[t].kept, PriorLimit) IN
           \A i \in DOMAIN newest :
               newest[i].outline # run[tab[t].run].output.outline]_planningVars

(* A planning run does not block the next one for ever: it ends, or its lease runs out *)
(* and it can be resumed.                                                              *)
PlanningEndsOrCanResume ==
    \A r \in Runs : (r \in Existing /\ run[r].status = "RUNNING") ~>
        (r \in Existing /\ (run[r].status # "RUNNING" \/ Recoverable(r)))
===============================================================================

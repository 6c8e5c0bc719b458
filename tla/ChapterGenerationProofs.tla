----------------------- MODULE ChapterGenerationProofs -------------------------
(***************************************************************************)
(* The safety properties of ChapterGeneration, for any chapters, callers,  *)
(* workers, runs and bounds.                                               *)
(*                                                                         *)
(* The invariant has three layers, and holds however late workers are.     *)
(* GenerationInv: the tables of Manuscript stay consistent under the       *)
(* worker's stale rows, candidates belong to their run, a run that is shown*)
(* as done has its result, and a chapter that is being generated has a run.*)
(* ClaimInv counts: the workers at work on a run, its candidates and the   *)
(* chance that somebody else starts it together never exceed one, plus one *)
(* for each worker whose lease has ended under the run.  StepsInv: while   *)
(* there is no such worker, the steps of the run agree with its status.    *)
(***************************************************************************)
EXTENDS ChapterGeneration, ManuscriptProofs, FiniteSetTheorems

(* What a request for a run has read, and the run it has planned. *)
LaunchData ==
    \A a \in Callers :
        /\ launch[a].step \in {"read", "checked"} =>
               /\ launch[a].chapter \in Chapters /\ launch[a].key \in Keys
               /\ launch[a].row \in ChapterRows
        /\ launch[a].step = "start" => launch[a].run \in Existing

(* A worker that has not ended has a run; the chapter row of one that calls the model  *)
(* names a revision the chapter has.                                                   *)
WorkerData ==
    \A w \in Workers :
        /\ worker[w].phase \in {"spawned", "claimed", "calling", "repairing"} =>
               worker[w].run \in Existing
        /\ worker[w].phase \in {"calling", "repairing"} =>
               /\ worker[w].row \in ChapterRows
               /\ worker[w].row.latest # 0 =>
                      revision[run[worker[w].run].chapter][worker[w].row.latest] # Nothing

(* A revision names a run only on the chapter of that run. *)
CandidatesBelong ==
    \A c \in Chapters, n \in RevisionNumbers, r \in Runs :
        Candidate(c, n, r) => r \in Existing /\ run[r].chapter = c

(* The run that will take a chapter out of GENERATING: it is planned or running, and    *)
(* each of its workers that calls the model has read GENERATING, so what it writes back *)
(* differs from what it read.                                                           *)
Releases(r, c) ==
    /\ r \in Existing /\ run[r].chapter = c /\ run[r].status \in {"PLANNED", "RUNNING"}
    /\ \A w \in Workers :
           (worker[w].run = r /\ worker[w].phase \in {"calling", "repairing"}) =>
               worker[w].row.status = "GENERATING"

GeneratingIsReleased ==
    \A c \in Chapters : chapter[c].status = "GENERATING" => \E r \in Runs : Releases(r, c)

(* The first layer. *)
GenerationInv ==
    /\ Consistent /\ LedgerInv
    /\ GenerationTypeOK /\ LaunchData /\ WorkerData /\ CandidatesBelong
    /\ OneRunPerKey /\ NoFakeSuccess /\ GeneratingIsReleased

-------------------------------------------------------------------------------
(* What the steps do to the tables of Manuscript *)

(* No revision is removed or changes its author. *)
AuthorsStay ==
    \A c \in Chapters, n \in RevisionNumbers : revision[c][n] # Nothing =>
        revision'[c][n] # Nothing /\ revision'[c][n].run = revision[c][n].run

(* No candidate is added. *)
NoCandidate ==
    \A c \in Chapters, n \in RevisionNumbers, r \in Runs :
        Candidate(c, n, r)' => Candidate(c, n, r)

(* Revision n of chapter c becomes a candidate of run r; no other is added. *)
NewCandidate(c, n, r) ==
    /\ revision'[c][n] # Nothing /\ revision'[c][n].run = r
    /\ \A d \in Chapters, m \in RevisionNumbers, q \in Runs :
           (revision'[d][m] # Nothing /\ revision'[d][m].run = q) =>
               (Candidate(d, m, q) \/ (d = c /\ m = n /\ q = r))

(* No chapter becomes GENERATING. *)
NoGenerating ==
    \A c \in Chapters : chapter'[c].status = "GENERATING" => chapter[c].status = "GENERATING"

(* What a step that neither starts a run nor stores a candidate does to the tables. *)
TablesStep == /\ Consistent' /\ LedgerInv' /\ LedgerStep
              /\ AuthorsStay /\ NoCandidate /\ NoGenerating
              /\ outbox \subseteq outbox'

LEMMA SameTables ==
  ASSUME Consistent, LedgerInv, UNCHANGED vars
  PROVE  TablesStep
  <1>1. Consistent'
    BY DEF vars, tables, Consistent, TypeOK, LockedRowsAreCurrent, HoldsChapter, LatestExists,
       PageRevisionExists, RequestsCarryData
  <1>2. LedgerInv' /\ LedgerStep
    BY QuietStep DEF vars
  <1> QED
    BY <1>1, <1>2 DEF TablesStep, AuthorsStay, NoCandidate, NoGenerating, Candidate, vars,
       tables

(* A page's request, up to the commit of a publication, writes no model revision. *)
LEMMA PageStepTables ==
  ASSUME Consistent, LedgerInv, NEW p \in Pages, PageStep(p)
  PROVE  TablesStep
  <1>1. ASSUME Consistent', UNCHANGED tables
        PROVE  TablesStep
    <2>1. LedgerInv' /\ LedgerStep
      BY <1>1, QuietStep
    <2> QED
      BY <1>1, <2>1 DEF TablesStep, AuthorsStay, NoCandidate, NoGenerating, Candidate, tables
  <1>2. CASE \E c \in Chapters : OpenChapter(p, c)
    BY <1>1, <1>2, OpenChapterStep DEF OpenChapter
  <1>3. CASE \E t \in Texts : BeginSave(p, t)
    BY <1>1, <1>3, BeginSaveStep DEF BeginSave, Begin
  <1>4. CASE \E b \in Briefs : BeginMetadata(p, b)
    BY <1>1, <1>4, BeginMetadataStep DEF BeginMetadata, Begin
  <1>5. CASE BeginPublish(p)
    BY <1>1, <1>5, BeginPublishStep DEF BeginPublish, Begin
  <1>6. CASE FinishSave(p)
    <2>1. Consistent' /\ LedgerInv' /\ LedgerStep /\ outbox' = outbox
      BY <1>6, FinishSaveStep, SaveLedger DEF FinishSave
    <2>2. PICK c, row, t : c = page[p].chapter /\ row = request[p].row /\ t = request[p].text
      OBVIOUS
    <2>3. /\ c \in Chapters /\ row = chapter[c] /\ row \in ChapterRows
          /\ row.latest + 1 \in RevisionNumbers /\ revision[c][row.latest + 1] = Nothing
          /\ StoreRevision(c, row, t, "HUMAN", Nothing, FALSE)
      BY <1>6, <2>2, ManuscriptAssumption DEF FinishSave, StoreRevision, RevisionNumberFree,
         Consistent, LockedRowsAreCurrent, RequestsCarryData, TypeOK, ChapterRows,
         RevisionNumbers
    <2> DEFINE n == row.latest + 1
               stored == [text |-> t, parent |-> row.latest, source |-> "HUMAN",
                          run |-> Nothing, canonical |-> FALSE, commit |-> 0]
    <2>4. /\ revision'[c][n] = stored
          /\ \A m \in RevisionNumbers \ {n} : revision'[c][m] = revision[c][m]
          /\ \A d \in Chapters \ {c} : revision'[d] = revision[d]
      BY <2>3 DEF StoreRevision, Consistent, TypeOK
    <2>5. stored.run = Nothing
      OBVIOUS
    <2>6. /\ chapter'[c].status = "DRAFT" /\ \A d \in Chapters \ {c} : chapter'[d] = chapter[d]
      BY <2>3 DEF StoreRevision, Column, Consistent, TypeOK, ChapterRows
    <2> HIDE DEF n, stored
    <2>7. AuthorsStay
      BY <2>3, <2>4 DEF AuthorsStay, n
    <2>8. NoCandidate
      BY <2>4, <2>5, ManuscriptAssumption DEF NoCandidate, Candidate
    <2>9. NoGenerating
      BY <2>6 DEF NoGenerating
    <2> QED
      BY <2>1, <2>7, <2>8, <2>9 DEF TablesStep
  <1>7. CASE KeepContent(p)
    BY <1>1, <1>7, KeepContentStep DEF KeepContent
  <1>8. CASE RejectSave(p) \/ LoseAnswer(p) \/ Abort(p)
    <2>1. Rollback(p)
      BY <1>8 DEF RejectSave, LoseAnswer, Abort
    <2> QED
      BY <1>1, <2>1, RollbackStep DEF Rollback
  <1>9. CASE FinishMetadata(p)
    <2>1. /\ Consistent' /\ LedgerInv' /\ LedgerStep
          /\ UNCHANGED <<revision, outbox>>
      BY <1>9, FinishMetadataStep, MetadataLedger DEF FinishMetadata
    <2>2. \A c \in Chapters : chapter'[c].status = chapter[c].status
      BY <1>9 DEF FinishMetadata, Consistent, TypeOK, ChapterRows
    <2> QED
      BY <2>1, <2>2 DEF TablesStep, AuthorsStay, NoCandidate, NoGenerating, Candidate
  <1>10. CASE LockWork(p)
    <2>1. UNCHANGED tables
      BY <1>10 DEF LockWork, Rollback
    <2> QED
      BY <1>1, <1>10, <2>1, LockWorkStep
  <1>11. CASE ReceiveAnswer(p)
    BY <1>1, <1>11, ReceiveAnswerStep DEF ReceiveAnswer
  <1> QED
    BY <1>2, <1>3, <1>4, <1>5, <1>6, <1>7, <1>8, <1>9, <1>10, <1>11 DEF PageStep

(* The commit of a publication. *)
LEMMA PublicationTables ==
  ASSUME Consistent, LedgerInv, NEW p \in Pages, FinishPublish(p)
  PROVE  TablesStep
  <1>1. Consistent' /\ LedgerInv' /\ LedgerStep
    BY FinishPublishStep, PublishStatus
  <1>2. \A c \in Chapters, n \in RevisionNumbers :
            /\ revision'[c][n] # Nothing <=> revision[c][n] # Nothing
            /\ revision[c][n] # Nothing => revision'[c][n].run = revision[c][n].run
    BY PublicationKeeps
  <1>3. outbox \subseteq outbox'
    BY PublicationShape
  <1>4. NoGenerating
    <2>1. /\ page[p].chapter \in Chapters
          /\ chapter' = [chapter EXCEPT ![page[p].chapter] = [chapter[page[p].chapter] EXCEPT
                             !.latest = page[p].rev, !.status = "COMMITTED", !.version = @ + 1]]
      BY PublicationShape
    <2> QED
      BY <2>1 DEF NoGenerating, Consistent, TypeOK, ChapterRows
  <1> QED
    BY <1>1, <1>2, <1>3, <1>4 DEF TablesStep, AuthorsStay, NoCandidate, Candidate

(* A writer that waits for the chapter's lock finds no request that counts on the row. *)
LEMMA StatusWritten ==
  ASSUME Consistent, LedgerInv, NEW c \in Chapters, NEW s \in ChapterStatuses, NEW v \in Nat,
         ~ChapterLocked(c),
         chapter' = [chapter EXCEPT ![c].status = s, ![c].version = v],
         UNCHANGED <<revision, artifact, work, outbox, page, request>>
  PROVE  /\ Consistent' /\ LedgerInv' /\ LedgerStep /\ AuthorsStay /\ NoCandidate
         /\ chapter'[c].status = s /\ \A d \in Chapters \ {c} : chapter'[d] = chapter[d]
  <1> DEFINE new == [chapter[c] EXCEPT !.status = s, !.version = v]
  <1>1. new \in ChapterRows /\ new.status = s /\ new.latest = chapter[c].latest
    BY DEF Consistent, TypeOK, ChapterRows
  <1>2. chapter' = [chapter EXCEPT ![c] = new]
    BY DEF Consistent, TypeOK
  <1> HIDE DEF new
  <1>3. /\ chapter' \in [Chapters -> ChapterRows]
        /\ chapter'[c] = new /\ \A d \in Chapters \ {c} : chapter'[d] = chapter[d]
    BY <1>1, <1>2 DEF Consistent, TypeOK
  <1>4. TypeOK'
    BY <1>3 DEF Consistent, TypeOK
  <1>5. LockedRowsAreCurrent'
    BY <1>3 DEF Consistent, LockedRowsAreCurrent, RequestsCarryData, ChapterLocked, HoldsChapter
  <1>6. LatestExists' /\ PageRevisionExists' /\ RequestsCarryData'
    BY <1>1, <1>3 DEF Consistent, LatestExists, PageRevisionExists, RequestsCarryData
  <1>7. LedgerInv' /\ LedgerStep
    BY QuietLedger
  <1> QED
    BY <1>1, <1>3, <1>4, <1>5, <1>6, <1>7 DEF Consistent, AuthorsStay, NoCandidate, Candidate

(* The worker's save_chapter_content, from a row that may be old. *)
LEMMA CandidateStored ==
  ASSUME Consistent, LedgerInv, NEW c \in Chapters, NEW row \in ChapterRows, NEW t \in Texts,
         NEW r \in Runs, NEW n, n = row.latest + 1, row.latest < MaxRevisions,
         row.latest # 0 => revision[c][row.latest] # Nothing, ~ChapterLocked(c),
         StoreRevision(c, row, t, "MODEL", r, TRUE), UNCHANGED <<work, outbox, page, request>>
  PROVE  /\ Consistent' /\ LedgerInv' /\ LedgerStep /\ AuthorsStay
         /\ n \in RevisionNumbers /\ NewCandidate(c, n, r)
         /\ chapter'[c].status = Column(chapter[c].status, row.status, "REVIEW")
         /\ \A d \in Chapters \ {c} : chapter'[d] = chapter[d]
  <1> DEFINE stored == [text |-> t, parent |-> row.latest, source |-> "MODEL", run |-> r,
                        canonical |-> FALSE, commit |-> 0]
             s == Column(chapter[c].status, row.status, "REVIEW")
             new == [chapter[c] EXCEPT !.latest = n, !.status = s, !.version = row.version + 1]
  <1>1. /\ row.latest \in 0 .. MaxRevisions /\ n \in RevisionNumbers /\ n \in 0 .. MaxRevisions
        /\ n # 0 /\ row.version + 1 \in Nat /\ revision[c][n] = Nothing
    BY ManuscriptAssumption DEF StoreRevision, RevisionNumberFree, ChapterRows, RevisionNumbers
  <1>2. LedgerInv' /\ Ledger!Accept(c, t)
    <2>1. r \in Runs \cup {Nothing} /\ "MODEL" \in {"HUMAN", "MODEL"}
      OBVIOUS
    <2> QED
      BY <2>1, StoredRevision
  <1>3. LedgerStep
    BY <1>2, AcceptIsStep
  <1>4. stored \in RevisionRows /\ stored # Nothing /\ stored.run = r
    <2>1. stored.run = r
      OBVIOUS
    <2>2. stored \in RevisionRows
      BY <1>1 DEF RevisionRows
    <2> HIDE DEF stored
    <2> QED
      BY <2>1, <2>2, NullAssumption
  <1>5. revision' = [revision EXCEPT ![c] = [@ EXCEPT ![n] = stored]]
    BY DEF StoreRevision
  <1> HIDE DEF stored
  <1>6. /\ revision' \in [Chapters -> [RevisionNumbers -> RevisionRows \cup {Nothing}]]
        /\ revision'[c][n] = stored
        /\ \A m \in RevisionNumbers \ {n} : revision'[c][m] = revision[c][m]
        /\ \A d \in Chapters \ {c} : revision'[d] = revision[d]
    BY <1>1, <1>4, <1>5 DEF Consistent, TypeOK
  <1>7. s \in ChapterStatuses /\ chapter[c] \in ChapterRows
    BY DEF Column, Consistent, TypeOK, ChapterRows, ChapterStatuses
  <1>8. chapter' = [chapter EXCEPT ![c] = new]
    BY DEF StoreRevision, Consistent, TypeOK, ChapterRows
  <1> HIDE DEF s
  <1>9. new \in ChapterRows
    BY <1>1, <1>7, ChapterRowUpdate
  <1>10. new.latest = n /\ new.status = s
    BY <1>7 DEF ChapterRows
  <1> HIDE DEF new
  <1>11. /\ chapter' \in [Chapters -> ChapterRows]
         /\ chapter'[c] = new /\ \A d \in Chapters \ {c} : chapter'[d] = chapter[d]
    BY <1>8, <1>9 DEF Consistent, TypeOK
  <1>12. artifact' \in [Texts -> ArtifactStatuses]
    BY DEF StoreRevision, Consistent, TypeOK, ArtifactStatuses
  <1>13. TypeOK'
    BY <1>6, <1>11, <1>12 DEF Consistent, TypeOK
  <1>14. LockedRowsAreCurrent'
    BY <1>11 DEF Consistent, LockedRowsAreCurrent, RequestsCarryData, ChapterLocked,
       HoldsChapter
  <1>15. AuthorsStay
    BY <1>1, <1>6 DEF AuthorsStay
  <1>16. \A d \in Chapters, m \in RevisionNumbers :
             revision[d][m] # Nothing => revision'[d][m] # Nothing
    BY <1>15 DEF AuthorsStay
  <1>17. LatestExists'
    <2>1. \A d \in Chapters : chapter[d].latest # 0 => chapter[d].latest \in RevisionNumbers
      BY ManuscriptAssumption DEF Consistent, TypeOK, ChapterRows, RevisionNumbers
    <2> QED
      BY <1>4, <1>6, <1>10, <1>11, <1>16, <2>1 DEF Consistent, LatestExists
  <1>18. PageRevisionExists'
    <2>1. \A p \in Pages : page[p].rev # 0 => page[p].rev \in RevisionNumbers
      BY ManuscriptAssumption DEF Consistent, TypeOK, PageStates, RevisionNumbers
    <2> QED
      BY <1>16, <2>1 DEF Consistent, PageRevisionExists
  <1>19. RequestsCarryData'
    <2>1. \A p \in Pages : request[p].step = "ready" =>
              page[p].chapter \in Chapters /\ page[p].chapter # c
      BY DEF Consistent, RequestsCarryData, ChapterLocked, HoldsChapter
    <2> QED
      BY <1>6, <2>1 DEF Consistent, RequestsCarryData
  <1>20. NewCandidate(c, n, r)
    BY <1>4, <1>6 DEF NewCandidate, Candidate
  <1> QED
    BY <1>1, <1>2, <1>3, <1>10, <1>11, <1>13, <1>14, <1>15, <1>17, <1>18, <1>19, <1>20
       DEF Consistent, s

-------------------------------------------------------------------------------
(* What the steps do to runs and workers *)

(* The row of run r becomes x; nothing else of the table changes. *)
RunSet(r, x) == /\ run' \in [Runs -> RunRows \cup {Nothing}]
                /\ run'[r] = x
                /\ \A q \in Runs \ {r} : run'[q] = run[q]

WorkerSet(w, y) == /\ worker' \in [Workers -> WorkerStates]
                   /\ worker'[w] = y
                   /\ \A v \in Workers \ {w} : worker'[v] = worker[v]

(* The worker of w has ended. *)
WorkerOver(w) == \E y \in WorkerStates : y.phase = "ended" /\ WorkerSet(w, y)

(* No run is added, removed or given to another chapter or key. *)
RunsStay ==
    /\ Existing' = Existing
    /\ \A r \in Existing : run'[r].chapter = run[r].chapter /\ run'[r].key = run[r].key

(* No run is shown as done that was not. *)
NoneDone ==
    \A r \in Existing : run'[r].status \in {"AWAITING_REVIEW", "COMPLETED"} =>
        run'[r].status = run[r].status

(* No active run stops. *)
ActiveStay ==
    \A r \in Existing : run[r].status \in {"PLANNED", "RUNNING"} =>
        run'[r].status \in {"PLANNED", "RUNNING"}

(* No worker starts to call the model. *)
CallersStay ==
    \A w \in Workers : worker'[w].phase \in {"calling", "repairing"} =>
        /\ worker[w].phase \in {"calling", "repairing"}
        /\ worker'[w].run = worker[w].run /\ worker'[w].row = worker[w].row

(* The rows of runs that exist are rows. *)
LEMMA RunRow ==
  ASSUME GenerationInv, NEW r \in Existing
  PROVE  /\ r \in Runs /\ run[r] \in RunRows /\ run[r].chapter \in Chapters
         /\ run[r].key \in Keys /\ run[r].status \in RunStatuses
         /\ run[r].owner \in Workers \cup {Nothing}
         /\ run[r].steps \in [StepKeys -> StepStatuses]
  BY DEF GenerationInv, GenerationTypeOK, Existing, RunRows

(* A run's row is written; its chapter and key stay. *)
LEMMA RunWritten ==
  ASSUME GenerationInv, NEW r \in Existing, NEW x \in RunRows,
         x.chapter = run[r].chapter, x.key = run[r].key, run' = [run EXCEPT ![r] = x]
  PROVE  RunSet(r, x) /\ RunsStay
  <1>1. r \in Runs /\ x # Nothing
    BY GenerationAssumption DEF Existing
  <1>2. RunSet(r, x)
    BY <1>1 DEF RunSet, GenerationInv, GenerationTypeOK
  <1>3. Existing' = Existing
    BY <1>1, <1>2 DEF RunSet, Existing
  <1>4. \A q \in Existing : run'[q].chapter = run[q].chapter /\ run'[q].key = run[q].key
    BY <1>2 DEF RunSet, Existing
  <1> QED
    BY <1>2, <1>3, <1>4 DEF RunsStay

LEMMA SameRuns ==
  ASSUME GenerationInv, run' = run
  PROVE  /\ RunsStay /\ NoneDone /\ ActiveStay
         /\ run' \in [Runs -> RunRows \cup {Nothing}]
  BY DEF RunsStay, NoneDone, ActiveStay, Existing, GenerationInv, GenerationTypeOK

LEMMA SameWorkers ==
  ASSUME GenerationInv, worker' = worker, AuthorsStay,
         Existing \subseteq Existing',
         \A r \in Existing : run'[r].chapter = run[r].chapter
  PROVE  WorkerData' /\ CallersStay /\ worker' \in [Workers -> WorkerStates]
  <1>1. ASSUME NEW w \in Workers, worker[w].phase \in {"calling", "repairing"},
               worker[w].row.latest # 0
        PROVE  revision'[run'[worker[w].run].chapter][worker[w].row.latest] # Nothing
    <2>1. worker[w].run \in Existing /\ worker[w].row \in ChapterRows
      BY <1>1 DEF GenerationInv, WorkerData
    <2>2. worker[w].row.latest \in RevisionNumbers
      BY <1>1, <2>1, ManuscriptAssumption DEF ChapterRows, RevisionNumbers
    <2> QED
      BY <1>1, <2>1, <2>2, RunRow DEF GenerationInv, WorkerData, AuthorsStay
  <1>2. WorkerData'
    BY <1>1 DEF GenerationInv, WorkerData
  <1> QED
    BY <1>2 DEF CallersStay, GenerationInv, GenerationTypeOK

(* A worker's state is written; what it is about to do has its data. *)
LEMMA WorkerWritten ==
  ASSUME GenerationInv, RunsStay, AuthorsStay, NEW w \in Workers, NEW y \in WorkerStates,
         worker' = [worker EXCEPT ![w] = y],
         y.phase \in {"spawned", "claimed", "calling", "repairing"} => y.run \in Existing,
         y.phase \in {"calling", "repairing"} =>
             /\ y.row \in ChapterRows
             /\ y.row.latest # 0 => revision[run[y.run].chapter][y.row.latest] # Nothing
  PROVE  WorkerSet(w, y) /\ WorkerData'
  <1>1. WorkerSet(w, y)
    BY DEF WorkerSet, GenerationInv, GenerationTypeOK
  <1>2. ASSUME NEW v \in Workers, NEW z, z = worker'[v], z.phase \in {"calling", "repairing"}
        PROVE  /\ z.run \in Existing /\ z.row \in ChapterRows
               /\ z.row.latest # 0 => revision[run[z.run].chapter][z.row.latest] # Nothing
    BY <1>1, <1>2 DEF WorkerSet, GenerationInv, WorkerData
  <1>3. ASSUME NEW v \in Workers, NEW z, z = worker'[v], z.phase \in {"calling", "repairing"},
               z.row.latest # 0
        PROVE  revision'[run'[z.run].chapter][z.row.latest] # Nothing
    <2>1. z.row.latest \in RevisionNumbers
      BY <1>2, <1>3, ManuscriptAssumption DEF ChapterRows, RevisionNumbers
    <2>2. run[z.run].chapter \in Chapters /\ run'[z.run].chapter = run[z.run].chapter
      BY <1>2, <1>3, RunRow DEF RunsStay
    <2> QED
      BY <1>2, <1>3, <2>1, <2>2 DEF AuthorsStay
  <1>4. \A v \in Workers :
            worker'[v].phase \in {"spawned", "claimed", "calling", "repairing"} =>
                worker'[v].run \in Existing
    BY <1>1 DEF WorkerSet, GenerationInv, WorkerData
  <1> QED
    BY <1>1, <1>2, <1>3, <1>4 DEF WorkerData, RunsStay

(* A worker that ends. *)
LEMMA WorkerEnds ==
  ASSUME GenerationInv, RunsStay, AuthorsStay, NEW w \in Workers, End(w)
  PROVE  /\ WorkerData' /\ CallersStay
         /\ WorkerOver(w)
  <1>1. PICK y : y = [NoWorker EXCEPT !.phase = "ended"]
    OBVIOUS
  <1>2. y \in WorkerStates /\ y.phase = "ended"
    BY <1>1 DEF NoWorker, WorkerStates
  <1>3. worker' = [worker EXCEPT ![w] = y]
    BY <1>1 DEF End
  <1>4. WorkerSet(w, y) /\ WorkerData'
    BY <1>2, <1>3, WorkerWritten
  <1>5. CallersStay
    BY <1>2, <1>4 DEF WorkerSet, CallersStay
  <1> QED
    BY <1>2, <1>4, <1>5 DEF WorkerOver

LEMMA LaunchWritten ==
  ASSUME GenerationInv, Existing \subseteq Existing', NEW a \in Callers, NEW l \in Launches,
         launch' = [launch EXCEPT ![a] = l],
         l.step \in {"read", "checked"} =>
             l.chapter \in Chapters /\ l.key \in Keys /\ l.row \in ChapterRows,
         l.step = "start" => l.run \in Existing'
  PROVE  LaunchData' /\ launch' \in [Callers -> Launches]
  BY DEF GenerationInv, GenerationTypeOK, LaunchData

LEMMA SameLaunches ==
  ASSUME GenerationInv, Existing \subseteq Existing', launch' = launch
  PROVE  LaunchData' /\ launch' \in [Callers -> Launches]
  BY DEF GenerationInv, GenerationTypeOK, LaunchData

(* What belongs to runs survives a step that adds no run, no candidate and no result. *)
LEMMA RunsKept ==
  ASSUME GenerationInv, RunsStay, NoneDone, AuthorsStay, NoCandidate, outbox \subseteq outbox'
  PROVE  CandidatesBelong' /\ OneRunPerKey' /\ NoFakeSuccess'
  <1>1. CandidatesBelong'
    <2> SUFFICES ASSUME NEW c \in Chapters, NEW n \in RevisionNumbers, NEW r \in Runs,
                        Candidate(c, n, r)'
                 PROVE  r \in Existing' /\ run'[r].chapter = c
      BY DEF CandidatesBelong
    <2> QED
      BY DEF GenerationInv, CandidatesBelong, NoCandidate, RunsStay
  <1>2. OneRunPerKey'
    BY DEF GenerationInv, OneRunPerKey, RunsStay
  <1>3. ASSUME NEW r \in Existing, run'[r].status \in {"AWAITING_REVIEW", "COMPLETED"}
        PROVE  \E n \in RevisionNumbers : revision'[run'[r].chapter][n] # Nothing
                                          /\ revision'[run'[r].chapter][n].run = r
    <2>1. PICK n \in RevisionNumbers : Candidate(run[r].chapter, n, r)
      BY <1>3 DEF GenerationInv, NoFakeSuccess, NoneDone
    <2> QED
      BY <2>1, RunRow DEF AuthorsStay, Candidate, RunsStay
  <1>4. ASSUME NEW r \in Existing, run'[r].status = "COMPLETED"
        PROVE  \E e \in outbox' : revision'[e.chapter][e.revision] # Nothing
                                  /\ revision'[e.chapter][e.revision].run = r
    <2>1. PICK e \in outbox : Candidate(e.chapter, e.revision, r)
      BY <1>4 DEF GenerationInv, NoFakeSuccess, NoneDone
    <2>2. e.chapter \in Chapters /\ e.revision \in RevisionNumbers
      BY DEF GenerationInv, Consistent, TypeOK, OutboxRows
    <2> QED
      BY <2>1, <2>2 DEF AuthorsStay, Candidate
  <1>5. NoFakeSuccess'
    BY <1>3, <1>4 DEF NoFakeSuccess, Candidate, RunsStay
  <1> QED
    BY <1>1, <1>2, <1>5

LEMMA ReleaseKept ==
  ASSUME GenerationInv, RunsStay, ActiveStay, CallersStay, NoGenerating
  PROVE  GeneratingIsReleased'
  <1> SUFFICES ASSUME NEW c \in Chapters, chapter'[c].status = "GENERATING"
               PROVE  \E r \in Runs : Releases(r, c)'
    BY DEF GeneratingIsReleased
  <1>1. PICK r \in Runs : Releases(r, c)
    BY DEF GenerationInv, GeneratingIsReleased, NoGenerating
  <1>2. Releases(r, c)'
    BY <1>1 DEF Releases, RunsStay, ActiveStay, CallersStay
  <1> QED
    BY <1>2

(* The first layer, of a step that starts no run and ends none. *)
LEMMA StepKeepsInvariant ==
  ASSUME GenerationInv, TablesStep, RunsStay, NoneDone, ActiveStay, CallersStay,
         run' \in [Runs -> RunRows \cup {Nothing}], worker' \in [Workers -> WorkerStates],
         generation' \in [Workers -> [1 .. 2 -> CallStatuses]], expired' \subseteq Workers,
         late' \in [Workers -> Runs \cup {Nothing}],
         launch' \in [Callers -> Launches], LaunchData', WorkerData'
  PROVE  GenerationInv' /\ LedgerStep
  <1>1. CandidatesBelong' /\ OneRunPerKey' /\ NoFakeSuccess'
    BY RunsKept DEF TablesStep
  <1>2. GeneratingIsReleased'
    BY ReleaseKept DEF TablesStep
  <1>3. GenerationTypeOK'
    BY DEF GenerationTypeOK, TablesStep, Consistent
  <1> QED
    BY <1>1, <1>2, <1>3 DEF GenerationInv, TablesStep

-------------------------------------------------------------------------------
(* The steps of a run *)

LEMMA MarkedSteps ==
  ASSUME NEW steps \in [StepKeys -> StepStatuses], NEW keys, NEW s \in StepStatuses
  PROVE  /\ Marked(steps, keys, s) \in [StepKeys -> StepStatuses]
         /\ \A k \in StepKeys : Marked(steps, keys, s)[k] = IF k \in keys THEN s ELSE steps[k]
  BY DEF Marked

(* _fail_run leaves no step running. *)
LEMMA FailingSteps ==
  ASSUME NEW steps \in [StepKeys -> StepStatuses]
  PROVE  /\ Failing(steps) \in [StepKeys -> StepStatuses]
         /\ \A k \in StepKeys : Failing(steps)[k] # "RUNNING"
  BY DEF Failing, Marked, StepStatuses

LEMMA ScanningSteps ==
  ASSUME NEW steps \in [StepKeys -> StepStatuses]
  PROVE  /\ Scanning(steps) \in [StepKeys -> StepStatuses]
         /\ Scanning(steps)["write_chapter"] = "SUCCEEDED"
         /\ Scanning(steps)["load_chapter_task"] = steps["load_chapter_task"]
         /\ Scanning(steps)["compile_context"] = steps["compile_context"]
  BY DEF Scanning, Marked, StepStatuses, StepKeys

(* The steps of a run whose candidate is stored. *)
LEMMA StoredSteps ==
  ASSUME NEW steps \in [StepKeys -> StepStatuses], NEW done,
         done = Marked(Marked(steps, {"scan_prose_purity", "save_candidate"}, "SUCCEEDED"),
                       {"review_candidate"}, "PENDING")
  PROVE  /\ done \in [StepKeys -> StepStatuses]
         /\ done["scan_prose_purity"] = "SUCCEEDED" /\ done["save_candidate"] = "SUCCEEDED"
         /\ done["review_candidate"] = "PENDING"
         /\ \A k \in {"load_chapter_task", "compile_context", "write_chapter"} :
                done[k] = steps[k]
  BY DEF Marked, StepStatuses, StepKeys

-------------------------------------------------------------------------------
(* What each action does, for both layers *)

(* The claim: a planned or failed run becomes its worker's. *)
LEMMA ClaimEffect ==
  ASSUME GenerationInv, NEW w \in Workers, Claim(w), NEW r, r = worker[w].run,
         run[r].status \in {"PLANNED", "FAILED"}
  PROVE  /\ r \in Existing /\ RunsStay
         /\ \E x \in RunRows : /\ x.status = "RUNNING" /\ x.owner = w /\ x.steps = run[r].steps
                               /\ RunSet(r, x)
         /\ \E y \in WorkerStates : /\ y.phase = "claimed" /\ y.run = r
                                    /\ WorkerSet(w, y)
         /\ WorkerData'
  <1>1. worker[w].phase = "spawned" /\ r \in Existing /\ worker[w] \in WorkerStates
    BY DEF Claim, GenerationInv, GenerationTypeOK, WorkerData
  <1> DEFINE x == [run[r] EXCEPT !.status = "RUNNING", !.owner = w]
             y == [worker[w] EXCEPT !.phase = "claimed"]
  <1>2. /\ x \in RunRows /\ x.chapter = run[r].chapter /\ x.key = run[r].key
        /\ x.status = "RUNNING" /\ x.owner = w /\ x.steps = run[r].steps
    BY <1>1, RunRow DEF RunRows, RunStatuses
  <1>3. run' = [run EXCEPT ![r] = x]
    BY <1>1 DEF Claim, GenerationInv, GenerationTypeOK
  <1>4. y \in WorkerStates /\ y.phase = "claimed" /\ y.run = r
    BY <1>1 DEF WorkerStates
  <1>5. worker' = [worker EXCEPT ![w] = y] /\ UNCHANGED vars
    BY DEF Claim, GenerationInv, GenerationTypeOK
  <1> HIDE DEF x, y
  <1>6. RunSet(r, x) /\ RunsStay
    BY <1>1, <1>2, <1>3, RunWritten
  <1>7. WorkerSet(w, y) /\ WorkerData'
    <2>1. AuthorsStay
      BY <1>5 DEF AuthorsStay, vars, tables
    <2> QED
      BY <1>1, <1>4, <1>5, <1>6, <2>1, WorkerWritten
  <1> QED
    BY <1>1, <1>2, <1>4, <1>6, <1>7

(* The second transaction: the worker reads the chapter it will write from. *)
LEMMA PrepareEffect ==
  ASSUME GenerationInv, NEW w \in Workers, Prepare(w), NEW r, r = worker[w].run
  PROVE  /\ r \in Existing /\ RunsStay /\ worker[w].phase = "claimed"
         /\ \E x \in RunRows : /\ x.status = run[r].status /\ x.owner = run[r].owner
                               /\ x.steps["load_chapter_task"] = "SUCCEEDED"
                               /\ x.steps["compile_context"] = "SUCCEEDED"
                               /\ \A k \in StepKeys :
                                      run[r].steps[k] = "SUCCEEDED" /\ k # "write_chapter" =>
                                          x.steps[k] = "SUCCEEDED"
                               /\ RunSet(r, x)
         /\ \E y \in WorkerStates : /\ y.phase = "calling" /\ y.run = r
                                    /\ y.row = chapter[run[r].chapter]
                                    /\ WorkerSet(w, y)
         /\ WorkerData'
         /\ generation' \in [Workers -> [1 .. 2 -> CallStatuses]]
  <1>1. worker[w].phase = "claimed" /\ r \in Existing /\ worker[w] \in WorkerStates
    BY DEF Prepare, GenerationInv, GenerationTypeOK, WorkerData
  <1>2. run[r].chapter \in Chapters /\ chapter[run[r].chapter] \in ChapterRows
    BY <1>1, RunRow DEF GenerationInv, Consistent, TypeOK
  <1> DEFINE first == Marked(run[r].steps, {"load_chapter_task", "compile_context"}, "SUCCEEDED")
             steps == Marked(first, {"write_chapter"}, "RUNNING")
             x == [run[r] EXCEPT !.steps = steps]
             y == [worker[w] EXCEPT !.phase = "calling", !.row = chapter[run[r].chapter]]
  <1>3. /\ first \in [StepKeys -> StepStatuses]
        /\ first["load_chapter_task"] = "SUCCEEDED" /\ first["compile_context"] = "SUCCEEDED"
        /\ \A k \in StepKeys : run[r].steps[k] = "SUCCEEDED" => first[k] = "SUCCEEDED"
    <2>1. run[r].steps \in [StepKeys -> StepStatuses] /\ "SUCCEEDED" \in StepStatuses
      BY <1>1, RunRow DEF StepStatuses
    <2> QED
      BY <2>1, MarkedSteps DEF StepKeys
  <1> HIDE DEF first
  <1>4. /\ steps \in [StepKeys -> StepStatuses]
        /\ steps["load_chapter_task"] = "SUCCEEDED" /\ steps["compile_context"] = "SUCCEEDED"
        /\ \A k \in StepKeys :
               run[r].steps[k] = "SUCCEEDED" /\ k # "write_chapter" => steps[k] = "SUCCEEDED"
    BY <1>3, MarkedSteps DEF StepKeys, StepStatuses
  <1> HIDE DEF steps
  <1>5. /\ x \in RunRows /\ x.chapter = run[r].chapter /\ x.key = run[r].key
        /\ x.status = run[r].status /\ x.owner = run[r].owner /\ x.steps = steps
    BY <1>1, <1>4, RunRow DEF RunRows
  <1>6. run' = [run EXCEPT ![r] = x]
    BY <1>1 DEF Prepare, GenerationInv, GenerationTypeOK, steps, first
  <1>7. y \in WorkerStates /\ y.phase = "calling" /\ y.run = r
            /\ y.row = chapter[run[r].chapter]
    BY <1>1, <1>2 DEF WorkerStates
  <1>8. worker' = [worker EXCEPT ![w] = y] /\ UNCHANGED vars
    BY DEF Prepare, GenerationInv, GenerationTypeOK
  <1>9. generation' \in [Workers -> [1 .. 2 -> CallStatuses]]
    BY DEF Prepare, GenerationInv, GenerationTypeOK, CallStatuses
  <1> HIDE DEF x, y
  <1>10. RunSet(r, x) /\ RunsStay
    BY <1>1, <1>5, <1>6, RunWritten
  <1>11. WorkerSet(w, y) /\ WorkerData'
    <2>1. AuthorsStay
      BY <1>8 DEF AuthorsStay, vars, tables
    <2>2. y.row.latest # 0 => revision[run[y.run].chapter][y.row.latest] # Nothing
      BY <1>2, <1>7 DEF GenerationInv, Consistent, LatestExists
    <2> QED
      BY <1>1, <1>2, <1>7, <1>8, <1>10, <2>1, <2>2, WorkerWritten
  <1> QED
    BY <1>1, <1>4, <1>5, <1>7, <1>9, <1>10, <1>11

(* The repair: the worker goes on with the rows it has. *)
LEMMA AskRepairEffect ==
  ASSUME GenerationInv, NEW w \in Workers, AskRepair(w), NEW r, r = worker[w].run
  PROVE  /\ r \in Existing /\ RunsStay /\ worker[w].phase = "calling"
         /\ \E x \in RunRows : /\ x.status = run[r].status /\ x.owner = run[r].owner
                               /\ x.steps["write_chapter"] = "SUCCEEDED"
                               /\ \A k \in {"load_chapter_task", "compile_context"} :
                                      x.steps[k] = run[r].steps[k]
                               /\ RunSet(r, x)
         /\ \E y \in WorkerStates : /\ y.phase = "repairing" /\ y.run = r
                                    /\ y.row = worker[w].row
                                    /\ WorkerSet(w, y)
         /\ WorkerData'
         /\ generation' \in [Workers -> [1 .. 2 -> CallStatuses]]
  <1>1. worker[w].phase = "calling" /\ r \in Existing /\ worker[w] \in WorkerStates
    BY DEF AskRepair, GenerationInv, GenerationTypeOK, WorkerData
  <1> DEFINE x == [run[r] EXCEPT !.steps = Scanning(run[r].steps)]
             y == [worker[w] EXCEPT !.phase = "repairing"]
  <1>2. /\ x \in RunRows /\ x.chapter = run[r].chapter /\ x.key = run[r].key
        /\ x.status = run[r].status /\ x.owner = run[r].owner
        /\ x.steps = Scanning(run[r].steps)
    BY <1>1, RunRow, ScanningSteps DEF RunRows
  <1>3. run' = [run EXCEPT ![r] = x]
    BY <1>1 DEF AskRepair, GenerationInv, GenerationTypeOK
  <1>4. y \in WorkerStates /\ y.phase = "repairing" /\ y.run = r /\ y.row = worker[w].row
    BY <1>1 DEF WorkerStates
  <1>5. worker' = [worker EXCEPT ![w] = y] /\ UNCHANGED vars
    BY DEF AskRepair, GenerationInv, GenerationTypeOK
  <1>6. generation' \in [Workers -> [1 .. 2 -> CallStatuses]]
    BY DEF AskRepair, GenerationInv, GenerationTypeOK, CallStatuses
  <1> HIDE DEF x, y
  <1>7. RunSet(r, x) /\ RunsStay
    BY <1>1, <1>2, <1>3, RunWritten
  <1>8. WorkerSet(w, y) /\ WorkerData'
    <2>1. AuthorsStay
      BY <1>5 DEF AuthorsStay, vars, tables
    <2>2. /\ y.row \in ChapterRows
          /\ y.row.latest # 0 => revision[run[y.run].chapter][y.row.latest] # Nothing
      BY <1>1, <1>4 DEF GenerationInv, WorkerData
    <2> QED
      BY <1>1, <1>4, <1>5, <1>7, <2>1, <2>2, WorkerWritten
  <1> QED
    BY <1>1, <1>2, <1>4, <1>6, <1>7, <1>8, RunRow, ScanningSteps

(* _fail_run: the run fails and the chapter goes back to what its latest revision says. *)
FailStep(w) == CallFails(w) \/ RejectOutput(w) \/ RepairFails(w)

RunFails(r) == \E x \in RunRows : /\ x.status = "FAILED" /\ x.owner = Nothing
                                  /\ \A k \in StepKeys : x.steps[k] # "RUNNING"
                                  /\ RunSet(r, x)

ChapterGoesBack(c, row) ==
    /\ \E s \in ChapterStatuses \ {"GENERATING"} :
           chapter'[c].status = Column(chapter[c].status, row.status, s)
    /\ \A d \in Chapters \ {c} : chapter'[d] = chapter[d]

LEMMA FailEffect ==
  ASSUME GenerationInv, NEW w \in Workers, FailStep(w), NEW r, r = worker[w].run,
         NEW c, c = run[r].chapter, NEW row, row = worker[w].row
  PROVE  /\ worker[w].phase \in {"calling", "repairing"} /\ r \in Existing /\ RunsStay
         /\ c \in Chapters
         /\ RunFails(r)
         /\ WorkerOver(w)
         /\ WorkerData' /\ CallersStay
         /\ generation' \in [Workers -> [1 .. 2 -> CallStatuses]]
         /\ Consistent' /\ LedgerInv' /\ LedgerStep /\ AuthorsStay /\ NoCandidate
         /\ ChapterGoesBack(c, row)
         /\ UNCHANGED <<outbox, expired, late, launch>>
  <1>1. worker[w].phase \in {"calling", "repairing"}
    BY DEF FailStep, CallFails, RejectOutput, RepairFails
  <1>2. /\ r \in Existing /\ worker[w].row \in ChapterRows /\ c \in Chapters
        /\ run[r].steps \in [StepKeys -> StepStatuses]
    BY <1>1, RunRow DEF GenerationInv, WorkerData
  <1>3. generation' \in [Workers -> [1 .. 2 -> CallStatuses]]
    <2>1. CASE CallFails(w) \/ RejectOutput(w)
      BY <2>1 DEF CallFails, RejectOutput, GenerationInv, GenerationTypeOK, CallStatuses
    <2>2. CASE RepairFails(w)
      <3>1. PICK calls \in {<<"FAILED", "FAILED">>, <<"FAILED", "RUNNING">>,
                            <<"REJECTED", "FAILED">>} :
                generation' = [generation EXCEPT ![w] = calls]
        BY <2>2 DEF RepairFails
      <3>2. calls \in [1 .. 2 -> CallStatuses]
        BY DEF CallStatuses
      <3> QED
        BY <3>1, <3>2 DEF GenerationInv, GenerationTypeOK
    <2> QED
      BY <2>1, <2>2 DEF FailStep
  <1>4. PICK steps \in [StepKeys -> StepStatuses] :
            /\ ~ChapterLocked(c)
            /\ run' = [run EXCEPT ![r].status = "FAILED", ![r].owner = Nothing,
                                  ![r].steps = Failing(steps)]
            /\ chapter' = [chapter EXCEPT
                   ![c].status = Column(@, worker[w].row.status,
                                        StatusOfLatest(c, worker[w].row.latest)),
                   ![c].version = worker[w].row.version + 1]
            /\ End(w)
            /\ UNCHANGED <<revision, artifact, work, outbox, page, request>>
            /\ UNCHANGED <<expired, late, launch>>
    BY <1>2, ScanningSteps DEF FailStep, CallFails, RejectOutput, RepairFails, FailRun
  <1> DEFINE x == [run[r] EXCEPT !.status = "FAILED", !.owner = Nothing,
                                 !.steps = Failing(steps)]
  <1>5. /\ x \in RunRows /\ x.chapter = run[r].chapter /\ x.key = run[r].key
        /\ x.status = "FAILED" /\ x.owner = Nothing /\ x.steps = Failing(steps)
    <2>1. "FAILED" \in RunStatuses /\ Failing(steps) \in [StepKeys -> StepStatuses]
      BY FailingSteps DEF RunStatuses
    <2> QED
      BY <1>2, <2>1, RunRow DEF RunRows
  <1>6. run' = [run EXCEPT ![r] = x]
    BY <1>2, <1>4 DEF GenerationInv, GenerationTypeOK, Existing
  <1> HIDE DEF x
  <1>7. RunSet(r, x) /\ RunsStay
    BY <1>2, <1>5, <1>6, RunWritten
  <1>8. PICK s : s = StatusOfLatest(c, worker[w].row.latest)
    OBVIOUS
  <1>9. s \in ChapterStatuses \ {"GENERATING"}
    BY <1>8 DEF StatusOfLatest, ChapterStatuses
  <1>10. PICK t : t = Column(chapter[c].status, worker[w].row.status, s)
    OBVIOUS
  <1>11. PICK v : v = worker[w].row.version + 1
    OBVIOUS
  <1>12. t \in ChapterStatuses /\ v \in Nat
    BY <1>2, <1>9, <1>10, <1>11 DEF Column, ChapterRows, GenerationInv, Consistent, TypeOK
  <1>13. chapter' = [chapter EXCEPT ![c].status = t, ![c].version = v]
    BY <1>2, <1>4, <1>8, <1>10, <1>11 DEF GenerationInv, Consistent, TypeOK
  <1>14. /\ Consistent' /\ LedgerInv' /\ LedgerStep /\ AuthorsStay /\ NoCandidate
         /\ chapter'[c].status = t /\ \A d \in Chapters \ {c} : chapter'[d] = chapter[d]
    <2>1. Consistent /\ LedgerInv
      BY DEF GenerationInv
    <2>2. ~ChapterLocked(c) /\ UNCHANGED <<revision, artifact, work, outbox, page, request>>
      BY <1>4
    <2> QED
      BY <1>2, <1>12, <1>13, <2>1, <2>2, StatusWritten
  <1>15. /\ WorkerOver(w)
         /\ WorkerData' /\ CallersStay
    BY <1>4, <1>7, <1>14, WorkerEnds
  <1>16. RunFails(r)
    BY <1>5, <1>7, FailingSteps DEF RunFails
  <1>17. ChapterGoesBack(c, row)
    BY <1>9, <1>10, <1>14 DEF ChapterGoesBack
  <1>18. UNCHANGED <<outbox, expired, late, launch>>
    BY <1>4
  <1> QED
    BY <1>1, <1>2, <1>3, <1>7, <1>14, <1>15, <1>16, <1>17, <1>18

(* The candidate is stored: the run gets one revision, and waits for its review. *)
LEMMA StoreEffect ==
  ASSUME GenerationInv, NEW w \in Workers, NEW t \in CleanTexts, StoreCandidate(w, t),
         NEW r, r = worker[w].run, NEW c, c = run[r].chapter
  PROVE  /\ worker[w].phase \in {"calling", "repairing"} /\ r \in Existing /\ RunsStay
         /\ c \in Chapters
         /\ \E x \in RunRows :
                /\ x.status = "AWAITING_REVIEW" /\ x.owner = Nothing
                /\ x.steps["scan_prose_purity"] = "SUCCEEDED"
                /\ x.steps["save_candidate"] = "SUCCEEDED"
                /\ x.steps["review_candidate"] = "PENDING"
                /\ \A k \in {"load_chapter_task", "compile_context"} :
                       x.steps[k] = run[r].steps[k]
                /\ x.steps["write_chapter"] = IF worker[w].phase = "calling" THEN "SUCCEEDED"
                                              ELSE run[r].steps["write_chapter"]
                /\ RunSet(r, x)
         /\ WorkerOver(w)
         /\ WorkerData' /\ CallersStay
         /\ generation' \in [Workers -> [1 .. 2 -> CallStatuses]]
         /\ Consistent' /\ LedgerInv' /\ LedgerStep /\ AuthorsStay
         /\ \E n \in RevisionNumbers : NewCandidate(c, n, r)
         /\ chapter'[c].status = Column(chapter[c].status, worker[w].row.status, "REVIEW")
         /\ \A d \in Chapters \ {c} : chapter'[d] = chapter[d]
         /\ UNCHANGED <<outbox, expired, late, launch>>
  <1>1. worker[w].phase \in {"calling", "repairing"}
    BY DEF StoreCandidate
  <1>2. PICK row : row = worker[w].row
    OBVIOUS
  <1>3. /\ r \in Existing /\ r \in Runs /\ c \in Chapters /\ row \in ChapterRows
        /\ row.latest # 0 => revision[c][row.latest] # Nothing
        /\ t \in Texts /\ run[r].steps \in [StepKeys -> StepStatuses] /\ run[r] \in RunRows
    BY <1>1, <1>2, RunRow, ManuscriptAssumption DEF GenerationInv, WorkerData
  <1>4. /\ row.latest < MaxRevisions /\ ~ChapterLocked(c)
        /\ StoreRevision(c, row, t, "MODEL", r, TRUE)
        /\ End(w) /\ UNCHANGED <<work, outbox, page, request>>
        /\ UNCHANGED <<expired, late, launch>>
    BY <1>2 DEF StoreCandidate
  <1>5. PICK n : n = row.latest + 1
    OBVIOUS
  <1>6. /\ Consistent' /\ LedgerInv' /\ LedgerStep /\ AuthorsStay
        /\ n \in RevisionNumbers /\ NewCandidate(c, n, r)
        /\ chapter'[c].status = Column(chapter[c].status, row.status, "REVIEW")
        /\ \A d \in Chapters \ {c} : chapter'[d] = chapter[d]
    <2>1. Consistent /\ LedgerInv
      BY DEF GenerationInv
    <2> QED
      BY <1>3, <1>4, <1>5, <2>1, CandidateStored
  <1> DEFINE steps == IF worker[w].phase = "calling" THEN Scanning(run[r].steps)
                      ELSE run[r].steps
             done == Marked(Marked(steps, {"scan_prose_purity", "save_candidate"}, "SUCCEEDED"),
                            {"review_candidate"}, "PENDING")
             x == [run[r] EXCEPT !.status = "AWAITING_REVIEW", !.owner = Nothing,
                                 !.steps = done]
  <1>7. /\ steps \in [StepKeys -> StepStatuses]
        /\ \A k \in {"load_chapter_task", "compile_context"} : steps[k] = run[r].steps[k]
        /\ steps["write_chapter"] = IF worker[w].phase = "calling" THEN "SUCCEEDED"
                                    ELSE run[r].steps["write_chapter"]
    BY <1>3, ScanningSteps
  <1> HIDE DEF steps
  <1>8. /\ done \in [StepKeys -> StepStatuses]
        /\ done["scan_prose_purity"] = "SUCCEEDED" /\ done["save_candidate"] = "SUCCEEDED"
        /\ done["review_candidate"] = "PENDING"
        /\ \A k \in {"load_chapter_task", "compile_context", "write_chapter"} :
               done[k] = steps[k]
    BY <1>7, StoredSteps
  <1>9. run' = [run EXCEPT ![r] = x]
    BY <1>3 DEF StoreCandidate, GenerationInv, GenerationTypeOK, steps
  <1> HIDE DEF done
  <1>10. /\ x \in RunRows /\ x.chapter = run[r].chapter /\ x.key = run[r].key
         /\ x.status = "AWAITING_REVIEW" /\ x.owner = Nothing /\ x.steps = done
    <2>1. "AWAITING_REVIEW" \in RunStatuses
      BY DEF RunStatuses
    <2> QED
      BY <1>3, <1>8, <2>1 DEF RunRows
  <1> HIDE DEF x
  <1>11. RunSet(r, x) /\ RunsStay
    BY <1>3, <1>9, <1>10, RunWritten
  <1>12. /\ WorkerOver(w)
         /\ WorkerData' /\ CallersStay
    BY <1>4, <1>6, <1>11, WorkerEnds
  <1>13. generation' \in [Workers -> [1 .. 2 -> CallStatuses]]
    BY DEF StoreCandidate, GenerationInv, GenerationTypeOK, CallStatuses
  <1>14. /\ x.steps["scan_prose_purity"] = "SUCCEEDED"
         /\ x.steps["save_candidate"] = "SUCCEEDED"
         /\ x.steps["review_candidate"] = "PENDING"
         /\ \A k \in {"load_chapter_task", "compile_context"} : x.steps[k] = run[r].steps[k]
         /\ x.steps["write_chapter"] = IF worker[w].phase = "calling" THEN "SUCCEEDED"
                                       ELSE run[r].steps["write_chapter"]
    BY <1>7, <1>8, <1>10
  <1> QED
    BY <1>1, <1>2, <1>3, <1>4, <1>6, <1>10, <1>11, <1>12, <1>13, <1>14

(* A resume plans the run again. *)
LEMMA ResumeEffect ==
  ASSUME GenerationInv, NEW a \in Callers, NEW r \in Runs, Resume(a, r)
  PROVE  /\ r \in Existing /\ RunsStay /\ Recoverable(r) /\ LaunchData'
         /\ launch' \in [Callers -> Launches]
         /\ \E x \in RunRows : /\ x.status = "PLANNED" /\ x.owner = Nothing
                               /\ x.steps = run[r].steps /\ RunSet(r, x)
  <1>1. r \in Existing /\ Recoverable(r)
    BY DEF Resume
  <1> DEFINE x == [run[r] EXCEPT !.status = "PLANNED", !.owner = Nothing]
             l == [NoLaunch EXCEPT !.step = "start", !.run = r]
  <1>2. /\ x \in RunRows /\ x.chapter = run[r].chapter /\ x.key = run[r].key
        /\ x.status = "PLANNED" /\ x.owner = Nothing /\ x.steps = run[r].steps
    BY <1>1, RunRow DEF RunRows, RunStatuses
  <1>3. run' = [run EXCEPT ![r] = x]
    BY <1>1 DEF Resume, GenerationInv, GenerationTypeOK
  <1>4. l \in Launches /\ l.step = "start" /\ l.run = r
    BY DEF NoLaunch, Launches
  <1>5. launch' = [launch EXCEPT ![a] = l]
    BY DEF Resume
  <1> HIDE DEF x, l
  <1>6. RunSet(r, x) /\ RunsStay
    BY <1>1, <1>2, <1>3, RunWritten
  <1>7. LaunchData' /\ launch' \in [Callers -> Launches]
    BY <1>1, <1>4, <1>5, <1>6, LaunchWritten DEF RunsStay
  <1> QED
    BY <1>1, <1>2, <1>6, <1>7

(* A new run is planned, under a key nobody has. *)
RunPlanned(r, c, k) ==
    \E x \in RunRows : /\ x.chapter = c /\ x.key = k /\ x.status = "PLANNED"
                       /\ x.owner = Nothing /\ RunSet(r, x)

LEMMA CommitEffect ==
  ASSUME GenerationInv, NEW a \in Callers, NEW r \in Runs, CommitGenerate(a, r),
         NEW c, c = launch[a].chapter, NEW k, k = launch[a].key
  PROVE  /\ r \notin Existing /\ c \in Chapters /\ KeyFree(k)
         /\ RunPlanned(r, c, k) /\ Existing' = Existing \cup {r}
         /\ LaunchData' /\ launch' \in [Callers -> Launches]
         /\ Consistent' /\ LedgerInv' /\ LedgerStep /\ AuthorsStay /\ NoCandidate
         /\ \A d \in Chapters \ {c} : chapter'[d] = chapter[d]
         /\ UNCHANGED <<outbox, generation, worker, expired, late>>
  <1>1. PICK row : row = launch[a].row
    OBVIOUS
  <1>2. /\ c \in Chapters /\ k \in Keys /\ row \in ChapterRows /\ r \notin Existing
        /\ KeyFree(k) /\ ~ChapterLocked(c)
    BY <1>1 DEF CommitGenerate, GenerationInv, LaunchData
  <1>3. PICK x : x = [chapter |-> c, key |-> k, status |-> "PLANNED", owner |-> Nothing,
                      steps |-> [s \in StepKeys |-> "PENDING"]]
    OBVIOUS
  <1>4. /\ x \in RunRows /\ x.chapter = c /\ x.key = k /\ x.status = "PLANNED"
        /\ x.owner = Nothing
    BY <1>2, <1>3 DEF RunRows, RunStatuses, StepStatuses
  <1>5. RunSet(r, x)
    BY <1>3, <1>4 DEF CommitGenerate, RunSet, GenerationInv, GenerationTypeOK
  <1>6. Existing' = Existing \cup {r}
    BY <1>4, <1>5, GenerationAssumption DEF RunSet, Existing
  <1>7. PICK l : l = [NoLaunch EXCEPT !.step = "start", !.run = r]
    OBVIOUS
  <1>8. l \in Launches /\ l.step = "start" /\ l.run = r
    BY <1>7 DEF NoLaunch, Launches
  <1>9. launch' = [launch EXCEPT ![a] = l]
    BY <1>7 DEF CommitGenerate
  <1>10. LaunchData' /\ launch' \in [Callers -> Launches]
    BY <1>6, <1>8, <1>9, LaunchWritten
  <1>11. PICK t : t = Column(chapter[c].status, row.status, "GENERATING")
    OBVIOUS
  <1>12. PICK v : v = row.version + 1
    OBVIOUS
  <1>13. t \in ChapterStatuses /\ v \in Nat
    BY <1>2, <1>11, <1>12 DEF Column, ChapterRows, ChapterStatuses, GenerationInv, Consistent,
       TypeOK
  <1>14. chapter' = [chapter EXCEPT ![c].status = t, ![c].version = v]
    BY <1>1, <1>2, <1>11, <1>12 DEF CommitGenerate, GenerationInv, Consistent, TypeOK
  <1>15. /\ UNCHANGED <<revision, artifact, work, outbox, page, request>>
         /\ UNCHANGED <<outbox, generation, worker, expired, late>>
    BY DEF CommitGenerate
  <1>16. /\ Consistent' /\ LedgerInv' /\ LedgerStep /\ AuthorsStay /\ NoCandidate
         /\ \A d \in Chapters \ {c} : chapter'[d] = chapter[d]
    <2>1. Consistent /\ LedgerInv
      BY DEF GenerationInv
    <2> QED
      BY <1>2, <1>13, <1>14, <1>15, <2>1, StatusWritten
  <1>17. RunPlanned(r, c, k)
    BY <1>4, <1>5 DEF RunPlanned
  <1> QED
    BY <1>2, <1>6, <1>10, <1>15, <1>16, <1>17

(* publish_revision completes the run of the revision. *)
RunCompletes(r) == \E x \in RunRows : /\ x.status = "COMPLETED" /\ x.owner = run[r].owner
                                      /\ x.steps["review_candidate"] = "SUCCEEDED"
                                      /\ \A k \in StepKeys \ {"review_candidate"} :
                                             x.steps[k] = run[r].steps[k]
                                      /\ RunSet(r, x)

LEMMA CompleteEffect ==
  ASSUME GenerationInv, NEW p \in Pages, FinishPublishOfRun(p),
         NEW c, c = page[p].chapter, NEW n, n = page[p].rev, NEW r, r = revision[c][n].run
  PROVE  /\ TablesStep /\ RunsStay /\ c \in Chapters /\ n \in RevisionNumbers
         /\ chapter'[c].status = "COMMITTED"
         /\ \A d \in Chapters \ {c} : chapter'[d] = chapter[d]
         /\ r = Nothing => run' = run
         /\ r # Nothing => /\ Candidate(c, n, r) /\ r \in Existing /\ run[r].chapter = c
                           /\ RunCompletes(r)
         /\ \E e \in outbox' : e.chapter = c /\ e.revision = n
         /\ UNCHANGED <<generation, worker, expired, late, launch>>
  <1>1. FinishPublish(p) /\ Consistent /\ LedgerInv
    BY DEF FinishPublishOfRun, GenerationInv
  <1>2. /\ c \in Chapters /\ n \in RevisionNumbers /\ revision[c][n] \in RevisionRows
        /\ chapter[c] \in ChapterRows
        /\ chapter' = [chapter EXCEPT ![c] = [chapter[c] EXCEPT
               !.latest = n, !.status = "COMMITTED", !.version = @ + 1]]
        /\ outbox' = outbox \cup {[chapter |-> c, revision |-> n,
                                   sequence |-> work.sequence + 1]}
    BY <1>1, PublicationShape
  <1>3. TablesStep
    BY <1>1, PublicationTables
  <1>4. /\ chapter'[c].status = "COMMITTED"
        /\ \A d \in Chapters \ {c} : chapter'[d] = chapter[d]
    BY <1>1, <1>2 DEF Consistent, TypeOK, ChapterRows
  <1>5. \E e \in outbox' : e.chapter = c /\ e.revision = n
    <2>1. PICK e : e = [chapter |-> c, revision |-> n, sequence |-> work.sequence + 1]
      OBVIOUS
    <2>2. e \in outbox' /\ e.chapter = c /\ e.revision = n
      BY <1>2, <2>1
    <2> QED
      BY <2>2
  <1>6. UNCHANGED <<generation, worker, expired, late, launch>>
    BY DEF FinishPublishOfRun
  <1>7. CASE r = Nothing
    <2>1. run' = run
      BY <1>7 DEF FinishPublishOfRun
    <2> QED
      BY <1>2, <1>3, <1>4, <1>5, <1>6, <1>7, <2>1, SameRuns
  <1>8. CASE r # Nothing
    <2>1. r \in Runs /\ Candidate(c, n, r)
      BY <1>2, <1>8, NullAssumption DEF RevisionRows, Candidate
    <2>2. r \in Existing /\ run[r].chapter = c
      BY <1>2, <2>1 DEF GenerationInv, CandidatesBelong
    <2>3. PICK steps : steps = [run[r].steps EXCEPT !["review_candidate"] = "SUCCEEDED"]
      OBVIOUS
    <2>4. /\ steps \in [StepKeys -> StepStatuses] /\ steps["review_candidate"] = "SUCCEEDED"
          /\ \A k \in StepKeys \ {"review_candidate"} : steps[k] = run[r].steps[k]
      BY <2>2, <2>3, RunRow DEF StepKeys, StepStatuses
    <2> DEFINE x == [run[r] EXCEPT !.status = "COMPLETED", !.steps = steps]
    <2>5. /\ x \in RunRows /\ x.chapter = run[r].chapter /\ x.key = run[r].key
          /\ x.status = "COMPLETED" /\ x.owner = run[r].owner /\ x.steps = steps
      BY <2>2, <2>4, RunRow DEF RunRows, RunStatuses
    <2>6. run' = [run EXCEPT ![r] = x]
      BY <1>8, <2>1, <2>2, <2>3 DEF FinishPublishOfRun, GenerationInv, GenerationTypeOK
    <2> HIDE DEF x
    <2>7. RunSet(r, x) /\ RunsStay
      BY <2>2, <2>5, <2>6, RunWritten
    <2>8. RunCompletes(r)
      BY <2>4, <2>5, <2>7 DEF RunCompletes
    <2> QED
      BY <1>2, <1>3, <1>4, <1>5, <1>6, <1>8, <2>1, <2>2, <2>7, <2>8
  <1> QED
    BY <1>7, <1>8

-------------------------------------------------------------------------------
(* The first layer *)

LEMMA GenerationInitInv == GenerationInit => GenerationInv
  <1> SUFFICES ASSUME GenerationInit PROVE GenerationInv
    OBVIOUS
  <1>1. Consistent /\ LedgerInv
    BY InitIInv DEF GenerationInit, IInv
  <1>2. /\ run = [r \in Runs |-> Nothing] /\ worker = [w \in Workers |-> NoWorker]
        /\ generation = [w \in Workers |-> <<"NONE", "NONE">>] /\ expired = {}
        /\ late = [w \in Workers |-> Nothing]
        /\ launch = [a \in Callers |-> NoLaunch]
        /\ chapter = [c \in Chapters |-> NewChapter]
        /\ revision = [c \in Chapters |-> [n \in RevisionNumbers |-> Nothing]]
    BY DEF GenerationInit, Init
  <1>3. GenerationTypeOK
    <2>1. NoWorker \in WorkerStates /\ NoLaunch \in Launches
      BY DEF NoWorker, WorkerStates, NoLaunch, Launches
    <2>2. <<"NONE", "NONE">> \in [1 .. 2 -> CallStatuses]
      BY DEF CallStatuses
    <2> QED
      BY <1>1, <1>2, <2>1, <2>2 DEF GenerationTypeOK, Consistent
  <1>4. LaunchData /\ WorkerData
    BY <1>2 DEF LaunchData, WorkerData, NoLaunch, NoWorker
  <1>5. CandidatesBelong
    BY <1>2 DEF CandidatesBelong, Candidate
  <1>6. OneRunPerKey /\ NoFakeSuccess
    BY <1>2 DEF OneRunPerKey, NoFakeSuccess, Existing
  <1>7. GeneratingIsReleased
    BY <1>2 DEF GeneratingIsReleased, NewChapter
  <1> QED
    BY <1>1, <1>3, <1>4, <1>5, <1>6, <1>7 DEF GenerationInv

(* A request that only moves on, a worker that only ends, a lease that only runs out. *)
LEMMA LaunchOnly ==
  ASSUME GenerationInv, UNCHANGED <<vars, run, generation, worker, expired, late>>,
         NEW a \in Callers, NEW l \in Launches, launch' = [launch EXCEPT ![a] = l],
         l.step \in {"read", "checked"} =>
             l.chapter \in Chapters /\ l.key \in Keys /\ l.row \in ChapterRows,
         l.step # "start"
  PROVE  GenerationInv' /\ LedgerStep
  <1>1. TablesStep
    BY SameTables DEF GenerationInv
  <1>2. /\ RunsStay /\ NoneDone /\ ActiveStay
        /\ run' \in [Runs -> RunRows \cup {Nothing}]
    BY SameRuns
  <1>3. Existing' = Existing /\ AuthorsStay /\ \A r \in Existing : run'[r].chapter = run[r].chapter
    BY <1>1, <1>2 DEF TablesStep, RunsStay
  <1>4. WorkerData' /\ CallersStay /\ worker' \in [Workers -> WorkerStates]
    BY <1>3, SameWorkers
  <1>5. LaunchData' /\ launch' \in [Callers -> Launches]
    BY <1>3, LaunchWritten
  <1>6. generation' \in [Workers -> [1 .. 2 -> CallStatuses]] /\ expired' \subseteq Workers
            /\ late' \in [Workers -> Runs \cup {Nothing}]
    BY DEF GenerationInv, GenerationTypeOK
  <1> QED
    BY <1>1, <1>2, <1>4, <1>5, <1>6, StepKeepsInvariant

LEMMA EndOnly ==
  ASSUME GenerationInv, NEW w \in Workers, End(w),
         UNCHANGED <<vars, run, generation, expired, late, launch>>
  PROVE  GenerationInv' /\ LedgerStep
  <1>1. TablesStep
    BY SameTables DEF GenerationInv
  <1>2. /\ RunsStay /\ NoneDone /\ ActiveStay
        /\ run' \in [Runs -> RunRows \cup {Nothing}]
    BY SameRuns
  <1>3. AuthorsStay /\ Existing' = Existing
    BY <1>1, <1>2 DEF TablesStep, RunsStay
  <1>4. WorkerData' /\ CallersStay /\ worker' \in [Workers -> WorkerStates]
    BY <1>2, <1>3, WorkerEnds DEF WorkerOver, WorkerSet
  <1>5. LaunchData' /\ launch' \in [Callers -> Launches]
    BY <1>3, SameLaunches
  <1>6. generation' \in [Workers -> [1 .. 2 -> CallStatuses]] /\ expired' \subseteq Workers
            /\ late' \in [Workers -> Runs \cup {Nothing}]
    BY DEF GenerationInv, GenerationTypeOK
  <1> QED
    BY <1>1, <1>2, <1>4, <1>5, <1>6, StepKeepsInvariant

LEMMA ExpireStep ==
  ASSUME GenerationInv, NEW w \in Workers, ExpireLease(w)
  PROVE  GenerationInv' /\ LedgerStep
  <1>1. /\ UNCHANGED vars /\ run' = run /\ generation' = generation /\ worker' = worker
        /\ launch' = launch /\ expired' = expired \cup {w}
        /\ late' = [late EXCEPT ![w] = IF Live(w) THEN worker[w].run ELSE @]
    BY DEF ExpireLease
  <1>2. TablesStep
    BY <1>1, SameTables DEF GenerationInv
  <1>3. /\ RunsStay /\ NoneDone /\ ActiveStay
        /\ run' \in [Runs -> RunRows \cup {Nothing}]
    BY <1>1, SameRuns
  <1>4. Existing' = Existing /\ AuthorsStay /\ \A r \in Existing : run'[r].chapter = run[r].chapter
    BY <1>2, <1>3 DEF TablesStep, RunsStay
  <1>5. WorkerData' /\ CallersStay /\ worker' \in [Workers -> WorkerStates]
    BY <1>1, <1>4, SameWorkers
  <1>6. LaunchData' /\ launch' \in [Callers -> Launches]
    BY <1>1, <1>4, SameLaunches
  <1>7. generation' \in [Workers -> [1 .. 2 -> CallStatuses]] /\ expired' \subseteq Workers
            /\ late' \in [Workers -> Runs \cup {Nothing}]
    BY <1>1 DEF GenerationInv, GenerationTypeOK, WorkerStates
  <1> QED
    BY <1>2, <1>3, <1>5, <1>6, <1>7, StepKeepsInvariant

LEMMA PageStepInv ==
  ASSUME GenerationInv, NEW p \in Pages, PageStep(p), UNCHANGED generationVars
  PROVE  GenerationInv' /\ LedgerStep
  <1>1. run' = run /\ generation' = generation /\ worker' = worker /\ launch' = launch
            /\ expired' = expired /\ late' = late
    BY DEF generationVars
  <1>2. TablesStep
    BY PageStepTables DEF GenerationInv
  <1>3. /\ RunsStay /\ NoneDone /\ ActiveStay
        /\ run' \in [Runs -> RunRows \cup {Nothing}]
    BY <1>1, SameRuns
  <1>4. Existing' = Existing /\ AuthorsStay /\ \A r \in Existing : run'[r].chapter = run[r].chapter
    BY <1>2, <1>3 DEF TablesStep, RunsStay
  <1>5. WorkerData' /\ CallersStay /\ worker' \in [Workers -> WorkerStates]
    BY <1>1, <1>4, SameWorkers
  <1>6. LaunchData' /\ launch' \in [Callers -> Launches]
    BY <1>1, <1>4, SameLaunches
  <1>7. generation' \in [Workers -> [1 .. 2 -> CallStatuses]] /\ expired' \subseteq Workers
            /\ late' \in [Workers -> Runs \cup {Nothing}]
    BY <1>1 DEF GenerationInv, GenerationTypeOK
  <1> QED
    BY <1>2, <1>3, <1>5, <1>6, <1>7, StepKeepsInvariant

(* Launch, Resume, Claim and AskRepair leave the tables alone and end no run. *)
LEMMA LaunchStepInv ==
  ASSUME GenerationInv, NEW a \in Callers, NEW w \in Workers, Launch(a, w)
  PROVE  /\ GenerationInv' /\ LedgerStep
         /\ \E y \in WorkerStates : y.phase = "spawned" /\ WorkerSet(w, y)
  <1>1. /\ UNCHANGED vars /\ run' = run /\ generation' = generation
        /\ expired' = expired /\ late' = late
        /\ launch[a].step = "start" /\ launch[a].run \in Existing
    BY DEF Launch, GenerationInv, LaunchData
  <1>2. PICK y : y = [NoWorker EXCEPT !.phase = "spawned", !.run = launch[a].run]
    OBVIOUS
  <1>3. y \in WorkerStates /\ y.phase = "spawned" /\ y.run = launch[a].run
    BY <1>1, <1>2 DEF NoWorker, WorkerStates, Existing
  <1>4. worker' = [worker EXCEPT ![w] = y]
    BY <1>2 DEF Launch
  <1>5. TablesStep
    BY <1>1, SameTables DEF GenerationInv
  <1>6. /\ RunsStay /\ NoneDone /\ ActiveStay
        /\ run' \in [Runs -> RunRows \cup {Nothing}]
    BY <1>1, SameRuns
  <1>7. Existing' = Existing /\ AuthorsStay
    BY <1>5, <1>6 DEF TablesStep, RunsStay
  <1>8. WorkerSet(w, y) /\ WorkerData'
    BY <1>1, <1>3, <1>4, <1>6, <1>7, WorkerWritten
  <1>9. CallersStay /\ worker' \in [Workers -> WorkerStates]
    BY <1>3, <1>8 DEF WorkerSet, CallersStay
  <1>10. LaunchData' /\ launch' \in [Callers -> Launches]
    <2>1. NoLaunch \in Launches /\ NoLaunch.step = "idle"
      BY DEF NoLaunch, Launches
    <2>2. launch' = [launch EXCEPT ![a] = NoLaunch]
      BY DEF Launch
    <2> QED
      BY <1>7, <2>1, <2>2, LaunchWritten
  <1>11. generation' \in [Workers -> [1 .. 2 -> CallStatuses]] /\ expired' \subseteq Workers
             /\ late' \in [Workers -> Runs \cup {Nothing}]
    BY <1>1 DEF GenerationInv, GenerationTypeOK
  <1>12. GenerationInv' /\ LedgerStep
    BY <1>5, <1>6, <1>8, <1>9, <1>10, <1>11, StepKeepsInvariant
  <1> QED
    BY <1>3, <1>8, <1>12

LEMMA ResumeStep ==
  ASSUME GenerationInv, NEW a \in Callers, NEW r \in Runs, Resume(a, r)
  PROVE  GenerationInv' /\ LedgerStep
  <1>1. /\ r \in Existing /\ RunsStay /\ LaunchData' /\ launch' \in [Callers -> Launches]
        /\ \E x \in RunRows : x.status = "PLANNED" /\ RunSet(r, x)
    BY ResumeEffect
  <1>2. /\ UNCHANGED vars /\ generation' = generation /\ worker' = worker
        /\ expired' = expired /\ late' = late
    BY DEF Resume
  <1>3. TablesStep
    BY <1>2, SameTables DEF GenerationInv
  <1>4. NoneDone /\ ActiveStay /\ run' \in [Runs -> RunRows \cup {Nothing}]
    BY <1>1 DEF NoneDone, ActiveStay, RunSet, Existing
  <1>5. Existing' = Existing /\ AuthorsStay /\ \A q \in Existing : run'[q].chapter = run[q].chapter
    BY <1>1, <1>3 DEF TablesStep, RunsStay
  <1>6. WorkerData' /\ CallersStay /\ worker' \in [Workers -> WorkerStates]
    BY <1>2, <1>5, SameWorkers
  <1>7. generation' \in [Workers -> [1 .. 2 -> CallStatuses]] /\ expired' \subseteq Workers
            /\ late' \in [Workers -> Runs \cup {Nothing}]
    BY <1>2 DEF GenerationInv, GenerationTypeOK
  <1> QED
    BY <1>1, <1>3, <1>4, <1>6, <1>7, StepKeepsInvariant

LEMMA ClaimStep ==
  ASSUME GenerationInv, NEW w \in Workers, Claim(w)
  PROVE  GenerationInv' /\ LedgerStep
  <1>1. PICK r : r = worker[w].run
    OBVIOUS
  <1>2. CASE run[r].status \notin {"PLANNED", "FAILED"}
    BY <1>1, <1>2, EndOnly DEF Claim, End
  <1>3. CASE run[r].status \in {"PLANNED", "FAILED"}
    <2>1. /\ r \in Existing /\ RunsStay /\ WorkerData'
          /\ \E x \in RunRows : x.status = "RUNNING" /\ RunSet(r, x)
          /\ \E y \in WorkerStates : y.phase = "claimed" /\ WorkerSet(w, y)
      BY <1>1, <1>3, ClaimEffect
    <2>2. /\ UNCHANGED vars /\ generation' = generation /\ launch' = launch
          /\ expired' = expired /\ late' = late
      BY DEF Claim
    <2>3. TablesStep
      BY <2>2, SameTables DEF GenerationInv
    <2>4. NoneDone /\ ActiveStay /\ run' \in [Runs -> RunRows \cup {Nothing}]
      BY <2>1 DEF NoneDone, ActiveStay, RunSet, Existing
    <2>5. CallersStay /\ worker' \in [Workers -> WorkerStates]
      BY <2>1 DEF WorkerSet, CallersStay
    <2>6. LaunchData' /\ launch' \in [Callers -> Launches]
      BY <2>1, <2>2, SameLaunches DEF RunsStay
    <2>7. generation' \in [Workers -> [1 .. 2 -> CallStatuses]] /\ expired' \subseteq Workers
              /\ late' \in [Workers -> Runs \cup {Nothing}]
      BY <2>2 DEF GenerationInv, GenerationTypeOK
    <2> QED
      BY <2>1, <2>3, <2>4, <2>5, <2>6, <2>7, StepKeepsInvariant
  <1> QED
    BY <1>2, <1>3

LEMMA AskRepairStep ==
  ASSUME GenerationInv, NEW w \in Workers, AskRepair(w)
  PROVE  GenerationInv' /\ LedgerStep
  <1>1. PICK r : r = worker[w].run
    OBVIOUS
  <1>2. /\ r \in Existing /\ RunsStay /\ WorkerData' /\ worker[w].phase = "calling"
        /\ \E x \in RunRows : x.status = run[r].status /\ RunSet(r, x)
        /\ \E y \in WorkerStates : y.phase = "repairing" /\ y.run = r /\ y.row = worker[w].row
                                   /\ WorkerSet(w, y)
        /\ generation' \in [Workers -> [1 .. 2 -> CallStatuses]]
    BY <1>1, AskRepairEffect
  <1>3. UNCHANGED vars /\ launch' = launch /\ expired' = expired /\ late' = late
    BY DEF AskRepair
  <1>4. TablesStep
    BY <1>3, SameTables DEF GenerationInv
  <1>5. NoneDone /\ ActiveStay /\ run' \in [Runs -> RunRows \cup {Nothing}]
    BY <1>2 DEF NoneDone, ActiveStay, RunSet, Existing
  <1>6. CallersStay /\ worker' \in [Workers -> WorkerStates]
    BY <1>1, <1>2 DEF WorkerSet, CallersStay
  <1>7. LaunchData' /\ launch' \in [Callers -> Launches]
    BY <1>2, <1>3, SameLaunches DEF RunsStay
  <1>8. expired' \subseteq Workers
            /\ late' \in [Workers -> Runs \cup {Nothing}]
    BY <1>3 DEF GenerationInv, GenerationTypeOK
  <1> QED
    BY <1>2, <1>4, <1>5, <1>6, <1>7, <1>8, StepKeepsInvariant

(* The second transaction reads the status the worker will compare with when it writes. *)
LEMMA PrepareStep ==
  ASSUME GenerationInv, NEW w \in Workers, Prepare(w)
  PROVE  GenerationInv' /\ LedgerStep
  <1>1. PICK r : r = worker[w].run
    OBVIOUS
  <1>2. /\ r \in Existing /\ RunsStay /\ WorkerData' /\ worker[w].phase = "claimed"
        /\ \E x \in RunRows : x.status = run[r].status /\ RunSet(r, x)
        /\ \E y \in WorkerStates : y.phase = "calling" /\ y.run = r
                                   /\ y.row = chapter[run[r].chapter] /\ WorkerSet(w, y)
        /\ generation' \in [Workers -> [1 .. 2 -> CallStatuses]]
    BY <1>1, PrepareEffect
  <1>3. UNCHANGED vars /\ launch' = launch /\ expired' = expired /\ late' = late
    BY DEF Prepare
  <1>4. TablesStep
    BY <1>3, SameTables DEF GenerationInv
  <1>5. NoneDone /\ ActiveStay /\ run' \in [Runs -> RunRows \cup {Nothing}]
    BY <1>2 DEF NoneDone, ActiveStay, RunSet, Existing
  <1>6. LaunchData' /\ launch' \in [Callers -> Launches]
    BY <1>2, <1>3, SameLaunches DEF RunsStay
  <1>7. CandidatesBelong' /\ OneRunPerKey' /\ NoFakeSuccess'
    BY <1>2, <1>4, <1>5, RunsKept DEF TablesStep
  <1>8. GeneratingIsReleased'
    <2> SUFFICES ASSUME NEW c \in Chapters, chapter'[c].status = "GENERATING"
                 PROVE  \E q \in Runs : Releases(q, c)'
      BY DEF GeneratingIsReleased
    <2>1. chapter[c].status = "GENERATING"
      BY <1>3 DEF vars, tables
    <2>2. PICK q \in Runs : Releases(q, c)
      BY <2>1 DEF GenerationInv, GeneratingIsReleased
    <2>3. Releases(q, c)'
      BY <1>2, <1>5, <2>1, <2>2 DEF Releases, RunsStay, ActiveStay, WorkerSet
    <2> QED
      BY <2>3
  <1>9. GenerationTypeOK'
    BY <1>2, <1>3, <1>4, <1>5, <1>6 DEF GenerationTypeOK, GenerationInv, TablesStep, Consistent,
       WorkerSet
  <1> QED
    BY <1>2, <1>4, <1>6, <1>7, <1>8, <1>9 DEF GenerationInv, TablesStep

(* Whoever ends the run that releases a chapter has read GENERATING, so its update is  *)
(* not lost among the columns it leaves alone.                                          *)
LEMMA EndOfRunReleases ==
  ASSUME GenerationInv, RunsStay, NEW w \in Workers, worker[w].phase \in {"calling", "repairing"},
         NEW r \in Existing, r = worker[w].run, NEW c \in Chapters, c = run[r].chapter,
         NEW s, s # "GENERATING",
         chapter'[c].status = Column(chapter[c].status, worker[w].row.status, s),
         \A d \in Chapters \ {c} : chapter'[d] = chapter[d],
         \A q \in Existing \ {r} : run'[q] = run[q], CallersStay
  PROVE  GeneratingIsReleased'
  <1> SUFFICES ASSUME NEW d \in Chapters, chapter'[d].status = "GENERATING"
               PROVE  \E q \in Runs : Releases(q, d)'
    BY DEF GeneratingIsReleased
  <1>1. chapter[d].status = "GENERATING"
    BY DEF Column
  <1>2. PICK q \in Runs : Releases(q, d)
    BY <1>1 DEF GenerationInv, GeneratingIsReleased
  <1>3. q # r
    <2> SUFFICES ASSUME q = r PROVE FALSE
      OBVIOUS
    <2>1. d = c /\ worker[w].row.status = "GENERATING"
      BY <1>2 DEF Releases
    <2> QED
      BY <2>1 DEF Column
  <1>4. Releases(q, d)'
    BY <1>2, <1>3 DEF Releases, RunsStay, CallersStay
  <1> QED
    BY <1>4

LEMMA FailStepInv ==
  ASSUME GenerationInv, NEW w \in Workers, FailStep(w)
  PROVE  GenerationInv' /\ LedgerStep
  <1>1. PICK r : r = worker[w].run
    OBVIOUS
  <1>2. PICK c, row : c = run[r].chapter /\ row = worker[w].row
    OBVIOUS
  <1>3. /\ worker[w].phase \in {"calling", "repairing"} /\ r \in Existing /\ RunsStay
        /\ c \in Chapters /\ RunFails(r)
        /\ WorkerOver(w) /\ WorkerData' /\ CallersStay
        /\ generation' \in [Workers -> [1 .. 2 -> CallStatuses]]
        /\ Consistent' /\ LedgerInv' /\ LedgerStep /\ AuthorsStay /\ NoCandidate
        /\ ChapterGoesBack(c, row)
        /\ UNCHANGED <<outbox, expired, late, launch>>
    BY <1>1, <1>2, FailEffect
  <1>4. /\ run' \in [Runs -> RunRows \cup {Nothing}] /\ run'[r].status = "FAILED"
        /\ \A q \in Existing \ {r} : run'[q] = run[q]
    BY <1>3 DEF RunFails, RunSet, Existing
  <1>5. NoneDone /\ outbox \subseteq outbox'
    BY <1>3, <1>4 DEF NoneDone
  <1>6. CandidatesBelong' /\ OneRunPerKey' /\ NoFakeSuccess'
    BY <1>3, <1>5, RunsKept
  <1>7. GeneratingIsReleased'
    <2>1. PICK s \in ChapterStatuses \ {"GENERATING"} :
              chapter'[c].status = Column(chapter[c].status, worker[w].row.status, s)
      BY <1>2, <1>3 DEF ChapterGoesBack
    <2>2. s # "GENERATING" /\ c = run[r].chapter
      BY <1>2, <2>1
    <2>3. \A d \in Chapters \ {c} : chapter'[d] = chapter[d]
      BY <1>3 DEF ChapterGoesBack
    <2>4. worker[w].phase \in {"calling", "repairing"} /\ CallersStay /\ RunsStay
              /\ r \in Existing /\ c \in Chapters
      BY <1>3
    <2>5. \A q \in Existing \ {r} : run'[q] = run[q]
      BY <1>4
    <2> QED
      BY <1>1, <2>1, <2>2, <2>3, <2>4, <2>5, EndOfRunReleases
  <1>8. LaunchData' /\ launch' \in [Callers -> Launches]
    BY <1>3, SameLaunches DEF RunsStay
  <1>9. GenerationTypeOK'
    BY <1>3, <1>4, <1>8 DEF GenerationTypeOK, GenerationInv, Consistent, WorkerOver, WorkerSet
  <1> QED
    BY <1>3, <1>6, <1>7, <1>8, <1>9 DEF GenerationInv

LEMMA StoreCandidateStep ==
  ASSUME GenerationInv, NEW w \in Workers, NEW t \in CleanTexts, StoreCandidate(w, t)
  PROVE  GenerationInv' /\ LedgerStep
  <1>1. PICK r : r = worker[w].run
    OBVIOUS
  <1>2. PICK c : c = run[r].chapter
    OBVIOUS
  <1>3. /\ worker[w].phase \in {"calling", "repairing"} /\ r \in Existing /\ RunsStay
        /\ c \in Chapters
        /\ \E x \in RunRows : x.status = "AWAITING_REVIEW" /\ RunSet(r, x)
        /\ WorkerOver(w) /\ WorkerData' /\ CallersStay
        /\ generation' \in [Workers -> [1 .. 2 -> CallStatuses]]
        /\ Consistent' /\ LedgerInv' /\ LedgerStep /\ AuthorsStay
        /\ \E n \in RevisionNumbers : NewCandidate(c, n, r)
        /\ chapter'[c].status = Column(chapter[c].status, worker[w].row.status, "REVIEW")
        /\ \A d \in Chapters \ {c} : chapter'[d] = chapter[d]
        /\ UNCHANGED <<outbox, expired, late, launch>>
    BY <1>1, <1>2, StoreEffect
  <1>4. /\ run' \in [Runs -> RunRows \cup {Nothing}] /\ run'[r].status = "AWAITING_REVIEW"
        /\ \A q \in Existing \ {r} : run'[q] = run[q]
        /\ Existing' = Existing /\ r \in Runs /\ run'[r].chapter = c
    BY <1>2, <1>3 DEF RunSet, RunsStay, Existing
  <1>5. PICK n \in RevisionNumbers : NewCandidate(c, n, r)
    BY <1>3
  <1>6. CandidatesBelong'
    BY <1>3, <1>4, <1>5 DEF CandidatesBelong, Candidate, NewCandidate, RunsStay, GenerationInv
  <1>7. OneRunPerKey'
    BY <1>3 DEF GenerationInv, OneRunPerKey, RunsStay
  <1>8. NoFakeSuccess'
    <2>1. ASSUME NEW q \in Existing, q # r, run'[q].status \in {"AWAITING_REVIEW", "COMPLETED"}
          PROVE  \E m \in RevisionNumbers : revision'[run'[q].chapter][m] # Nothing
                                            /\ revision'[run'[q].chapter][m].run = q
      <3>1. PICK m \in RevisionNumbers : Candidate(run[q].chapter, m, q)
        BY <1>4, <2>1 DEF GenerationInv, NoFakeSuccess
      <3> QED
        BY <1>3, <1>4, <2>1, <3>1, RunRow DEF AuthorsStay, Candidate
    <2>2. ASSUME NEW q \in Existing, run'[q].status = "COMPLETED"
          PROVE  \E e \in outbox' : revision'[e.chapter][e.revision] # Nothing
                                    /\ revision'[e.chapter][e.revision].run = q
      <3>1. q # r /\ run[q].status = "COMPLETED"
        BY <1>4, <2>2
      <3>2. PICK e \in outbox : Candidate(e.chapter, e.revision, q)
        BY <3>1 DEF GenerationInv, NoFakeSuccess
      <3>3. e.chapter \in Chapters /\ e.revision \in RevisionNumbers /\ e \in outbox'
        BY <1>3 DEF GenerationInv, Consistent, TypeOK, OutboxRows
      <3> QED
        BY <1>3, <3>2, <3>3 DEF AuthorsStay, Candidate
    <2>3. \E m \in RevisionNumbers : revision'[run'[r].chapter][m] # Nothing
                                     /\ revision'[run'[r].chapter][m].run = r
      BY <1>4, <1>5 DEF NewCandidate
    <2> QED
      BY <1>4, <2>1, <2>2, <2>3 DEF NoFakeSuccess, Candidate
  <1>9. GeneratingIsReleased'
    BY <1>1, <1>2, <1>3, <1>4, EndOfRunReleases
  <1>10. LaunchData' /\ launch' \in [Callers -> Launches]
    BY <1>3, SameLaunches DEF RunsStay
  <1>11. GenerationTypeOK'
    BY <1>3, <1>4, <1>10 DEF GenerationTypeOK, GenerationInv, Consistent, WorkerOver, WorkerSet
  <1> QED
    BY <1>3, <1>6, <1>7, <1>8, <1>9, <1>10, <1>11 DEF GenerationInv

(* A new run has no worker yet, so it releases its chapter whatever was written there. *)
LEMMA CommitGenerateStep ==
  ASSUME GenerationInv, NEW a \in Callers, NEW r \in Runs, CommitGenerate(a, r)
  PROVE  GenerationInv' /\ LedgerStep
  <1>1. PICK c, k : c = launch[a].chapter /\ k = launch[a].key
    OBVIOUS
  <1>2. /\ r \notin Existing /\ c \in Chapters /\ KeyFree(k)
        /\ RunPlanned(r, c, k) /\ Existing' = Existing \cup {r}
        /\ LaunchData' /\ launch' \in [Callers -> Launches]
        /\ Consistent' /\ LedgerInv' /\ LedgerStep /\ AuthorsStay /\ NoCandidate
        /\ \A d \in Chapters \ {c} : chapter'[d] = chapter[d]
        /\ UNCHANGED <<outbox, generation, worker, expired, late>>
    BY <1>1, CommitEffect
  <1>3. /\ run' \in [Runs -> RunRows \cup {Nothing}]
        /\ run'[r].status = "PLANNED" /\ run'[r].chapter = c /\ run'[r].key = k
        /\ \A q \in Existing : run'[q] = run[q] /\ q # r
    BY <1>2 DEF RunPlanned, RunSet, Existing
  <1>4. CandidatesBelong'
    BY <1>2, <1>3 DEF GenerationInv, CandidatesBelong, NoCandidate
  <1>5. OneRunPerKey'
    BY <1>2, <1>3 DEF GenerationInv, OneRunPerKey, KeyFree
  <1>6. NoFakeSuccess'
    <2>1. ASSUME NEW q \in Existing, run'[q].status \in {"AWAITING_REVIEW", "COMPLETED"}
          PROVE  \E m \in RevisionNumbers : revision'[run'[q].chapter][m] # Nothing
                                            /\ revision'[run'[q].chapter][m].run = q
      <3>1. PICK m \in RevisionNumbers : Candidate(run[q].chapter, m, q)
        BY <1>3, <2>1 DEF GenerationInv, NoFakeSuccess
      <3> QED
        BY <1>2, <1>3, <3>1, RunRow DEF AuthorsStay, Candidate
    <2>2. ASSUME NEW q \in Existing, run'[q].status = "COMPLETED"
          PROVE  \E e \in outbox' : revision'[e.chapter][e.revision] # Nothing
                                    /\ revision'[e.chapter][e.revision].run = q
      <3>1. PICK e \in outbox : Candidate(e.chapter, e.revision, q)
        BY <1>3, <2>2 DEF GenerationInv, NoFakeSuccess
      <3>2. e.chapter \in Chapters /\ e.revision \in RevisionNumbers /\ e \in outbox'
        BY <1>2 DEF GenerationInv, Consistent, TypeOK, OutboxRows
      <3> QED
        BY <1>2, <3>1, <3>2 DEF AuthorsStay, Candidate
    <2> QED
      BY <1>2, <1>3, <2>1, <2>2 DEF NoFakeSuccess, Candidate
  <1>7. GeneratingIsReleased'
    <2> SUFFICES ASSUME NEW d \in Chapters, chapter'[d].status = "GENERATING"
                 PROVE  \E q \in Runs : Releases(q, d)'
      BY DEF GeneratingIsReleased
    <2>1. CASE d = c
      <3>1. \A w \in Workers : worker'[w].phase \in {"calling", "repairing"} => worker'[w].run # r
        BY <1>2 DEF GenerationInv, WorkerData
      <3>2. Releases(r, d)'
        BY <1>2, <1>3, <2>1, <3>1 DEF Releases
      <3> QED
        BY <3>2
    <2>2. CASE d # c
      <3>1. chapter[d].status = "GENERATING"
        BY <1>2, <2>2
      <3>2. PICK q \in Runs : Releases(q, d)
        BY <3>1 DEF GenerationInv, GeneratingIsReleased
      <3>3. Releases(q, d)'
        BY <1>2, <1>3, <3>2 DEF Releases
      <3> QED
        BY <3>3
    <2> QED
      BY <2>1, <2>2
  <1>8. WorkerData' /\ worker' \in [Workers -> WorkerStates]
    BY <1>2, <1>3, SameWorkers
  <1>9. GenerationTypeOK'
    BY <1>2, <1>3, <1>8 DEF GenerationTypeOK, GenerationInv, Consistent
  <1> QED
    BY <1>2, <1>4, <1>5, <1>6, <1>7, <1>8, <1>9 DEF GenerationInv

LEMMA CompleteStep ==
  ASSUME GenerationInv, NEW p \in Pages, FinishPublishOfRun(p)
  PROVE  GenerationInv' /\ LedgerStep
  <1>1. PICK c, n : c = page[p].chapter /\ n = page[p].rev
    OBVIOUS
  <1>2. PICK r : r = revision[c][n].run
    OBVIOUS
  <1>3. /\ TablesStep /\ RunsStay /\ c \in Chapters /\ n \in RevisionNumbers
        /\ chapter'[c].status = "COMMITTED"
        /\ \A d \in Chapters \ {c} : chapter'[d] = chapter[d]
        /\ r = Nothing => run' = run
        /\ r # Nothing => /\ Candidate(c, n, r) /\ r \in Existing /\ run[r].chapter = c
                          /\ RunCompletes(r)
        /\ \E e \in outbox' : e.chapter = c /\ e.revision = n
        /\ UNCHANGED <<generation, worker, expired, late, launch>>
    BY <1>1, <1>2, CompleteEffect
  <1>4. /\ run' \in [Runs -> RunRows \cup {Nothing}]
        /\ \A q \in Existing \ {r} : run'[q] = run[q]
    BY <1>3, SameRuns DEF RunCompletes, RunSet, Existing
  <1>5. Consistent' /\ LedgerInv' /\ LedgerStep /\ AuthorsStay /\ NoCandidate
            /\ outbox \subseteq outbox'
    BY <1>3 DEF TablesStep
  <1>6. CandidatesBelong'
    BY <1>3, <1>5 DEF GenerationInv, CandidatesBelong, NoCandidate, RunsStay
  <1>7. OneRunPerKey'
    BY <1>3 DEF GenerationInv, OneRunPerKey, RunsStay
  <1>8. NoFakeSuccess'
    <2>1. ASSUME NEW q \in Existing, run'[q].status \in {"AWAITING_REVIEW", "COMPLETED"}
          PROVE  \E m \in RevisionNumbers : revision'[run'[q].chapter][m] # Nothing
                                            /\ revision'[run'[q].chapter][m].run = q
      <3>1. \E m \in RevisionNumbers : Candidate(run[q].chapter, m, q)
        BY <1>3, <1>4, <2>1 DEF GenerationInv, NoFakeSuccess
      <3> QED
        BY <1>3, <1>5, <3>1, RunRow DEF AuthorsStay, Candidate, RunsStay
    <2>2. ASSUME NEW q \in Existing, run'[q].status = "COMPLETED"
          PROVE  \E e \in outbox' : revision'[e.chapter][e.revision] # Nothing
                                    /\ revision'[e.chapter][e.revision].run = q
      <3>1. CASE q = r
        <4>1. r # Nothing
          BY <3>1, ManuscriptAssumption DEF Existing
        <4>2. revision'[c][n] # Nothing /\ revision'[c][n].run = q
          BY <1>3, <1>5, <3>1, <4>1 DEF AuthorsStay, Candidate
        <4> QED
          BY <1>3, <4>2
      <3>2. CASE q # r
        <4>1. PICK e \in outbox : Candidate(e.chapter, e.revision, q)
          BY <1>4, <2>2, <3>2 DEF GenerationInv, NoFakeSuccess
        <4>2. e.chapter \in Chapters /\ e.revision \in RevisionNumbers /\ e \in outbox'
          BY <1>5 DEF GenerationInv, Consistent, TypeOK, OutboxRows
        <4> QED
          BY <1>5, <4>1, <4>2 DEF AuthorsStay, Candidate
      <3> QED
        BY <3>1, <3>2
    <2> QED
      BY <1>3, <2>1, <2>2 DEF NoFakeSuccess, Candidate, RunsStay
  <1>9. GeneratingIsReleased'
    <2> SUFFICES ASSUME NEW d \in Chapters, chapter'[d].status = "GENERATING"
                 PROVE  \E q \in Runs : Releases(q, d)'
      BY DEF GeneratingIsReleased
    <2>1. d # c /\ chapter[d].status = "GENERATING"
      BY <1>3
    <2>2. PICK q \in Runs : Releases(q, d)
      BY <2>1 DEF GenerationInv, GeneratingIsReleased
    <2>3. q \in Existing /\ q # r
      BY <1>3, <2>1, <2>2, ManuscriptAssumption DEF Releases
    <2>4. Releases(q, d)'
      BY <1>3, <1>4, <2>2, <2>3 DEF Releases, RunsStay
    <2> QED
      BY <2>4
  <1>10. WorkerData' /\ worker' \in [Workers -> WorkerStates]
    BY <1>3, <1>5, SameWorkers DEF RunsStay
  <1>11. LaunchData' /\ launch' \in [Callers -> Launches]
    BY <1>3, SameLaunches DEF RunsStay
  <1>12. GenerationTypeOK'
    BY <1>3, <1>4, <1>5, <1>10, <1>11 DEF GenerationTypeOK, GenerationInv, Consistent
  <1> QED
    BY <1>5, <1>6, <1>7, <1>8, <1>9, <1>10, <1>11, <1>12 DEF GenerationInv

LEMMA GenerationStepInv == GenerationInv /\ [GenerationNext]_allVars => GenerationInv' /\ LedgerStep
  <1> SUFFICES ASSUME GenerationInv, [GenerationNext]_allVars
               PROVE  GenerationInv' /\ LedgerStep
    OBVIOUS
  <1>1. CASE UNCHANGED allVars
    <2>1. /\ UNCHANGED vars /\ run' = run /\ generation' = generation /\ worker' = worker
          /\ launch' = launch /\ expired' = expired /\ late' = late
      BY <1>1 DEF allVars, generationVars
    <2>2. TablesStep
      BY <2>1, SameTables DEF GenerationInv
    <2>3. RunsStay /\ NoneDone /\ ActiveStay /\ run' \in [Runs -> RunRows \cup {Nothing}]
      BY <2>1, SameRuns
    <2>4. /\ Existing' = Existing /\ AuthorsStay
          /\ \A r \in Existing : run'[r].chapter = run[r].chapter
      BY <2>2, <2>3 DEF TablesStep, RunsStay
    <2>5. WorkerData' /\ CallersStay /\ worker' \in [Workers -> WorkerStates]
      BY <2>1, <2>4, SameWorkers
    <2>6. LaunchData' /\ launch' \in [Callers -> Launches]
      BY <2>1, <2>4, SameLaunches
    <2>7. generation' \in [Workers -> [1 .. 2 -> CallStatuses]] /\ expired' \subseteq Workers
              /\ late' \in [Workers -> Runs \cup {Nothing}]
      BY <2>1 DEF GenerationInv, GenerationTypeOK
    <2> QED
      BY <2>2, <2>3, <2>5, <2>6, <2>7, StepKeepsInvariant
  <1>2. ASSUME NEW p \in Pages,
               (PageStep(p) /\ UNCHANGED generationVars) \/ FinishPublishOfRun(p)
        PROVE  GenerationInv' /\ LedgerStep
    BY <1>2, PageStepInv, CompleteStep
  <1>3. ASSUME NEW a \in Callers, LaunchStep(a)
        PROVE  GenerationInv' /\ LedgerStep
    <2>1. CASE \E c \in Chapters, k \in Keys : BeginGenerate(a, c, k)
      <3>1. PICK c \in Chapters, k \in Keys : BeginGenerate(a, c, k)
        BY <2>1
      <3>2. PICK l : l = [NoLaunch EXCEPT !.step = "read", !.chapter = c, !.key = k,
                                          !.row = chapter[c]]
        OBVIOUS
      <3>3. chapter[c] \in ChapterRows
        BY DEF GenerationInv, Consistent, TypeOK
      <3>4. /\ l \in Launches /\ l.step = "read" /\ l.chapter = c /\ l.key = k
            /\ l.row = chapter[c]
        BY <3>2, <3>3 DEF NoLaunch, Launches
      <3>5. launch' = [launch EXCEPT ![a] = l]
                /\ UNCHANGED <<vars, run, generation, worker, expired, late>>
        BY <3>1, <3>2 DEF BeginGenerate
      <3> QED
        BY <3>3, <3>4, <3>5, LaunchOnly
    <2>2. CASE CheckGenerate(a)
      <3>1. PICK l : l = IF ~KeyKnown(launch[a].key) /\ ~Active(launch[a].chapter)
                         THEN [launch[a] EXCEPT !.step = "checked"] ELSE NoLaunch
        OBVIOUS
      <3>2. launch' = [launch EXCEPT ![a] = l]
                /\ UNCHANGED <<vars, run, generation, worker, expired, late>>
        BY <2>2, <3>1 DEF CheckGenerate
      <3>3. /\ launch[a] \in Launches /\ launch[a].chapter \in Chapters
            /\ launch[a].key \in Keys /\ launch[a].row \in ChapterRows
        BY <2>2 DEF CheckGenerate, GenerationInv, GenerationTypeOK, LaunchData
      <3>4. /\ l \in Launches /\ l.step \in {"checked", "idle"}
            /\ l.step = "checked" =>
                   l.chapter \in Chapters /\ l.key \in Keys /\ l.row \in ChapterRows
        BY <3>1, <3>3 DEF NoLaunch, Launches
      <3> QED
        BY <3>2, <3>4, LaunchOnly
    <2>3. CASE \E r \in Runs : CommitGenerate(a, r) \/ Resume(a, r)
      BY <2>3, CommitGenerateStep, ResumeStep
    <2>4. CASE RejectGenerate(a) \/ LoseLaunch(a)
      <3>1. NoLaunch \in Launches /\ NoLaunch.step = "idle"
        BY DEF NoLaunch, Launches
      <3>2. launch' = [launch EXCEPT ![a] = NoLaunch]
                /\ UNCHANGED <<vars, run, generation, worker, expired, late>>
        BY <2>4 DEF RejectGenerate, LoseLaunch
      <3> QED
        BY <3>1, <3>2, LaunchOnly
    <2>5. CASE \E w \in Workers : Launch(a, w)
      BY <2>5, LaunchStepInv
    <2> QED
      BY <1>3, <2>1, <2>2, <2>3, <2>4, <2>5 DEF LaunchStep
  <1>4. ASSUME NEW w \in Workers, Work(w)
        PROVE  GenerationInv' /\ LedgerStep
    <2>1. CASE Claim(w) \/ Prepare(w) \/ AskRepair(w)
      BY <2>1, ClaimStep, PrepareStep, AskRepairStep
    <2>2. CASE CallFails(w) \/ RejectOutput(w) \/ RepairFails(w)
      BY <2>2, FailStepInv DEF FailStep
    <2>3. CASE \E t \in CleanTexts : StoreCandidate(w, t)
      BY <2>3, StoreCandidateStep
    <2>4. CASE DieOnConflict(w)
      BY <2>4, EndOnly DEF DieOnConflict
    <2> QED
      BY <1>4, <2>1, <2>2, <2>3, <2>4 DEF Work
  <1>5. ASSUME NEW w \in Workers, Crash(w) \/ ExpireLease(w)
        PROVE  GenerationInv' /\ LedgerStep
    BY <1>5, EndOnly, ExpireStep DEF Crash
  <1> QED
    BY <1>1, <1>2, <1>3, <1>4, <1>5 DEF GenerationNext

(* The invariant of the generation service, however late its workers are. *)
THEOREM GenerationInvariant == GenerationSpec => []GenerationInv
  <1> QED
    BY GenerationInitInv, GenerationStepInv, PTL DEF GenerationSpec

(* Rows of runs, calls, processes and requests keep their types; a worker that writes  *)
(* from an old row (generation.py:318-351, 747-779) writes no number, status or         *)
(* reference out of its range.                                                          *)
THEOREM GenerationTypeCorrect == GenerationSpec => []GenerationTypeOK
  <1>1. GenerationInv => GenerationTypeOK
    BY DEF GenerationInv
  <1> QED
    BY <1>1, GenerationInvariant, PTL

(* However its requests interleave between the query for the key and the insert         *)
(* (generation.py:94-137), one idempotency key has one run.                            *)
THEOREM KeysAreIdempotent == GenerationSpec => []OneRunPerKey
  <1>1. GenerationInv => OneRunPerKey
    BY DEF GenerationInv
  <1> QED
    BY <1>1, GenerationInvariant, PTL

(* A run is shown as done only with its candidate stored, and as completed only with it *)
(* published, although runs crash, overlap and are resumed.                             *)
THEOREM SuccessIsNeverFake == GenerationSpec => []NoFakeSuccess
  <1>1. GenerationInv => NoFakeSuccess
    BY DEF GenerationInv
  <1> QED
    BY <1>1, GenerationInvariant, PTL

(* A chapter never stays in GENERATING without a run that is planned or running, even when *)
(* a worker that lost its lease fails or stores beside another one.                        *)
THEOREM GeneratingIsBackedByARun == GenerationSpec => []GeneratingHasRun
  <1>1. GenerationInv => GeneratingHasRun
    BY DEF GenerationInv, GeneratingIsReleased, Releases, GeneratingHasRun, Active
  <1> QED
    BY <1>1, GenerationInvariant, PTL

(* The generation service implements the ledger of Manuscript too: a worker that stores *)
(* from an old row adds a text to its chapter's history or dies of the unique index, and *)
(* never overwrites or reorders what was accepted or published.                         *)
THEOREM GenerationImplementsLedger == GenerationSpec => LedgerSpec
  <1>1. GenerationInit => Ledger!Init
    BY LedgerInit DEF GenerationInit
  <1>2. GenerationInv /\ [GenerationNext]_allVars => [Ledger!Next]_(Ledger!vars)
    BY GenerationStepInv DEF LedgerStep
  <1> QED
    BY <1>1, <1>2, GenerationInvariant, PTL DEF GenerationSpec, LedgerSpec, Ledger!Spec

-------------------------------------------------------------------------------
(* The second layer: workers, candidates and leases of a run are counted *)

(* Nobody may claim the run: it is done, or its owner is at work within the lease. *)
Held(r) ==
    /\ r \in Existing
    /\ \/ run[r].status \in {"AWAITING_REVIEW", "COMPLETED"}
       \/ /\ run[r].status = "RUNNING"
          /\ \E w \in Workers : run[r].owner = w /\ Live(w) /\ w \notin expired

Open(r) == IF Held(r) THEN 0 ELSE 1

(* Live workers, candidates and an open claim together exceed one by the late at most. *)
Within(live, candidates, lates, open) ==
    /\ IsFiniteSet(live) /\ IsFiniteSet(candidates) /\ IsFiniteSet(lates)
    /\ Cardinality(live) + Cardinality(candidates) + open <= 1 + Cardinality(lates)

Counted(r) == Within(LiveOf(r), CandidatesOf(r), LateOf(r), Open(r))

(* A worker that has not begun owns nothing; a live one owns no run but its own, and    *)
(* counts as late on that run once its lease is over.                                   *)
ClaimData ==
    /\ \A w \in Workers : worker[w].phase \in {"none", "spawned"} =>
           /\ w \notin expired
           /\ \A r \in Existing : run[r].owner # w
    /\ \A w \in Workers : late[w] # Nothing => w \in expired
    /\ \A w \in Workers : (Live(w) /\ w \in expired) => late[w] = worker[w].run
    /\ \A w \in Workers, r \in Existing : (Live(w) /\ run[r].owner = w) => worker[w].run = r

ClaimInv == ClaimData /\ \A r \in Runs : Counted(r)

(* What a live worker has done so far is in its run's steps. *)
WorkSteps(phase, steps) ==
    /\ phase \in {"calling", "repairing"} =>
           steps["load_chapter_task"] = "SUCCEEDED" /\ steps["compile_context"] = "SUCCEEDED"
    /\ phase = "repairing" => steps["write_chapter"] = "SUCCEEDED"

RunFits(r) == /\ StepsFit(run[r])
              /\ \A w \in LiveOf(r) : WorkSteps(worker[w].phase, run[r].steps)

(* The third layer. *)
StepsInv == \A r \in Existing : LateOf(r) = {} => RunFits(r)

RunStep == \A r \in Existing : LateOf(r) = {} => Moves(r, run'[r].status)

ClaimStepInv == ClaimInv' /\ StepsInv' /\ RunStep

-------------------------------------------------------------------------------
(* Counting *)

LEMMA TableMoves ==
  /\ MayBecome("PLANNED", "RUNNING") /\ MayBecome("FAILED", "RUNNING")
  /\ MayBecome("RUNNING", "AWAITING_REVIEW") /\ MayBecome("RUNNING", "FAILED")
  /\ MayBecome("AWAITING_REVIEW", "COMPLETED")
  BY DEF MayBecome, WorkflowTransitions, WorkflowStatuses

LEMMA WithinSubset ==
  ASSUME NEW L, NEW C, NEW T, NEW h \in {0, 1}, Within(L, C, T, h),
         NEW M \in SUBSET L, NEW D \in SUBSET C, NEW k \in {0, 1}, k <= h
  PROVE  Within(M, D, T, k)
  <1>1. IsFiniteSet(L) /\ IsFiniteSet(C) /\ IsFiniteSet(T)
    BY DEF Within
  <1>2. /\ IsFiniteSet(M) /\ Cardinality(M) <= Cardinality(L)
        /\ IsFiniteSet(D) /\ Cardinality(D) <= Cardinality(C)
    BY <1>1, FS_Subset
  <1>3. /\ Cardinality(L) \in Nat /\ Cardinality(C) \in Nat /\ Cardinality(T) \in Nat
        /\ Cardinality(M) \in Nat /\ Cardinality(D) \in Nat
    BY <1>1, <1>2, FS_CardinalityType
  <1> QED
    BY <1>1, <1>2, <1>3 DEF Within

(* A worker that leaves may open the claim, or leave a candidate and close it. *)
LEMMA WithinLeave ==
  ASSUME NEW L, NEW C, NEW T, NEW h \in {0, 1}, Within(L, C, T, h), NEW w \in L, NEW x
  PROVE  Within(L \ {w}, C, T, 1) /\ Within(L \ {w}, C \cup {x}, T, 0)
  <1>1. IsFiniteSet(L) /\ IsFiniteSet(C) /\ IsFiniteSet(T)
    BY DEF Within
  <1>2. IsFiniteSet(L \ {w}) /\ Cardinality(L \ {w}) = Cardinality(L) - 1
    BY <1>1, FS_RemoveElement
  <1>3. /\ IsFiniteSet(C \cup {x})
        /\ \/ Cardinality(C \cup {x}) = Cardinality(C)
           \/ Cardinality(C \cup {x}) = Cardinality(C) + 1
    BY <1>1, FS_AddElement
  <1>4. Cardinality(L) \in Nat /\ Cardinality(C) \in Nat /\ Cardinality(T) \in Nat
    BY <1>1, FS_CardinalityType
  <1>5. Cardinality(L) + Cardinality(C) + h <= 1 + Cardinality(T)
    BY DEF Within
  <1> QED
    BY <1>1, <1>2, <1>3, <1>4, <1>5 DEF Within

(* A claim takes the place that was open. *)
LEMMA WithinClaim ==
  ASSUME NEW L, NEW C, NEW T, Within(L, C, T, 1), NEW w
  PROVE  Within(L \cup {w}, C, T, 0)
  <1>1. IsFiniteSet(L) /\ IsFiniteSet(C) /\ IsFiniteSet(T)
    BY DEF Within
  <1>2. /\ IsFiniteSet(L \cup {w})
        /\ \/ Cardinality(L \cup {w}) = Cardinality(L)
           \/ Cardinality(L \cup {w}) = Cardinality(L) + 1
    BY <1>1, FS_AddElement
  <1>3. Cardinality(L) \in Nat /\ Cardinality(C) \in Nat /\ Cardinality(T) \in Nat
    BY <1>1, FS_CardinalityType
  <1>4. Cardinality(L) + Cardinality(C) + 1 <= 1 + Cardinality(T)
    BY DEF Within
  <1> QED
    BY <1>1, <1>2, <1>3, <1>4 DEF Within

(* A lease that ends under a worker opens the claim and is counted. *)
LEMMA WithinLate ==
  ASSUME NEW L, NEW C, NEW T, NEW h \in {0, 1}, Within(L, C, T, h), NEW w, w \notin T
  PROVE  Within(L, C, T \cup {w}, 1)
  <1>1. IsFiniteSet(L) /\ IsFiniteSet(C) /\ IsFiniteSet(T)
    BY DEF Within
  <1>2. IsFiniteSet(T \cup {w}) /\ Cardinality(T \cup {w}) = Cardinality(T) + 1
    BY <1>1, FS_AddElement
  <1>3. Cardinality(L) \in Nat /\ Cardinality(C) \in Nat /\ Cardinality(T) \in Nat
    BY <1>1, FS_CardinalityType
  <1>4. Cardinality(L) + Cardinality(C) + h <= 1 + Cardinality(T)
    BY DEF Within
  <1> QED
    BY <1>1, <1>2, <1>3, <1>4 DEF Within

LEMMA CountKept ==
  ASSUME NEW r \in Runs, Counted(r), LiveOf(r)' \subseteq LiveOf(r),
         CandidatesOf(r)' \subseteq CandidatesOf(r), LateOf(r)' = LateOf(r),
         Held(r) => Held(r)'
  PROVE  Counted(r)'
  <1>1. /\ Open(r) \in {0, 1} /\ Open(r)' \in {0, 1} /\ Open(r)' <= Open(r)
        /\ Within(LiveOf(r), CandidatesOf(r), LateOf(r), Open(r))
    BY DEF Open, Counted
  <1>2. Within(LiveOf(r)', CandidatesOf(r)', LateOf(r), Open(r)')
    BY <1>1, WithinSubset
  <1> QED
    BY <1>2 DEF Counted

(* A run with a live worker and a run with a candidate, while no worker of it is late. *)
LEMMA OnTime ==
  ASSUME GenerationInv, ClaimInv, NEW r \in Existing, LateOf(r) = {}
  PROVE  /\ \A w \in LiveOf(r) :
                /\ run[r].status = "RUNNING" /\ run[r].owner = w
                /\ LiveOf(r) = {w} /\ CandidatesOf(r) = {}
         /\ CandidatesOf(r) # {} =>
                LiveOf(r) = {} /\ run[r].status \in {"AWAITING_REVIEW", "COMPLETED"}
         /\ ~Held(r) => LiveOf(r) = {} /\ CandidatesOf(r) = {}
  <1>1. r \in Runs /\ run[r].chapter \in Chapters
    BY RunRow DEF Existing
  <1>2. /\ IsFiniteSet(LiveOf(r)) /\ IsFiniteSet(CandidatesOf(r))
        /\ Cardinality(LiveOf(r)) + Cardinality(CandidatesOf(r)) + Open(r) <= 1
    BY <1>1, FS_EmptySet DEF ClaimInv, Counted, Within
  <1>3. /\ Cardinality(LiveOf(r)) \in Nat /\ Cardinality(CandidatesOf(r)) \in Nat
        /\ Cardinality(LiveOf(r)) = 0 <=> LiveOf(r) = {}
        /\ Cardinality(CandidatesOf(r)) = 0 <=> CandidatesOf(r) = {}
    BY <1>2, FS_CardinalityType, FS_EmptySet
  <1>4. LiveOf(r) = {} \/ CandidatesOf(r) = {}
    BY <1>2, <1>3 DEF Open
  <1>5. ~Held(r) => LiveOf(r) = {} /\ CandidatesOf(r) = {}
    BY <1>2, <1>3 DEF Open
  <1>6. run[r].status \in {"AWAITING_REVIEW", "COMPLETED"} => CandidatesOf(r) # {}
    <2> SUFFICES ASSUME run[r].status \in {"AWAITING_REVIEW", "COMPLETED"}
                 PROVE  CandidatesOf(r) # {}
      OBVIOUS
    <2>1. PICK n \in RevisionNumbers : Candidate(run[r].chapter, n, r)
      BY DEF GenerationInv, NoFakeSuccess
    <2>2. <<run[r].chapter, n>> \in CandidatesOf(r)
      BY <1>1, <2>1 DEF CandidatesOf
    <2> QED
      BY <2>2
  <1>7. ASSUME NEW w \in LiveOf(r)
        PROVE  /\ run[r].status = "RUNNING" /\ run[r].owner = w /\ LiveOf(r) = {w}
               /\ CandidatesOf(r) = {}
    <2>1. CandidatesOf(r) = {} /\ Held(r) /\ run[r].status \notin {"AWAITING_REVIEW", "COMPLETED"}
      BY <1>4, <1>5, <1>6, <1>7
    <2>2. PICK v \in Workers : run[r].owner = v /\ Live(v) /\ run[r].status = "RUNNING"
      BY <2>1 DEF Held
    <2>3. v \in LiveOf(r)
      BY <2>2 DEF ClaimInv, ClaimData, LiveOf
    <2>4. Cardinality(LiveOf(r)) = 1
      BY <1>2, <1>3, <1>7 DEF Open
    <2>5. PICK x : LiveOf(r) = {x}
      BY <1>2, <2>4, FS_Singleton
    <2> QED
      BY <1>7, <2>1, <2>2, <2>3, <2>5
  <1>8. CandidatesOf(r) # {} =>
            LiveOf(r) = {} /\ run[r].status \in {"AWAITING_REVIEW", "COMPLETED"}
    <2> SUFFICES ASSUME CandidatesOf(r) # {},
                        run[r].status \notin {"AWAITING_REVIEW", "COMPLETED"}
                 PROVE  FALSE
      BY <1>4
    <2>1. PICK v \in Workers : run[r].owner = v /\ Live(v)
      BY <1>5 DEF Held
    <2>2. v \in LiveOf(r)
      BY <2>1 DEF ClaimInv, ClaimData, LiveOf
    <2> QED
      BY <1>4, <2>2
  <1> QED
    BY <1>5, <1>7, <1>8

(* Only the clock makes a worker late. *)
LEMMA SameLates ==
  ASSUME late' = late
  PROVE  \A r \in Runs : LateOf(r)' = LateOf(r)
  BY DEF LateOf

LEMMA SameCandidates ==
  ASSUME NoCandidate
  PROVE  \A r \in Runs : CandidatesOf(r)' \subseteq CandidatesOf(r)
  <1> SUFFICES ASSUME NEW r \in Runs, NEW x \in CandidatesOf(r)'
               PROVE  x \in CandidatesOf(r)
    OBVIOUS
  <1>1. x[1] \in Chapters /\ x[2] \in RevisionNumbers /\ x \in Chapters \X RevisionNumbers
            /\ Candidate(x[1], x[2], r)'
    BY DEF CandidatesOf
  <1>2. Candidate(x[1], x[2], r)
    BY <1>1 DEF NoCandidate
  <1> QED
    BY <1>1, <1>2 DEF CandidatesOf

(* A run whose row and workers stay. *)
LEMMA FitsKept ==
  ASSUME StepsInv, NEW r \in Existing, run'[r] = run[r], LateOf(r) = {},
         \A w \in LiveOf(r)' : w \in LiveOf(r) /\ worker'[w] = worker[w]
  PROVE  RunFits(r)' /\ Moves(r, run'[r].status)
  <1>1. RunFits(r)
    BY DEF StepsInv
  <1>2. StepsFit(run'[r])
    BY <1>1 DEF RunFits
  <1>3. \A w \in LiveOf(r)' : WorkSteps(worker'[w].phase, run'[r].steps)
    BY <1>1 DEF RunFits
  <1> QED
    BY <1>2, <1>3 DEF RunFits, Moves

-------------------------------------------------------------------------------
(* The steps that disturb no worker at work *)

LEMMA CalmStep ==
  ASSUME GenerationInv, ClaimInv, StepsInv, NoCandidate, Existing \subseteq Existing',
         expired' = expired, late' = late, worker' \in [Workers -> WorkerStates],
         \A w \in Workers : \/ worker'[w] = worker[w]
                            \/ worker[w].phase = "none" /\ worker'[w].phase = "spawned",
         \A q \in Existing :
             \/ run'[q] = run[q]
             \/ /\ Held(q) => Held(q)'
                /\ \A w \in Workers : run'[q].owner = w => run[q].owner = w
                /\ LateOf(q) = {} => RunFits(q)' /\ Moves(q, run'[q].status),
         \A q \in Existing' \ Existing :
             run'[q].status = "PLANNED" /\ run'[q].owner = Nothing
  PROVE  ClaimStepInv
  <1>1. \A w \in Workers : Live(w)' => Live(w) /\ worker'[w] = worker[w]
    BY DEF Live
  <1>2. \A w \in Workers : Live(w) => Live(w)' /\ worker'[w] = worker[w]
    BY DEF Live
  <1>3. \A r \in Runs : \A w \in LiveOf(r)' : w \in LiveOf(r) /\ worker'[w] = worker[w]
    BY <1>1 DEF LiveOf
  <1>4. ClaimData'
    <2>1. ASSUME NEW w \in Workers, NEW r \in Existing', run'[r].owner = w
          PROVE  r \in Existing /\ run[r].owner = w
      BY <2>1, GenerationAssumption
    <2>2. \A w \in Workers : worker'[w].phase \in {"none", "spawned"} =>
              worker[w].phase \in {"none", "spawned"}
      OBVIOUS
    <2>3. /\ \A w \in Workers : worker'[w].phase \in {"none", "spawned"} =>
                 w \notin expired' /\ \A r \in Existing' : run'[r].owner # w
          /\ \A w \in Workers : late'[w] # Nothing => w \in expired'
      BY <2>1, <2>2 DEF ClaimInv, ClaimData
    <2>4. /\ \A w \in Workers : (Live(w)' /\ w \in expired') => late'[w] = worker'[w].run
          /\ \A w \in Workers, r \in Existing' :
                 (Live(w)' /\ run'[r].owner = w) => worker'[w].run = r
      BY <1>1, <2>1 DEF ClaimInv, ClaimData
    <2> QED
      BY <2>3, <2>4 DEF ClaimData
  <1>5. ASSUME NEW r \in Runs
        PROVE  Counted(r)'
    <2>0. Counted(r) /\ LiveOf(r)' \subseteq LiveOf(r) /\ LateOf(r)' = LateOf(r)
              /\ CandidatesOf(r)' \subseteq CandidatesOf(r)
      BY <1>3, <1>5, SameLates, SameCandidates DEF ClaimInv
    <2>1. Held(r) => Held(r)'
      <3> SUFFICES ASSUME Held(r), run'[r] = run[r], r \in Existing'
                   PROVE  Held(r)'
        BY DEF Held
      <3> QED
        BY <1>2 DEF Held
    <2> QED
      BY <1>5, <2>0, <2>1, CountKept
  <1>6. \A r \in Existing : LateOf(r) = {} => RunFits(r)' /\ Moves(r, run'[r].status)
    BY <1>3, FitsKept DEF Existing
  <1>7. ASSUME NEW r \in Existing' \ Existing
        PROVE  RunFits(r)'
    <2>1. LiveOf(r)' = {}
      BY <1>1, <1>7 DEF LiveOf, GenerationInv, WorkerData, Live
    <2> QED
      BY <1>7, <2>1 DEF RunFits, StepsFit
  <1>8. StepsInv'
    BY <1>6, <1>7, SameLates DEF StepsInv, Existing
  <1>9. RunStep
    BY <1>6 DEF RunStep
  <1> QED
    BY <1>4, <1>5, <1>8, <1>9 DEF ClaimStepInv, ClaimInv

LEMMA RestStep ==
  ASSUME GenerationInv, ClaimInv, StepsInv, NoCandidate, run' = run,
         worker' = worker, expired' = expired, late' = late
  PROVE  ClaimStepInv
  <1>1. Existing' = Existing /\ worker' \in [Workers -> WorkerStates]
    BY DEF Existing, GenerationInv, GenerationTypeOK
  <1> QED
    BY <1>1, CalmStep

-------------------------------------------------------------------------------
(* The steps of a worker *)

(* Worker w, that has run r, goes on or ends; what is left to show is about r. *)
LEMMA WorkerStep ==
  ASSUME GenerationInv, ClaimInv, StepsInv, NEW w \in Workers, NEW r \in Existing,
         worker[w].run = r, worker[w].phase \in {"spawned", "claimed", "calling", "repairing"},
         \A v \in Workers \ {w} : worker'[v] = worker[v],
         worker'[w].phase = "ended" \/ (Live(w)' /\ worker'[w].run = r),
         expired' = expired, late' = late, Existing' = Existing,
         \A q \in Existing \ {r} : run'[q] = run[q],
         \A q \in Runs \ {r} : CandidatesOf(q)' \subseteq CandidatesOf(q),
         \A v \in Workers : run'[r].owner = v => run[r].owner = v \/ (v = w /\ Live(w)'),
         Counted(r)',
         LateOf(r) = {} => RunFits(r)' /\ Moves(r, run'[r].status)
  PROVE  ClaimStepInv
  <1>1. \A v \in Workers \ {w} : Live(v)' = Live(v)
    BY DEF Live
  <1>2. worker'[w].phase \notin {"none", "spawned"}
    BY DEF Live
  <1>3. ClaimData'
    <2>1. \A v \in Workers : worker'[v].phase \in {"none", "spawned"} =>
              v \notin expired' /\ \A q \in Existing' : run'[q].owner # v
      BY <1>2 DEF ClaimInv, ClaimData
    <2>2. \A v \in Workers : late'[v] # Nothing => v \in expired'
      BY DEF ClaimInv, ClaimData
    <2>3. Live(w)' /\ w \in expired' => late'[w] = worker'[w].run
      BY DEF ClaimInv, ClaimData, Live
    <2>4. \A v \in Workers : (Live(v)' /\ v \in expired') => late'[v] = worker'[v].run
      BY <1>1, <2>3 DEF ClaimInv, ClaimData
    <2>5. ASSUME NEW v \in Workers, NEW q \in Existing', Live(v)', run'[q].owner = v
          PROVE  worker'[v].run = q
      <3>1. CASE q = r
        <4>1. v = w \/ (v # w /\ Live(v) /\ run[r].owner = v /\ worker'[v] = worker[v])
          BY <1>1, <2>5, <3>1
        <4> QED
          BY <2>5, <3>1, <4>1 DEF ClaimInv, ClaimData, Live
      <3>2. CASE q # r
        <4>1. q \in Existing /\ run[q].owner = v
          BY <2>5, <3>2
        <4>2. v # w
          BY <3>2, <4>1 DEF ClaimInv, ClaimData, Live
        <4> QED
          BY <1>1, <2>5, <4>1, <4>2 DEF ClaimInv, ClaimData
      <3> QED
        BY <3>1, <3>2
    <2> QED
      BY <2>1, <2>2, <2>4, <2>5 DEF ClaimData
  <1>4. \A q \in Runs \ {r} : \A v \in LiveOf(q)' : v \in LiveOf(q) /\ worker'[v] = worker[v]
    BY <1>1 DEF LiveOf, Live
  <1>5. ASSUME NEW q \in Runs \ {r}
        PROVE  Counted(q)'
    <2>1. ASSUME Held(q)
          PROVE  Held(q)'
      <3>1. q \in Existing /\ q \in Existing' /\ run'[q] = run[q]
        BY <1>5, <2>1 DEF Held
      <3>2. ASSUME NEW v \in Workers, run[q].owner = v, Live(v), v \notin expired
            PROVE  run'[q].owner = v /\ Live(v)' /\ v \notin expired'
        <4>1. v # w
          BY <1>5, <3>1, <3>2 DEF ClaimInv, ClaimData
        <4> QED
          BY <1>1, <3>1, <3>2, <4>1
      <3> QED
        BY <2>1, <3>1, <3>2 DEF Held
    <2>2. Counted(q) /\ LiveOf(q)' \subseteq LiveOf(q) /\ LateOf(q)' = LateOf(q)
              /\ CandidatesOf(q)' \subseteq CandidatesOf(q)
      BY <1>4, <1>5, SameLates DEF ClaimInv
    <2> QED
      BY <1>5, <2>1, <2>2, CountKept
  <1>6. \A q \in Existing : LateOf(q) = {} => RunFits(q)' /\ Moves(q, run'[q].status)
    BY <1>4, FitsKept DEF Existing
  <1>7. StepsInv'
    BY <1>6, SameLates DEF StepsInv, Existing
  <1>8. RunStep
    BY <1>6 DEF RunStep
  <1> QED
    BY <1>3, <1>5, <1>7, <1>8 DEF ClaimStepInv, ClaimInv, Existing

(* The worker ends, with no new candidate; if it was at work its run may have changed. *)
LEMMA LeaveStep ==
  ASSUME GenerationInv, ClaimInv, StepsInv, NEW w \in Workers, NEW r \in Existing,
         worker[w].run = r, worker[w].phase \in {"spawned", "claimed", "calling", "repairing"},
         WorkerOver(w), expired' = expired, late' = late, RunsStay, NoCandidate,
         \A q \in Existing \ {r} : run'[q] = run[q],
         \/ run'[r] = run[r]
         \/ /\ Live(w)
            /\ \A v \in Workers : run'[r].owner # v
            /\ LateOf(r) = {} => StepsFit(run'[r]) /\ Moves(r, run'[r].status)
  PROVE  ClaimStepInv
  <1>1. r \in Runs /\ Existing' = Existing
    BY DEF RunsStay, Existing
  <1>2. /\ worker'[w].phase = "ended" /\ ~Live(w)'
        /\ \A v \in Workers \ {w} : worker'[v] = worker[v] /\ Live(v)' = Live(v)
    BY DEF WorkerOver, WorkerSet, Live
  <1>3. LiveOf(r)' = LiveOf(r) \ {w}
    BY <1>2 DEF LiveOf
  <1>4. /\ Counted(r) /\ CandidatesOf(r)' \subseteq CandidatesOf(r) /\ LateOf(r)' = LateOf(r)
        /\ \A q \in Runs : CandidatesOf(q)' \subseteq CandidatesOf(q)
    BY <1>1, SameCandidates, SameLates DEF ClaimInv
  <1>5. Counted(r)'
    <2>1. CASE Live(w)
      <3>1. w \in LiveOf(r)
        BY <2>1 DEF LiveOf
      <3>2. Open(r) \in {0, 1} /\ Open(r)' \in {0, 1} /\ Open(r)' <= 1
        BY DEF Open
      <3>3. Within(LiveOf(r) \ {w}, CandidatesOf(r), LateOf(r), 1)
        BY <1>4, <3>1, <3>2, WithinLeave DEF Counted
      <3>4. Within(LiveOf(r)', CandidatesOf(r)', LateOf(r)', Open(r)')
        BY <1>3, <1>4, <3>2, <3>3, WithinSubset
      <3> QED
        BY <3>4 DEF Counted
    <2>2. CASE ~Live(w)
      <3>1. worker[w].phase = "spawned" /\ run'[r] = run[r]
        BY <2>2 DEF Live
      <3>2. run[r].owner # w
        BY <3>1 DEF ClaimInv, ClaimData
      <3>3. Held(r) => Held(r)'
        BY <1>1, <1>2, <3>1, <3>2 DEF Held
      <3> QED
        BY <1>1, <1>3, <1>4, <3>3, CountKept
    <2> QED
      BY <2>1, <2>2
  <1>6. ASSUME LateOf(r) = {}
        PROVE  RunFits(r)' /\ Moves(r, run'[r].status)
    <2>1. \A v \in LiveOf(r)' : v \in LiveOf(r) /\ worker'[v] = worker[v]
      BY <1>2, <1>3 DEF LiveOf
    <2>2. CASE run'[r] = run[r]
      BY <1>6, <2>1, <2>2, FitsKept
    <2>3. CASE Live(w) /\ StepsFit(run'[r]) /\ Moves(r, run'[r].status)
      <3>1. LiveOf(r) = {w}
        BY <1>6, <2>3, OnTime DEF LiveOf
      <3>2. LiveOf(r)' = {}
        BY <1>3, <3>1
      <3> QED
        BY <2>3, <3>2 DEF RunFits
    <2> QED
      BY <1>6, <2>2, <2>3
  <1>7. \A v \in Workers : run'[r].owner = v => run[r].owner = v \/ (v = w /\ Live(w)')
    OBVIOUS
  <1> QED
    BY <1>1, <1>2, <1>4, <1>5, <1>6, <1>7, WorkerStep

LEMMA EndStep ==
  ASSUME GenerationInv, ClaimInv, StepsInv, NEW w \in Workers, End(w),
         worker[w].phase \in {"spawned", "claimed", "calling", "repairing"},
         UNCHANGED <<vars, run, generation, expired, late, launch>>
  PROVE  ClaimStepInv
  <1>1. PICK r : r = worker[w].run
    OBVIOUS
  <1>2. r \in Existing
    BY <1>1 DEF GenerationInv, WorkerData
  <1>3. TablesStep /\ RunsStay /\ AuthorsStay
    BY SameTables, SameRuns DEF GenerationInv, TablesStep
  <1>4. WorkerOver(w)
    BY <1>3, WorkerEnds DEF RunsStay
  <1> QED
    BY <1>1, <1>2, <1>3, <1>4, LeaveStep DEF TablesStep

(* A worker that claims its run finds nobody at work on it, or somebody who is late. *)
LEMMA ClaimCounts ==
  ASSUME GenerationInv, ClaimInv, StepsInv, NEW w \in Workers, Claim(w)
  PROVE  ClaimStepInv
  <1>1. PICK r : r = worker[w].run
    OBVIOUS
  <1>2. /\ UNCHANGED vars /\ expired' = expired /\ late' = late
        /\ UNCHANGED <<generation, launch>> /\ worker[w].phase = "spawned"
    BY DEF Claim
  <1>3. NoCandidate
    BY <1>2, SameTables DEF GenerationInv, TablesStep
  <1>4. CASE run[r].status \notin {"PLANNED", "FAILED"}
    <2>1. run' = run /\ End(w)
      BY <1>1, <1>4 DEF Claim, End
    <2> QED
      BY <1>2, <2>1, EndStep
  <1>5. CASE run[r].status \in {"PLANNED", "FAILED"}
    <2>1. /\ r \in Existing /\ RunsStay
          /\ \E x \in RunRows : /\ x.status = "RUNNING" /\ x.owner = w /\ x.steps = run[r].steps
                                /\ RunSet(r, x)
          /\ \E y \in WorkerStates : y.phase = "claimed" /\ y.run = r /\ WorkerSet(w, y)
      BY <1>1, <1>5, ClaimEffect
    <2>2. /\ run'[r].status = "RUNNING" /\ run'[r].owner = w /\ r \in Runs
          /\ Existing' = Existing /\ \A q \in Existing \ {r} : run'[q] = run[q]
      BY <2>1 DEF RunSet, RunsStay, Existing
    <2>3. /\ worker'[w].phase = "claimed" /\ worker'[w].run = r
          /\ \A v \in Workers \ {w} : worker'[v] = worker[v]
      BY <2>1 DEF WorkerSet
    <2>4. Live(w)' /\ LiveOf(r)' = LiveOf(r) \cup {w}
      BY <2>3 DEF Live, LiveOf
    <2>5. w \notin expired /\ ~Held(r) /\ Held(r)'
      <3>1. w \notin expired'
        BY <1>2 DEF ClaimInv, ClaimData
      <3>2. ~Held(r)
        BY <1>5 DEF Held
      <3>3. r \in Existing'
        BY <2>1, <2>2
      <3> QED
        BY <1>2, <2>2, <2>4, <3>1, <3>2, <3>3 DEF Held
    <2>6. Counted(r) /\ CandidatesOf(r)' \subseteq CandidatesOf(r) /\ LateOf(r)' = LateOf(r)
      BY <1>2, <1>3, <2>2, SameCandidates, SameLates DEF ClaimInv
    <2>7. Counted(r)'
      <3>1. Within(LiveOf(r) \cup {w}, CandidatesOf(r), LateOf(r), 0)
        BY <2>5, <2>6, WithinClaim DEF Counted, Open
      <3>2. Within(LiveOf(r)', CandidatesOf(r)', LateOf(r)', 0)
        BY <2>4, <2>6, <3>1, WithinSubset
      <3> QED
        BY <2>5, <3>2 DEF Counted, Open
    <2>8. ASSUME LateOf(r) = {}
          PROVE  RunFits(r)' /\ Moves(r, run'[r].status)
      <3>1. LiveOf(r)' = {w}
        BY <2>1, <2>4, <2>5, <2>8, OnTime
      <3>2. RunFits(r)'
        BY <2>2, <2>3, <3>1 DEF RunFits, StepsFit, WorkSteps
      <3> QED
        BY <1>5, <2>2, <3>2, TableMoves DEF Moves
    <2> QED
      BY <1>1, <1>2, <1>3, <2>1, <2>2, <2>3, <2>4, <2>7, <2>8, SameCandidates, WorkerStep
  <1> QED
    BY <1>4, <1>5

(* A live worker that goes on with its run. *)
LEMMA GoesOnStep ==
  ASSUME GenerationInv, ClaimInv, StepsInv, NEW w \in Workers, Live(w), NEW r \in Existing,
         r = worker[w].run, UNCHANGED vars, expired' = expired, late' = late, RunsStay,
         NEW x \in RunRows, RunSet(r, x), x.status = run[r].status, x.owner = run[r].owner,
         NEW y \in WorkerStates, WorkerSet(w, y), y.run = r, y.phase \in {"calling", "repairing"},
         LateOf(r) = {} => WorkSteps(y.phase, x.steps)
  PROVE  ClaimStepInv
  <1>1. /\ run'[r] = x /\ r \in Runs /\ Existing' = Existing
        /\ \A q \in Existing \ {r} : run'[q] = run[q]
    BY DEF RunSet, RunsStay, Existing
  <1>2. /\ worker'[w] = y /\ Live(w)'
        /\ \A v \in Workers \ {w} : worker'[v] = worker[v] /\ Live(v)' = Live(v)
    BY DEF WorkerSet, Live
  <1>3. LiveOf(r)' = LiveOf(r)
    BY <1>2 DEF LiveOf
  <1>4. NoCandidate
    BY SameTables DEF GenerationInv, TablesStep
  <1>5. Held(r) => Held(r)'
    BY <1>1, <1>2 DEF Held
  <1>6. Counted(r)'
    <2>1. Counted(r) /\ CandidatesOf(r)' \subseteq CandidatesOf(r) /\ LateOf(r)' = LateOf(r)
      BY <1>1, <1>4, SameCandidates, SameLates DEF ClaimInv
    <2> QED
      BY <1>1, <1>3, <1>5, <2>1, CountKept
  <1>7. ASSUME LateOf(r) = {}
        PROVE  RunFits(r)' /\ Moves(r, run'[r].status)
    <2>1. LiveOf(r) = {w} /\ run[r].status = "RUNNING"
      BY <1>7, OnTime DEF LiveOf
    <2> QED
      BY <1>1, <1>2, <1>3, <1>7, <2>1 DEF RunFits, StepsFit, Moves
  <1>8. worker[w].phase \in {"spawned", "claimed", "calling", "repairing"}
    BY DEF Live
  <1> QED
    BY <1>1, <1>2, <1>4, <1>6, <1>7, <1>8, SameCandidates, WorkerStep

LEMMA PrepareCounts ==
  ASSUME GenerationInv, ClaimInv, StepsInv, NEW w \in Workers, Prepare(w)
  PROVE  ClaimStepInv
  <1>1. PICK r : r = worker[w].run
    OBVIOUS
  <1>2. /\ r \in Existing /\ RunsStay /\ worker[w].phase = "claimed"
        /\ \E x \in RunRows : /\ x.status = run[r].status /\ x.owner = run[r].owner
                              /\ x.steps["load_chapter_task"] = "SUCCEEDED"
                              /\ x.steps["compile_context"] = "SUCCEEDED"
                              /\ RunSet(r, x)
        /\ \E y \in WorkerStates : y.phase = "calling" /\ y.run = r /\ WorkerSet(w, y)
    BY <1>1, PrepareEffect
  <1>3. UNCHANGED vars /\ expired' = expired /\ late' = late /\ Live(w)
    BY <1>2 DEF Prepare, Live
  <1>4. PICK y \in WorkerStates : y.phase = "calling" /\ y.run = r /\ WorkerSet(w, y)
    BY <1>2
  <1>5. PICK x \in RunRows : /\ x.status = run[r].status /\ x.owner = run[r].owner
                             /\ WorkSteps(y.phase, x.steps) /\ RunSet(r, x)
    BY <1>2, <1>4 DEF WorkSteps
  <1> QED
    BY <1>1, <1>2, <1>3, <1>4, <1>5, GoesOnStep

LEMMA AskRepairCounts ==
  ASSUME GenerationInv, ClaimInv, StepsInv, NEW w \in Workers, AskRepair(w)
  PROVE  ClaimStepInv
  <1>1. PICK r : r = worker[w].run
    OBVIOUS
  <1>2. /\ r \in Existing /\ RunsStay /\ worker[w].phase = "calling"
        /\ \E x \in RunRows : /\ x.status = run[r].status /\ x.owner = run[r].owner
                              /\ x.steps["write_chapter"] = "SUCCEEDED"
                              /\ \A k \in {"load_chapter_task", "compile_context"} :
                                     x.steps[k] = run[r].steps[k]
                              /\ RunSet(r, x)
        /\ \E y \in WorkerStates : y.phase = "repairing" /\ y.run = r /\ WorkerSet(w, y)
    BY <1>1, AskRepairEffect
  <1>3. UNCHANGED vars /\ expired' = expired /\ late' = late /\ Live(w) /\ w \in LiveOf(r)
    BY <1>1, <1>2 DEF AskRepair, Live, LiveOf
  <1>4. PICK x \in RunRows : /\ x.status = run[r].status /\ x.owner = run[r].owner
                             /\ x.steps["write_chapter"] = "SUCCEEDED"
                             /\ \A k \in {"load_chapter_task", "compile_context"} :
                                    x.steps[k] = run[r].steps[k]
                             /\ RunSet(r, x)
    BY <1>2
  <1>5. PICK y \in WorkerStates : y.phase = "repairing" /\ y.run = r /\ WorkerSet(w, y)
    BY <1>2
  <1>6. LateOf(r) = {} => WorkSteps(y.phase, x.steps)
    <2> SUFFICES ASSUME LateOf(r) = {} PROVE WorkSteps(y.phase, x.steps)
      OBVIOUS
    <2>1. WorkSteps(worker[w].phase, run[r].steps)
      BY <1>2, <1>3 DEF StepsInv, RunFits
    <2> QED
      BY <1>2, <1>4, <2>1 DEF WorkSteps
  <1> QED
    BY <1>1, <1>2, <1>3, <1>4, <1>5, <1>6, GoesOnStep

(* A failure sets the run free; on time it was running. *)
LEMMA FailCounts ==
  ASSUME GenerationInv, ClaimInv, StepsInv, NEW w \in Workers, FailStep(w)
  PROVE  ClaimStepInv
  <1>1. PICK r : r = worker[w].run
    OBVIOUS
  <1>2. /\ worker[w].phase \in {"calling", "repairing"} /\ r \in Existing /\ RunsStay
        /\ RunFails(r) /\ WorkerOver(w) /\ NoCandidate
        /\ UNCHANGED <<outbox, expired, late, launch>>
    <2>1. PICK c, row : c = run[r].chapter /\ row = worker[w].row
      OBVIOUS
    <2> QED
      BY <1>1, <2>1, FailEffect
  <1>3. /\ run'[r].status = "FAILED" /\ run'[r].owner = Nothing
        /\ \A k \in StepKeys : run'[r].steps[k] # "RUNNING"
        /\ \A q \in Existing \ {r} : run'[q] = run[q]
    BY <1>2 DEF RunFails, RunSet, Existing
  <1>4. Live(w) /\ w \in LiveOf(r)
    BY <1>1, <1>2 DEF Live, LiveOf
  <1>5. \A v \in Workers : run'[r].owner # v
    BY <1>3, GenerationAssumption
  <1>6. LateOf(r) = {} => StepsFit(run'[r]) /\ Moves(r, run'[r].status)
    BY <1>2, <1>3, <1>4, OnTime, TableMoves DEF StepsFit, Moves
  <1> QED
    BY <1>1, <1>2, <1>3, <1>4, <1>5, <1>6, LeaveStep

(* A candidate takes the place of the worker that stores it. *)
LEMMA StoreCounts ==
  ASSUME GenerationInv, ClaimInv, StepsInv, NEW w \in Workers, NEW t \in CleanTexts,
         StoreCandidate(w, t)
  PROVE  ClaimStepInv
  <1>1. PICK r : r = worker[w].run
    OBVIOUS
  <1>2. PICK c : c = run[r].chapter
    OBVIOUS
  <1>3. /\ worker[w].phase \in {"calling", "repairing"} /\ r \in Existing /\ RunsStay
        /\ c \in Chapters
        /\ \E x \in RunRows :
                /\ x.status = "AWAITING_REVIEW" /\ x.owner = Nothing
                /\ x.steps["scan_prose_purity"] = "SUCCEEDED"
                /\ x.steps["save_candidate"] = "SUCCEEDED"
                /\ x.steps["review_candidate"] = "PENDING"
                /\ \A k \in {"load_chapter_task", "compile_context"} :
                       x.steps[k] = run[r].steps[k]
                /\ x.steps["write_chapter"] = IF worker[w].phase = "calling" THEN "SUCCEEDED"
                                              ELSE run[r].steps["write_chapter"]
                /\ RunSet(r, x)
        /\ WorkerOver(w)
        /\ \E n \in RevisionNumbers : NewCandidate(c, n, r)
        /\ UNCHANGED <<outbox, expired, late, launch>>
    BY <1>1, <1>2, StoreEffect
  <1>4. PICK x \in RunRows :
            /\ x.status = "AWAITING_REVIEW" /\ x.owner = Nothing
            /\ x.steps["scan_prose_purity"] = "SUCCEEDED"
            /\ x.steps["save_candidate"] = "SUCCEEDED"
            /\ x.steps["review_candidate"] = "PENDING"
            /\ \A k \in {"load_chapter_task", "compile_context"} : x.steps[k] = run[r].steps[k]
            /\ x.steps["write_chapter"] = IF worker[w].phase = "calling" THEN "SUCCEEDED"
                                          ELSE run[r].steps["write_chapter"]
            /\ RunSet(r, x)
    BY <1>3
  <1>5. /\ run'[r] = x /\ r \in Runs /\ Existing' = Existing
        /\ \A q \in Existing \ {r} : run'[q] = run[q]
    BY <1>3, <1>4 DEF RunSet, RunsStay, Existing
  <1>6. /\ worker'[w].phase = "ended" /\ ~Live(w)' /\ w \in LiveOf(r)
        /\ \A v \in Workers \ {w} : worker'[v] = worker[v] /\ Live(v)' = Live(v)
    BY <1>1, <1>3 DEF WorkerOver, WorkerSet, Live, LiveOf
  <1>7. LiveOf(r)' = LiveOf(r) \ {w}
    BY <1>6 DEF LiveOf
  <1>8. PICK n \in RevisionNumbers : NewCandidate(c, n, r)
    BY <1>3
  <1>9. \A q \in Runs, d \in Chapters, m \in RevisionNumbers :
            Candidate(d, m, q)' => Candidate(d, m, q) \/ (d = c /\ m = n /\ q = r)
    BY <1>8 DEF NewCandidate, Candidate
  <1>10. CandidatesOf(r)' \subseteq CandidatesOf(r) \cup {<<c, n>>}
    BY <1>5, <1>9 DEF CandidatesOf
  <1>11. \A q \in Runs \ {r} : CandidatesOf(q)' \subseteq CandidatesOf(q)
    BY <1>9 DEF CandidatesOf
  <1>12. Counted(r)'
    <2>1. Held(r)' /\ LateOf(r)' = LateOf(r) /\ Counted(r) /\ Open(r) \in {0, 1}
      BY <1>3, <1>4, <1>5, SameLates DEF Held, ClaimInv, Open
    <2>2. Within(LiveOf(r) \ {w}, CandidatesOf(r) \cup {<<c, n>>}, LateOf(r), 0)
      BY <1>6, <2>1, WithinLeave DEF Counted
    <2>3. Within(LiveOf(r)', CandidatesOf(r)', LateOf(r)', 0)
      BY <1>7, <1>10, <2>1, <2>2, WithinSubset
    <2> QED
      BY <2>1, <2>3 DEF Counted, Open
  <1>13. ASSUME LateOf(r) = {}
         PROVE  RunFits(r)' /\ Moves(r, run'[r].status)
    <2>1. LiveOf(r)' = {} /\ run[r].status = "RUNNING"
      BY <1>3, <1>6, <1>7, <1>13, OnTime
    <2>2. WorkSteps(worker[w].phase, run[r].steps)
      BY <1>3, <1>6, <1>13 DEF StepsInv, RunFits
    <2>3. StepsFit(x)
      BY <1>3, <1>4, <2>2 DEF StepsFit, StepKeys, WorkSteps
    <2> QED
      BY <1>4, <1>5, <2>1, <2>3, TableMoves DEF RunFits, Moves
  <1>14. \A v \in Workers : run'[r].owner = v => run[r].owner = v \/ (v = w /\ Live(w)')
    BY <1>4, <1>5, GenerationAssumption
  <1> QED
    BY <1>1, <1>3, <1>5, <1>6, <1>11, <1>12, <1>13, <1>14, WorkerStep

-------------------------------------------------------------------------------
(* The other steps *)

(* The clock: a worker at work becomes late, and its run is open to others. *)
LEMMA ExpireCounts ==
  ASSUME GenerationInv, ClaimInv, StepsInv, NEW w \in Workers, ExpireLease(w)
  PROVE  ClaimStepInv
  <1>1. /\ UNCHANGED vars /\ run' = run /\ worker' = worker /\ expired' = expired \cup {w}
        /\ w \notin expired /\ late' = [late EXCEPT ![w] = IF Live(w) THEN worker[w].run ELSE @]
        /\ late \in [Workers -> Runs \cup {Nothing}]
        /\ Live(w) \/ \E r \in Existing : run[r].owner = w
    BY DEF ExpireLease, GenerationInv, GenerationTypeOK
  <1>2. /\ Existing' = Existing /\ \A v \in Workers : Live(v)' = Live(v)
        /\ late[w] = Nothing
    BY <1>1 DEF Existing, Live, ClaimInv, ClaimData
  <1>3. /\ \A r : LiveOf(r)' = LiveOf(r) /\ CandidatesOf(r)' = CandidatesOf(r)
        /\ \A v \in Workers \ {w} : late'[v] = late[v]
        /\ late'[w] = IF Live(w) THEN worker[w].run ELSE Nothing
    BY <1>1, <1>2 DEF LiveOf, CandidatesOf, Candidate, vars, tables
  <1>4. \A r \in Runs : LateOf(r) \subseteq LateOf(r)'
    BY <1>2, <1>3, ManuscriptAssumption DEF LateOf
  <1>5. ClaimData'
    <2>1. worker[w].phase \notin {"none", "spawned"}
      BY <1>1 DEF Live, ClaimInv, ClaimData
    <2>2. \A v \in Workers : worker'[v].phase \in {"none", "spawned"} =>
              v \notin expired' /\ \A r \in Existing' : run'[r].owner # v
      BY <1>1, <1>2, <2>1 DEF ClaimInv, ClaimData
    <2>3. \A v \in Workers : late'[v] # Nothing => v \in expired'
      BY <1>1, <1>3 DEF ClaimInv, ClaimData
    <2>4. \A v \in Workers : (Live(v)' /\ v \in expired') => late'[v] = worker'[v].run
      BY <1>1, <1>2, <1>3 DEF ClaimInv, ClaimData
    <2>5. \A v \in Workers, r \in Existing' : (Live(v)' /\ run'[r].owner = v) =>
              worker'[v].run = r
      BY <1>1, <1>2 DEF ClaimInv, ClaimData
    <2> QED
      BY <2>2, <2>3, <2>4, <2>5 DEF ClaimData
  <1>6. ASSUME NEW r \in Runs
        PROVE  Counted(r)'
    <2>1. Counted(r) /\ Open(r) \in {0, 1} /\ Open(r)' \in {0, 1} /\ Open(r)' <= 1
      BY <1>6 DEF ClaimInv, Open
    <2>2. CASE Live(w) /\ worker[w].run = r
      <3>1. LateOf(r)' = LateOf(r) \cup {w} /\ w \notin LateOf(r)
        BY <1>2, <1>3, <1>6, <2>2, ManuscriptAssumption DEF LateOf
      <3>2. Within(LiveOf(r), CandidatesOf(r), LateOf(r) \cup {w}, 1)
        BY <2>1, <3>1, WithinLate DEF Counted
      <3>3. Within(LiveOf(r)', CandidatesOf(r)', LateOf(r)', Open(r)')
        BY <1>3, <2>1, <3>1, <3>2, WithinSubset
      <3> QED
        BY <3>3 DEF Counted
    <2>3. CASE ~(Live(w) /\ worker[w].run = r)
      <3>1. LateOf(r)' = LateOf(r)
        BY <1>2, <1>3, <1>6, <2>3, ManuscriptAssumption DEF LateOf
      <3>2. ASSUME Held(r), NEW v \in Workers, run[r].owner = v, Live(v), v \notin expired
            PROVE  v \notin expired'
        <4>1. v # w
          BY <2>3, <3>2 DEF Held, ClaimInv, ClaimData
        <4> QED
          BY <1>1, <3>2, <4>1
      <3>3. Held(r) => Held(r)'
        BY <1>1, <1>2, <3>2 DEF Held
      <3> QED
        BY <1>3, <1>6, <2>1, <3>1, <3>3, CountKept
    <2> QED
      BY <2>2, <2>3
  <1>7. \A r \in Existing : LateOf(r) = {} => RunFits(r)' /\ Moves(r, run'[r].status)
    <2>1. \A r \in Existing : \A v \in LiveOf(r)' : v \in LiveOf(r) /\ worker'[v] = worker[v]
      BY <1>1, <1>3
    <2> QED
      BY <1>1, <2>1, FitsKept
  <1>8. StepsInv'
    BY <1>2, <1>4, <1>7 DEF StepsInv, Existing
  <1>9. RunStep
    BY <1>7 DEF RunStep
  <1> QED
    BY <1>5, <1>6, <1>8, <1>9 DEF ClaimStepInv, ClaimInv

(* A run that can be resumed is not held, so nothing is taken from anybody on time. *)
LEMMA ResumeCounts ==
  ASSUME GenerationInv, ClaimInv, StepsInv, NEW a \in Callers, NEW r \in Runs, Resume(a, r)
  PROVE  ClaimStepInv
  <1>1. /\ r \in Existing /\ RunsStay /\ Recoverable(r)
        /\ \E x \in RunRows : /\ x.status = "PLANNED" /\ x.owner = Nothing
                              /\ x.steps = run[r].steps /\ RunSet(r, x)
    BY ResumeEffect
  <1>2. /\ run'[r].status = "PLANNED" /\ run'[r].owner = Nothing
        /\ Existing' = Existing /\ \A q \in Existing \ {r} : run'[q] = run[q]
    BY <1>1 DEF RunSet, RunsStay, Existing
  <1>3. /\ UNCHANGED vars /\ expired' = expired /\ late' = late /\ worker' = worker
        /\ worker' \in [Workers -> WorkerStates]
    BY DEF Resume, GenerationInv, GenerationTypeOK
  <1>4. NoCandidate
    BY <1>3, SameTables DEF GenerationInv, TablesStep
  <1>5. ~Held(r)
    BY <1>1 DEF Held, Recoverable
  <1>6. ASSUME LateOf(r) = {}
        PROVE  RunFits(r)' /\ Moves(r, run'[r].status)
    <2>1. LiveOf(r)' = {}
      BY <1>1, <1>3, <1>5, <1>6, OnTime DEF LiveOf, Live
    <2>2. RunFits(r)'
      BY <1>2, <2>1 DEF RunFits, StepsFit
    <2> QED
      BY <1>1, <1>2, <2>2 DEF Moves, Recoverable
  <1>7. \A w \in Workers : run'[r].owner # w
    BY <1>2, GenerationAssumption
  <1> QED
    BY <1>2, <1>3, <1>4, <1>5, <1>6, <1>7, CalmStep

(* A revision with a run is that run's candidate; on time the run waits for its review. *)
LEMMA CompleteCounts ==
  ASSUME GenerationInv, ClaimInv, StepsInv, NEW p \in Pages, FinishPublishOfRun(p)
  PROVE  ClaimStepInv
  <1>1. PICK c, n : c = page[p].chapter /\ n = page[p].rev
    OBVIOUS
  <1>2. PICK r : r = revision[c][n].run
    OBVIOUS
  <1>3. /\ TablesStep /\ RunsStay /\ c \in Chapters /\ n \in RevisionNumbers
        /\ r = Nothing => run' = run
        /\ r # Nothing => /\ Candidate(c, n, r) /\ r \in Existing /\ run[r].chapter = c
                          /\ RunCompletes(r)
        /\ UNCHANGED <<generation, worker, expired, late, launch>>
    BY <1>1, <1>2, CompleteEffect
  <1>4. /\ NoCandidate /\ worker' = worker /\ expired' = expired /\ late' = late
        /\ worker' \in [Workers -> WorkerStates] /\ Existing' = Existing
    BY <1>3 DEF TablesStep, GenerationInv, GenerationTypeOK, RunsStay
  <1>5. CASE r = Nothing
    BY <1>3, <1>4, <1>5, RestStep
  <1>6. CASE r # Nothing
    <2>1. PICK x \in RunRows : /\ x.status = "COMPLETED" /\ x.owner = run[r].owner
                               /\ x.steps["review_candidate"] = "SUCCEEDED"
                               /\ \A k \in StepKeys \ {"review_candidate"} :
                                      x.steps[k] = run[r].steps[k]
                               /\ RunSet(r, x)
      BY <1>3, <1>6 DEF RunCompletes
    <2>2. /\ r \in Existing /\ run'[r] = x
          /\ \A q \in Existing \ {r} : run'[q] = run[q]
      BY <1>3, <1>6, <2>1 DEF RunSet, Existing
    <2>3. Held(r)'
      BY <1>4, <2>1, <2>2 DEF Held
    <2>4. ASSUME LateOf(r) = {}
          PROVE  RunFits(r)' /\ Moves(r, run'[r].status)
      <3>1. <<c, n>> \in CandidatesOf(r)
        BY <1>3, <1>6 DEF CandidatesOf
      <3>2. LiveOf(r) = {} /\ run[r].status \in {"AWAITING_REVIEW", "COMPLETED"}
        BY <2>2, <2>4, <3>1, OnTime
      <3>3. LiveOf(r)' = {}
        BY <1>4, <3>2 DEF LiveOf, Live
      <3>4. StepsFit(run[r])
        BY <2>2, <2>4 DEF StepsInv, RunFits
      <3>5. StepsFit(x)
        BY <2>1, <3>2, <3>4 DEF StepsFit
      <3> QED
        BY <2>1, <2>2, <3>2, <3>3, <3>5, TableMoves DEF RunFits, Moves
    <2> QED
      BY <1>4, <2>1, <2>2, <2>3, <2>4, CalmStep
  <1> QED
    BY <1>5, <1>6

LEMMA CommitCounts ==
  ASSUME GenerationInv, ClaimInv, StepsInv, NEW a \in Callers, NEW r \in Runs,
         CommitGenerate(a, r)
  PROVE  ClaimStepInv
  <1>1. PICK c, k : c = launch[a].chapter /\ k = launch[a].key
    OBVIOUS
  <1>2. /\ r \notin Existing /\ RunPlanned(r, c, k) /\ Existing' = Existing \cup {r}
        /\ NoCandidate /\ UNCHANGED <<outbox, generation, worker, expired, late>>
    BY <1>1, CommitEffect
  <1>3. /\ run'[r].status = "PLANNED" /\ run'[r].owner = Nothing
        /\ \A q \in Existing : run'[q] = run[q]
    BY <1>2 DEF RunPlanned, RunSet, Existing
  <1>4. worker' \in [Workers -> WorkerStates]
    BY <1>2 DEF GenerationInv, GenerationTypeOK
  <1> QED
    BY <1>2, <1>3, <1>4, CalmStep

LEMMA LaunchCounts ==
  ASSUME GenerationInv, ClaimInv, StepsInv, NEW a \in Callers, NEW w \in Workers, Launch(a, w)
  PROVE  ClaimStepInv
  <1>1. PICK y \in WorkerStates : y.phase = "spawned" /\ WorkerSet(w, y)
    BY LaunchStepInv
  <1>2. /\ NoCandidate /\ run' = run /\ expired' = expired /\ late' = late
        /\ worker[w].phase = "none"
    BY SameTables DEF Launch, GenerationInv, TablesStep
  <1>3. /\ Existing' = Existing /\ worker' \in [Workers -> WorkerStates]
        /\ \A v \in Workers : \/ worker'[v] = worker[v]
                              \/ worker[v].phase = "none" /\ worker'[v].phase = "spawned"
    BY <1>1, <1>2 DEF WorkerSet, Existing
  <1> QED
    BY <1>2, <1>3, CalmStep

LEMMA ClaimInit == GenerationInit => ClaimInv /\ StepsInv
  <1> SUFFICES ASSUME GenerationInit PROVE ClaimInv /\ StepsInv
    OBVIOUS
  <1>1. /\ run = [r \in Runs |-> Nothing] /\ worker = [w \in Workers |-> NoWorker]
        /\ expired = {} /\ late = [w \in Workers |-> Nothing]
        /\ revision = [c \in Chapters |-> [n \in RevisionNumbers |-> Nothing]]
    BY DEF GenerationInit, Init
  <1>2. Existing = {} /\ \A w \in Workers : worker[w].phase = "none" /\ ~Live(w)
    BY <1>1 DEF Existing, Live, NoWorker
  <1>3. \A r \in Runs : LiveOf(r) = {} /\ CandidatesOf(r) = {} /\ LateOf(r) = {}
    BY <1>1, <1>2, ManuscriptAssumption DEF LiveOf, CandidatesOf, Candidate, LateOf
  <1>4. \A r \in Runs : Counted(r)
    BY <1>3, FS_EmptySet DEF Counted, Within, Open
  <1>5. ClaimData
    BY <1>1, <1>2 DEF ClaimData
  <1> QED
    BY <1>2, <1>4, <1>5 DEF ClaimInv, StepsInv

LEMMA NextCounts ==
  ASSUME GenerationInv, ClaimInv, StepsInv, [GenerationNext]_allVars
  PROVE  ClaimStepInv
  <1>1. CASE UNCHANGED allVars
    <2>1. NoCandidate /\ run' = run /\ worker' = worker /\ expired' = expired /\ late' = late
      BY <1>1, SameTables DEF allVars, generationVars, GenerationInv, TablesStep
    <2> QED
      BY <2>1, RestStep
  <1>2. ASSUME NEW p \in Pages, PageStep(p), UNCHANGED generationVars
        PROVE  ClaimStepInv
    <2>1. NoCandidate /\ run' = run /\ worker' = worker /\ expired' = expired /\ late' = late
      BY <1>2, PageStepTables DEF generationVars, GenerationInv, TablesStep
    <2> QED
      BY <2>1, RestStep
  <1>3. ASSUME NEW a \in Callers, LaunchStep(a)
        PROVE  ClaimStepInv
    <2>1. CASE \E r \in Runs : CommitGenerate(a, r) \/ Resume(a, r)
      BY <2>1, CommitCounts, ResumeCounts
    <2>2. CASE \E w \in Workers : Launch(a, w)
      BY <2>2, LaunchCounts
    <2>3. CASE \/ \E c \in Chapters, k \in Keys : BeginGenerate(a, c, k)
               \/ CheckGenerate(a) \/ RejectGenerate(a) \/ LoseLaunch(a)
      <3>1. /\ UNCHANGED vars /\ run' = run /\ worker' = worker /\ expired' = expired
            /\ late' = late
        BY <2>3 DEF BeginGenerate, CheckGenerate, RejectGenerate, LoseLaunch
      <3>2. NoCandidate
        BY <3>1, SameTables DEF GenerationInv, TablesStep
      <3> QED
        BY <3>1, <3>2, RestStep
    <2> QED
      BY <1>3, <2>1, <2>2, <2>3 DEF LaunchStep
  <1>4. ASSUME NEW w \in Workers, Work(w)
        PROVE  ClaimStepInv
    <2>1. CASE Claim(w) \/ Prepare(w) \/ AskRepair(w)
      BY <2>1, ClaimCounts, PrepareCounts, AskRepairCounts
    <2>2. CASE CallFails(w) \/ RejectOutput(w) \/ RepairFails(w)
      BY <2>2, FailCounts DEF FailStep
    <2>3. CASE \E t \in CleanTexts : StoreCandidate(w, t)
      BY <2>3, StoreCounts
    <2>4. CASE DieOnConflict(w)
      BY <2>4, EndStep DEF DieOnConflict
    <2> QED
      BY <1>4, <2>1, <2>2, <2>3, <2>4 DEF Work
  <1>5. ASSUME NEW w \in Workers, Crash(w) \/ ExpireLease(w)
        PROVE  ClaimStepInv
    BY <1>5, EndStep, ExpireCounts DEF Crash
  <1> QED
    BY <1>1, <1>2, <1>3, <1>4, <1>5, CompleteCounts DEF GenerationNext

(* The invariant of claims, candidates and steps, however late workers are. *)
THEOREM ClaimInvariant == GenerationSpec => [](ClaimInv /\ StepsInv)
  <1>1. ClaimInv /\ StepsInv /\ GenerationInv /\ [GenerationNext]_allVars =>
            (ClaimInv /\ StepsInv)'
    BY NextCounts DEF ClaimStepInv
  <1> QED
    BY <1>1, ClaimInit, GenerationInvariant, PTL DEF GenerationSpec

(* What a counted run allows. *)
LEMMA CountedMeans ==
  ASSUME NEW r \in Runs, Counted(r)
  PROVE  /\ Cardinality(LiveOf(r)) <= 1 + Cardinality(LateOf(r))
         /\ Cardinality(CandidatesOf(r)) <= 1 + Cardinality(LateOf(r))
  <1>1. /\ IsFiniteSet(LiveOf(r)) /\ IsFiniteSet(CandidatesOf(r)) /\ IsFiniteSet(LateOf(r))
        /\ Cardinality(LiveOf(r)) + Cardinality(CandidatesOf(r)) + Open(r)
               <= 1 + Cardinality(LateOf(r))
    BY DEF Counted, Within
  <1>2. /\ Cardinality(LiveOf(r)) \in Nat /\ Cardinality(CandidatesOf(r)) \in Nat
        /\ Cardinality(LateOf(r)) \in Nat /\ Open(r) \in {0, 1}
    BY <1>1, FS_CardinalityType DEF Open
  <1> QED
    BY <1>1, <1>2

(* The claim (generation.py:142-157) gives a run to one worker at a time: two that are    *)
(* spawned for it, resumes and crashes included, never both call the model, but for as    *)
(* many as have been overtaken by the clock.  A repair's second call can be (:480-517).   *)
THEOREM ClaimsAreExclusive == GenerationSpec => []ExclusiveClaim
  <1>1. GenerationInv /\ ClaimInv => ExclusiveClaim
    <2> SUFFICES ASSUME GenerationInv, ClaimInv, NEW r \in Existing
                 PROVE  /\ Cardinality(LiveOf(r)) <= 1 + Cardinality(LateOf(r))
                        /\ LateOf(r) = {} =>
                               \A w \in LiveOf(r) :
                                   run[r].owner = w /\ run[r].status = "RUNNING"
      BY DEF ExclusiveClaim
    <2>1. r \in Runs /\ Counted(r)
      BY DEF Existing, ClaimInv
    <2> QED
      BY <2>1, CountedMeans, OnTime
  <1> QED
    BY <1>1, ClaimInvariant, GenerationInvariant, PTL

(* However often a run fails, is killed and is resumed, it stores one candidate at most,  *)
(* and one more for each of its workers whose lease has ended under it.                    *)
THEOREM RetriesStoreOnce == GenerationSpec => []OneCandidatePerRun
  <1>1. ClaimInv => OneCandidatePerRun
    BY CountedMeans DEF ClaimInv, OneCandidatePerRun
  <1> QED
    BY <1>1, ClaimInvariant, PTL

(* The steps of a run tell what its status tells: none is left running in a run that has *)
(* ended, and the ones before the review are done in a run that awaits it, unless one of  *)
(* its workers was at work after its lease.                                                *)
THEOREM StepsAgree == GenerationSpec => []StepsAgreeWithRun
  <1>1. StepsInv => StepsAgreeWithRun
    BY DEF StepsInv, RunFits, StepsAgreeWithRun
  <1> QED
    BY <1>1, ClaimInvariant, PTL

(* No code asks the transition table of workflows.py, and still a run none of whose       *)
(* workers is late goes along it, but where a resume plans again a failed run or one whose *)
(* lease is over; no step takes a completed run back.                                      *)
THEOREM RunsFollowTable == GenerationSpec => RunFollowsTable
  <1>1. ClaimInv /\ StepsInv /\ GenerationInv /\ [GenerationNext]_allVars => [RunStep]_allVars
    BY NextCounts DEF ClaimStepInv
  <1>2. RunFollowsTable <=> [][RunStep]_allVars
    BY DEF RunFollowsTable, RunStep
  <1> QED
    BY <1>1, <1>2, ClaimInvariant, GenerationInvariant, PTL DEF GenerationSpec
===============================================================================

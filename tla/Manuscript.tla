------------------------------ MODULE Manuscript ------------------------------
(***************************************************************************)
(* The writing service (application/writing.py) on the tables it owns, and *)
(* the workspace pages (web/static/app.js) that call it.                   *)
(*                                                                         *)
(* Every handler runs in a web request with a fresh database session.  It  *)
(* locks the chapter row (SELECT ... FOR UPDATE), reads, decides, writes   *)
(* and commits; the answer is read back by a query that runs AFTER the     *)
(* commit.  A request is therefore three steps: take the lock, commit and  *)
(* receive the answer.  Between them other pages run.                      *)
(*                                                                         *)
(* A revision row is named by its chapter and its revision_number, which   *)
(* the table keeps unique; a content hash is identified with its text.     *)
(* Title, brief and target length travel together as one "brief".          *)
(***************************************************************************)
EXTENDS Integers, FiniteSets

CONSTANTS
    Chapters,       \* the chapters of one work
    Pages,          \* browser pages
    Runs,           \* workflow runs that may write model revisions (ChapterGeneration)
    Texts,          \* normalized prose within the length limit
    CleanTexts,     \* the texts the publish-time purity gate accepts
    Briefs,         \* values of the chapter form
    Nothing,        \* NULL
    MaxRevisions,   \* bound: revisions of one chapter
    MaxVersion      \* bound: a request is not started at this chapter version

ASSUME ManuscriptAssumption ==
    /\ CleanTexts \subseteq Texts
    /\ MaxRevisions \in Nat \ {0}
    /\ MaxVersion \in Nat \ {0}
    /\ Nothing \notin Chapters \cup Texts \cup Briefs \cup Runs

VARIABLES
    chapter,    \* chapter[c]: the row of table chapters
    revision,   \* revision[c][n]: the row of table chapter_revisions, or Nothing
    artifact,   \* artifact[t]: the status of the prose artifact with t's hash
    work,       \* the row of table works
    outbox,     \* the rows of table outbox_events
    page,       \* page[p]: what a workspace page holds
    request     \* request[p]: the page's request and its transaction

tables == <<chapter, revision, artifact, work, outbox>>
vars == <<tables, page, request>>

-------------------------------------------------------------------------------
(* Rows *)

RevisionNumbers == 1 .. MaxRevisions

ChapterStatuses == {"PLANNED", "GENERATING", "REVIEW", "DRAFT", "COMMITTED"}

(* latest is the number of the revision latest_revision_id points to, 0 for NULL. *)
ChapterRows == [latest : 0 .. MaxRevisions, status : ChapterStatuses,
                version : Nat, brief : Briefs \cup {Nothing}]

(* commit is canonical_commit_sequence, 0 for NULL; it outlives is_canonical. *)
RevisionRows == [text : Texts, parent : 0 .. MaxRevisions,
                 source : {"HUMAN", "MODEL"}, run : Runs \cup {Nothing},
                 canonical : BOOLEAN, commit : Nat]

ArtifactStatuses == {"ABSENT", "VALID", "GATE_PASSED"}

OutboxRows == [chapter : Chapters, revision : RevisionNumbers, sequence : Nat]

NewChapter == [latest |-> 0, status |-> "PLANNED", version |-> 1, brief |-> Nothing]

ASSUME NullAssumption == Nothing \notin ChapterRows \cup RevisionRows

(* The chapter a page shows, and what its requests send back of state.chapter: the   *)
(* numbers of the revision and of the version.                                       *)
PageStates == [chapter : Chapters \cup {Nothing}, rev : 0 .. MaxRevisions,
               version : Nat]

ClosedPage == [chapter |-> Nothing, rev |-> 0, version |-> 0]

(* row is the chapter object the session holds, Nothing once it is expired. *)
Requests == [step : {"idle", "locked", "ready", "answered"},
             op : {"none", "save", "metadata", "publish"},
             text : Texts \cup {Nothing}, brief : Briefs \cup {Nothing},
             row : ChapterRows \cup {Nothing}, sequence : Nat]

Idle == [step |-> "idle", op |-> "none", text |-> Nothing, brief |-> Nothing,
         row |-> Nothing, sequence |-> 0]

-------------------------------------------------------------------------------
(* Locks and constraints of the database *)

HoldsChapter(p, c) == request[p].step \in {"locked", "ready"} /\ page[p].chapter = c

(* Faults: FOR UPDATE forgotten on the chapter, on the work. *)
ChapterNeverLocked(c) == FALSE
WorkNeverLocked == FALSE

ChapterLocked(c) == \E p \in Pages : HoldsChapter(p, c)

WorkLocked == \E p \in Pages : request[p].step = "ready"

(* Fault: the unique index below is missing. *)
RevisionNumberUnchecked(c, n) == TRUE

(* The unique index on (chapter_id, revision_number). *)
RevisionNumberFree(c, n) == revision[c][n] = Nothing

Highest(c) == CHOOSE n \in 0 .. MaxRevisions :
                  /\ n = 0 \/ revision[c][n] # Nothing
                  /\ \A m \in RevisionNumbers : m > n => revision[c][m] = Nothing

-------------------------------------------------------------------------------
(* What the handlers write *)

(* A session writes the columns whose value it changed, compared with the row it     *)
(* loaded; a column it leaves as it loaded it keeps what the table holds.            *)
Column(stored, loaded, new) == IF new = loaded THEN stored ELSE new

(* save_chapter_content, from the lookup of the artifact to the flush, by a session *)
(* that holds row for chapter c: a web request has just read it, a worker may hold  *)
(* an older one.  The insertion fails if the number is taken.                       *)
StoreRevision(c, row, t, source, run, gated) ==
    /\ RevisionNumberFree(c, row.latest + 1)
    /\ revision' = [revision EXCEPT ![c][row.latest + 1] =
           [text |-> t, parent |-> row.latest, source |-> source, run |-> run,
            canonical |-> FALSE, commit |-> 0]]
    /\ artifact' = [artifact EXCEPT ![t] = IF gated THEN "GATE_PASSED"
                                           ELSE IF @ = "ABSENT" THEN "VALID" ELSE @]
    /\ chapter' = [chapter EXCEPT ![c].latest = row.latest + 1,
                                  ![c].status = Column(@, row.status,
                                      IF source = "MODEL" THEN "REVIEW" ELSE "DRAFT"),
                                  ![c].version = row.version + 1]

(* Fault: the revision published before keeps its flag. *)
DemotedNothing(rows) == rows

(* publish_revision, from the demotion of the old canonical revision to the commit. *)
Demoted(rows) == [n \in RevisionNumbers |-> IF rows[n] = Nothing THEN Nothing
                                            ELSE [rows[n] EXCEPT !.canonical = FALSE]]

(* Fault: a status the column does not know. *)
StorePublicationAsPublished(c, n, row, sequence) ==
    /\ chapter' = [chapter EXCEPT ![c].latest = n, ![c].status = "PUBLISHED"]
    /\ UNCHANGED <<revision, artifact, work, outbox>>

StorePublication(c, n, row, sequence) ==
    /\ revision' = [revision EXCEPT ![c] =
           [Demoted(revision[c]) EXCEPT ![n].canonical = TRUE, ![n].commit = sequence]]
    /\ artifact' = [artifact EXCEPT ![revision[c][n].text] = "GATE_PASSED"]
    /\ chapter' = [chapter EXCEPT ![c].latest = n, ![c].status = "COMMITTED",
                                  ![c].version = row.version + 1]
    /\ work' = [work EXCEPT !.sequence = sequence, !.version = @ + 1]
    /\ outbox' = outbox \cup {[chapter |-> c, revision |-> n, sequence |-> sequence]}

-------------------------------------------------------------------------------
(* The steps of a request *)

Begin(p, r) == /\ request[p] = Idle
               /\ page[p].chapter # Nothing
               /\ ~ChapterLocked(page[p].chapter)
               /\ chapter[page[p].chapter].version < MaxVersion   \* bound
               /\ request' = [request EXCEPT ![p] = r]
               /\ UNCHANGED <<tables, page>>

(* The commit releases the locks; the handler goes on to read its answer with row. *)
Answer(p, row) == request' = [request EXCEPT ![p].step = "answered", ![p].row = row,
                                             ![p].sequence = 0]

(* Fault: the error is answered but the transaction stays open. *)
RollbackForgotten(p) == UNCHANGED vars

(* An error ends the transaction: nothing is written and the page shows a message. *)
Rollback(p) == /\ request' = [request EXCEPT ![p] = Idle]
               /\ UNCHANGED <<tables, page>>

(* GET /chapters/{id}: one statement reads the row, its revision and its text. *)
OpenChapter(p, c) ==
    /\ request[p] = Idle
    /\ page' = [page EXCEPT ![p] =
           [chapter |-> c, rev |-> chapter[c].latest, version |-> chapter[c].version]]
    /\ UNCHANGED <<tables, request>>

(* Fault: expected_revision_number is not compared with the locked row. *)
BeginSaveUnchecked(p, t) ==
    LET c == page[p].chapter IN
    /\ Begin(p, [Idle EXCEPT !.step = "locked", !.op = "save", !.text = t,
                             !.row = chapter[c]])
    /\ chapter[c].latest < MaxRevisions

(* PUT /chapters/{id}/content: refused with 409 unless the page's revision is the  *)
(* chapter's latest one.                                                           *)
BeginSave(p, t) ==
    LET c == page[p].chapter IN
    /\ Begin(p, [Idle EXCEPT !.step = "locked", !.op = "save", !.text = t,
                             !.row = chapter[c]])
    /\ page[p].rev = chapter[c].latest
    /\ chapter[c].latest < MaxRevisions                            \* bound

KeepsContent(c, row, t) == row.latest # 0 /\ revision[c][row.latest].text = t

(* Inserting an artifact takes a key-share lock on its work (foreign key), which a *)
(* publication's FOR UPDATE of the work excludes.                                  *)
FinishSave(p) ==
    LET c   == page[p].chapter
        row == request[p].row
        t   == request[p].text
    IN
    /\ request[p].step = "locked" /\ request[p].op = "save"
    /\ ~KeepsContent(c, row, t)
    /\ artifact[t] = "ABSENT" => ~WorkLocked
    /\ StoreRevision(c, row, t, "HUMAN", Nothing, FALSE)
    /\ Answer(p, [row EXCEPT !.latest = @ + 1, !.status = "DRAFT", !.version = @ + 1])
    /\ UNCHANGED <<work, outbox, page>>

KeepContent(p) ==
    /\ request[p].step = "locked" /\ request[p].op = "save"
    /\ KeepsContent(page[p].chapter, request[p].row, request[p].text)
    /\ Answer(p, request[p].row)
    /\ UNCHANGED <<tables, page>>

(* The unique index refuses the number: IntegrityError, answered with 409. *)
RejectSave(p) ==
    LET c == page[p].chapter
        row == request[p].row
    IN
    /\ request[p].step = "locked" /\ request[p].op = "save"
    /\ ~KeepsContent(c, row, request[p].text)
    /\ ~RevisionNumberFree(c, row.latest + 1)
    /\ Rollback(p)

(* PATCH /chapters/{id}: refused with 409 unless the page's version is current. *)
BeginMetadata(p, b) ==
    LET c == page[p].chapter IN
    /\ Begin(p, [Idle EXCEPT !.step = "locked", !.op = "metadata", !.brief = b,
                             !.row = chapter[c]])
    /\ page[p].version = chapter[c].version

FinishMetadata(p) ==
    LET c   == page[p].chapter
        row == request[p].row
    IN
    /\ request[p].step = "locked" /\ request[p].op = "metadata"
    /\ chapter' = [chapter EXCEPT ![c].brief = request[p].brief,
                                  ![c].version = row.version + 1]
    /\ Answer(p, [row EXCEPT !.brief = request[p].brief, !.version = @ + 1])
    /\ UNCHANGED <<revision, artifact, work, outbox, page>>

(* POST /chapters/{id}/revisions/{id}/publish, for the revision the page holds. *)
BeginPublish(p) ==
    /\ page[p].rev # 0
    /\ Begin(p, [Idle EXCEPT !.step = "locked", !.op = "publish",
                             !.row = chapter[page[p].chapter]])

(* The second lock, on the work, and the checks that follow it. *)
LockWork(p) ==
    LET r == revision[page[p].chapter][page[p].rev] IN
    /\ request[p].step = "locked" /\ request[p].op = "publish"
    /\ ~WorkLocked
    /\ \/ /\ r.canonical                \* rolled back; the objects are read again
          /\ Answer(p, Nothing)
          /\ UNCHANGED <<tables, page>>
       \/ /\ ~r.canonical /\ r.text \notin CleanTexts
          /\ Rollback(p)
       \/ /\ ~r.canonical /\ r.text \in CleanTexts
          /\ request' = [request EXCEPT ![p].step = "ready",
                                        ![p].sequence = work.sequence + 1]
          /\ UNCHANGED <<tables, page>>

FinishPublish(p) ==
    LET c   == page[p].chapter
        row == request[p].row
    IN
    /\ request[p].step = "ready"
    /\ StorePublication(c, page[p].rev, row, request[p].sequence)
    /\ Answer(p, [row EXCEPT !.latest = page[p].rev, !.status = "COMMITTED",
                             !.version = @ + 1])
    /\ UNCHANGED page

(* get_chapter after the commit: the revision comes from the database as it now is, *)
(* the chapter's own columns from the session's object.  The page replaces          *)
(* state.chapter; its editor and form stay as the author has them (Workspace).       *)
ReceiveAnswer(p) ==
    LET c   == page[p].chapter
        r   == request[p]
    IN
    /\ r.step = "answered"
    /\ page' = [page EXCEPT
           ![p].rev     = chapter[c].latest,
           ![p].version = IF r.row = Nothing THEN chapter[c].version ELSE r.row.version]
    /\ request' = [request EXCEPT ![p] = Idle]
    /\ UNCHANGED tables

(* The answer is lost on its way: the page keeps the state it asked with. *)
LoseAnswer(p) == request[p].step = "answered" /\ Rollback(p)

(* The process or its connection dies before the commit: the database rolls back. *)
Abort(p) == request[p].step \in {"locked", "ready"} /\ Rollback(p)

-------------------------------------------------------------------------------
(* The specification *)

Init ==
    /\ chapter = [c \in Chapters |-> NewChapter]
    /\ revision = [c \in Chapters |-> [n \in RevisionNumbers |-> Nothing]]
    /\ artifact = [t \in Texts |-> "ABSENT"]
    /\ work = [sequence |-> 0, version |-> 1]
    /\ outbox = {}
    /\ page = [p \in Pages |-> ClosedPage]
    /\ request = [p \in Pages |-> Idle]

Finish(p) == FinishSave(p) \/ KeepContent(p) \/ RejectSave(p) \/ FinishMetadata(p)
                 \/ FinishPublish(p) \/ ReceiveAnswer(p)

(* Everything a page's request does except the commit of a publication, to which     *)
(* ChapterGeneration adds what happens to the run.                                    *)
PageStep(p) ==
    \/ \E c \in Chapters : OpenChapter(p, c)
    \/ \E t \in Texts : BeginSave(p, t)
    \/ \E b \in Briefs : BeginMetadata(p, b)
    \/ BeginPublish(p)
    \/ FinishSave(p) \/ KeepContent(p) \/ RejectSave(p)
    \/ FinishMetadata(p)
    \/ LockWork(p)
    \/ ReceiveAnswer(p) \/ LoseAnswer(p)
    \/ Abort(p)

Next == \E p \in Pages : PageStep(p) \/ FinishPublish(p)

(* A handler that holds what it needs goes on (WF).  Row locks are granted in the   *)
(* order they are asked for, so a publication that waits for the work, and a save    *)
(* whose new artifact does, are not overtaken there for ever (SF).                   *)
Fairness == \A p \in Pages :
    WF_vars(Finish(p)) /\ SF_vars(FinishSave(p)) /\ SF_vars(LockWork(p))

Spec == Init /\ [][Next]_vars

FairSpec == Spec /\ Fairness

-------------------------------------------------------------------------------
(* Properties *)

(* Every row has its columns' types. *)
TypeOK ==
    /\ chapter \in [Chapters -> ChapterRows]
    /\ revision \in [Chapters -> [RevisionNumbers -> RevisionRows \cup {Nothing}]]
    /\ artifact \in [Texts -> ArtifactStatuses]
    /\ work \in [sequence : Nat, version : Nat]
    /\ outbox \in SUBSET OutboxRows
    /\ page \in [Pages -> PageStates]
    /\ request \in [Pages -> Requests]

(* Every committed change of a chapter row raises its version by one, so a version  *)
(* names one state of the row and the expected_version check means what it says     *)
(* (docs/CORE_DATA_MODEL.md:16).                                                    *)
VersionCountsChanges ==
    [][\A c \in Chapters : chapter'[c] # chapter[c] =>
           chapter'[c].version = chapter[c].version + 1]_vars

(* A save that becomes a revision comes from a page that shows the very draft it is    *)
(* stored over, at the time it is stored: however requests wait, are lost or are sent  *)
(* again, no text is put over a revision its author has not seen.                      *)
SavesKnowTheirDraft ==
    [][\A c \in Chapters, n \in RevisionNumbers :
           (revision[c][n] = Nothing /\ revision'[c][n] # Nothing
                /\ revision'[c][n].source = "HUMAN") =>
               /\ chapter[c].latest = n - 1
               /\ \E p \in Pages : /\ page[p].chapter = c /\ page[p].rev = n - 1
                                   /\ request[p].text = revision'[c][n].text]_vars

(* The commit sequence of the work counts publications across its chapters: each   *)
(* number up to it belongs to exactly one outbox event, and a revision that carries *)
(* a number is the one the event of that number announced.                          *)
CommitLedger ==
    /\ \A e \in outbox : e.sequence \in 1 .. work.sequence
    /\ \A s \in 1 .. work.sequence : \E e \in outbox : e.sequence = s
    /\ \A e, f \in outbox : e.sequence = f.sequence => e = f
    /\ \A c \in Chapters, n \in RevisionNumbers :
           (revision[c][n] # Nothing /\ revision[c][n].commit # 0) =>
               [chapter |-> c, revision |-> n, sequence |-> revision[c][n].commit] \in outbox

(* A chapter has at most one canonical revision; it is the one its newest event     *)
(* announced, its prose passed the gate, and the row says COMMITTED exactly while    *)
(* the working draft is that revision.                                               *)
CanonicalRevision ==
    \A c \in Chapters : \A n \in RevisionNumbers :
        LET r == revision[c][n] IN
        /\ (r # Nothing /\ r.canonical) =>
               /\ r.commit # 0
               /\ \A e \in outbox : e.chapter = c => e.sequence <= r.commit
               /\ r.text \in CleanTexts /\ artifact[r.text] = "GATE_PASSED"
        /\ (r # Nothing /\ chapter[c].latest = n) =>
               (chapter[c].status = "COMMITTED" <=> r.canonical)

(* At most one request holds a chapter, at most one holds the work, and what a request *)
(* read under its locks is still what the tables say.                                 *)
LockedRowsAreCurrent ==
    /\ \A p, q \in Pages, c \in Chapters : HoldsChapter(p, c) /\ HoldsChapter(q, c) => p = q
    /\ \A p, q \in Pages :
           request[p].step = "ready" /\ request[q].step = "ready" => p = q
    /\ \A p \in Pages : request[p].step \in {"locked", "ready"} =>
           request[p].row = chapter[page[p].chapter]
    /\ \A p \in Pages : request[p].step = "ready" =>
           request[p].sequence = work.sequence + 1

(* A request does not hold its locks for ever: whoever else runs, it is answered or  *)
(* refused.                                                                          *)
EveryRequestEnds == \A p \in Pages : request[p].step # "idle" ~> request[p].step = "idle"

(* The tables implement the ledger the service promises: histories that only grow,   *)
(* one log of publications, one canonical revision.                                  *)
Publication(s) == LET e == CHOOSE e \in outbox : e.sequence = s IN <<e.chapter, e.revision>>

Ledger == INSTANCE RevisionLedger WITH
    history   <- [c \in Chapters |-> [n \in 1 .. Highest(c) |-> revision[c][n].text]],
    canonical <- [c \in Chapters |->
                     IF \E n \in RevisionNumbers : revision[c][n] # Nothing
                                                   /\ revision[c][n].canonical
                     THEN CHOOSE n \in RevisionNumbers : revision[c][n] # Nothing
                                                         /\ revision[c][n].canonical
                     ELSE 0],
    log       <- [s \in 1 .. work.sequence |-> Publication(s)]

LedgerSpec == Ledger!Spec

(* A page that holds the chapter as it is can save a new text: the next number is     *)
(* free (docs/WRITING_WORKSPACE.md:54-55: only an expired page is refused).           *)
FreshPageCanSave ==
    \A c \in Chapters : chapter[c].latest < MaxRevisions =>
        RevisionNumberFree(c, chapter[c].latest + 1)
===============================================================================

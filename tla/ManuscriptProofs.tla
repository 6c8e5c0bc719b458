--------------------------- MODULE ManuscriptProofs ---------------------------
(***************************************************************************)
(* The safety properties of Manuscript, for any chapters, pages, texts and *)
(* bounds.  The invariant has two layers.  Consistent says that the locks  *)
(* do their work: what a request holds is what the tables hold, and the    *)
(* revisions that rows, pages and requests point to exist.  On top of it   *)
(* LedgerInv says that publications form a ledger.  Only three actions     *)
(* write tables (FinishSave, FinishMetadata, FinishPublish); all others    *)
(* are quiet for the second layer.  The two together make the tables an    *)
(* implementation of RevisionLedger.                                       *)
(***************************************************************************)
EXTENDS Manuscript, SequenceTheorems, WellFoundedInduction, TLAPS

(* The working draft of a chapter is a revision it has. *)
LatestExists ==
    \A c \in Chapters : chapter[c].latest # 0 => revision[c][chapter[c].latest] # Nothing

(* A page that holds a revision holds one its chapter has. *)
PageRevisionExists ==
    \A p \in Pages : page[p].rev # 0 =>
        /\ page[p].chapter \in Chapters
        /\ revision[page[p].chapter][page[p].rev] # Nothing

(* What a request carries fits the operation it is in. *)
RequestsCarryData ==
    \A p \in Pages :
        /\ request[p].step # "idle" => page[p].chapter \in Chapters
        /\ (request[p].step = "locked" /\ request[p].op = "save") =>
               request[p].text \in Texts /\ request[p].row.latest < MaxRevisions
        /\ (request[p].step = "locked" /\ request[p].op = "metadata") =>
               request[p].brief \in Briefs
        /\ (request[p].step = "locked" /\ request[p].op = "publish") => page[p].rev # 0
        /\ request[p].step = "ready" =>
               /\ page[p].rev # 0
               /\ revision[page[p].chapter][page[p].rev].text \in CleanTexts
               /\ ~revision[page[p].chapter][page[p].rev].canonical

(* The locks do their work and every reference has its row. *)
Consistent == /\ TypeOK
              /\ LockedRowsAreCurrent
              /\ LatestExists
              /\ PageRevisionExists
              /\ RequestsCarryData

(* The numbers of a chapter's revisions have no gap. *)
NumbersHaveNoGap ==
    \A c \in Chapters, m, n \in RevisionNumbers :
        (m < n /\ revision[c][n] # Nothing) => revision[c][m] # Nothing

(* The two halves of CanonicalRevision: what a canonical revision is, and what the     *)
(* chapter row says of it.  The second half is the web requests' alone: a worker that  *)
(* fails or a run that begins also writes the status.                                  *)
CanonicalIsNewest ==
    \A c \in Chapters : \A n \in RevisionNumbers :
        LET r == revision[c][n] IN
        (r # Nothing /\ r.canonical) =>
            /\ r.commit # 0
            /\ \A e \in outbox : e.chapter = c => e.sequence <= r.commit
            /\ r.text \in CleanTexts /\ artifact[r.text] = "GATE_PASSED"

StatusFollowsDraft ==
    \A c \in Chapters : \A n \in RevisionNumbers :
        (revision[c][n] # Nothing /\ chapter[c].latest = n) =>
            (chapter[c].status = "COMMITTED" <=> revision[c][n].canonical)

(* The revisions and publications of the work form a ledger; chapter rows, pages and    *)
(* requests do not appear in it.                                                        *)
LedgerInv == CommitLedger /\ CanonicalIsNewest /\ NumbersHaveNoGap

(* The inductive invariant. *)
IInv == Consistent /\ LedgerInv /\ StatusFollowsDraft

-------------------------------------------------------------------------------

(* The empty database satisfies the invariant. *)
LEMMA InitIInv == Init => IInv
  <1> SUFFICES ASSUME Init PROVE IInv
    OBVIOUS
  <1>1. TypeOK
    BY ManuscriptAssumption DEF Init, TypeOK, ChapterRows, ChapterStatuses, NewChapter,
       ArtifactStatuses, PageStates, ClosedPage, Requests, Idle, RevisionNumbers
  <1>2. LockedRowsAreCurrent
    BY DEF Init, LockedRowsAreCurrent, HoldsChapter, Idle
  <1>3. LatestExists /\ PageRevisionExists /\ RequestsCarryData
    BY DEF Init, LatestExists, PageRevisionExists, RequestsCarryData, NewChapter,
       ClosedPage, Idle
  <1>4. CommitLedger
    BY DEF Init, CommitLedger
  <1>5. CanonicalIsNewest /\ StatusFollowsDraft /\ NumbersHaveNoGap
    BY DEF Init, CanonicalIsNewest, StatusFollowsDraft, NumbersHaveNoGap
  <1> QED
    BY <1>1, <1>2, <1>3, <1>4, <1>5 DEF IInv, LedgerInv, Consistent

(* GET /chapters/{id} keeps locks and references (get_chapter). *)
LEMMA OpenChapterStep ==
  ASSUME Consistent, NEW p \in Pages, NEW c \in Chapters, OpenChapter(p, c)
  PROVE  Consistent'
  <1> USE DEF OpenChapter, tables
  <1>1. TypeOK'
    BY DEF Consistent, TypeOK, PageStates, ChapterRows
  <1>2. LockedRowsAreCurrent'
    BY DEF Consistent, TypeOK, LockedRowsAreCurrent, HoldsChapter, Idle
  <1>3. LatestExists' /\ PageRevisionExists'
    BY DEF Consistent, TypeOK, LatestExists, PageRevisionExists, PageStates
  <1>4. RequestsCarryData'
    BY DEF Consistent, TypeOK, RequestsCarryData, Idle
  <1> QED
    BY <1>1, <1>2, <1>3, <1>4 DEF Consistent

(* So does a transaction that is rolled back. *)
LEMMA RollbackStep ==
  ASSUME Consistent, NEW p \in Pages, Rollback(p)
  PROVE  Consistent'
  <1> USE DEF Rollback, tables
  <1>1. TypeOK'
    BY DEF Consistent, TypeOK, Requests, Idle
  <1>2. LockedRowsAreCurrent'
    BY DEF Consistent, TypeOK, LockedRowsAreCurrent, HoldsChapter, Idle
  <1>3. LatestExists' /\ PageRevisionExists'
    BY DEF Consistent, TypeOK, LatestExists, PageRevisionExists, PageStates
  <1>4. RequestsCarryData'
    BY DEF Consistent, TypeOK, RequestsCarryData, Idle
  <1> QED
    BY <1>1, <1>2, <1>3, <1>4 DEF Consistent

(* An update of some columns of a row yields a row. *)
LEMMA ChapterRowUpdate ==
  ASSUME NEW row \in ChapterRows, NEW n \in 0 .. MaxRevisions, NEW s \in ChapterStatuses,
         NEW v \in Nat
  PROVE  [row EXCEPT !.latest = n, !.status = s, !.version = v] \in ChapterRows
  BY DEF ChapterRows

(* So does the update of the brief. *)
LEMMA BriefUpdate ==
  ASSUME NEW row \in ChapterRows, NEW b \in Briefs, NEW v \in Nat
  PROVE  [row EXCEPT !.brief = b, !.version = v] \in ChapterRows
  BY DEF ChapterRows

(* An update of the work's counters yields a row of works. *)
LEMMA WorkUpdate ==
  ASSUME NEW w \in [sequence : Nat, version : Nat], NEW s \in Nat, NEW v \in Nat
  PROVE  [w EXCEPT !.sequence = s, !.version = v] \in [sequence : Nat, version : Nat]
  OBVIOUS

(* A request that is answered is a request. *)
LEMMA AnswerUpdate ==
  ASSUME NEW r \in Requests, NEW row \in ChapterRows \cup {Nothing}
  PROVE  [r EXCEPT !.step = "answered", !.row = row, !.sequence = 0] \in Requests
  BY DEF Requests

(* So is one that has locked the work. *)
LEMMA ReadyUpdate ==
  ASSUME NEW r \in Requests, NEW s \in Nat
  PROVE  [r EXCEPT !.step = "ready", !.sequence = s] \in Requests
  BY DEF Requests

(* The commit of a save (save_chapter_content): the row it writes from is current. *)
LEMMA FinishSaveStep ==
  ASSUME Consistent, NEW p \in Pages, FinishSave(p)
  PROVE  Consistent'
  <1> DEFINE c == page[p].chapter
             row == request[p].row
             n == row.latest + 1
             new == [row EXCEPT !.latest = n, !.status = "DRAFT", !.version = @ + 1]
             stored == [text |-> request[p].text, parent |-> row.latest, source |-> "HUMAN",
                        run |-> Nothing, canonical |-> FALSE, commit |-> 0]
  <1>1. /\ c \in Chapters /\ row = chapter[c] /\ row \in ChapterRows
        /\ row.latest \in 0 .. MaxRevisions /\ n \in RevisionNumbers
        /\ request[p].text \in Texts
    BY ManuscriptAssumption DEF FinishSave, Consistent, LockedRowsAreCurrent,
       RequestsCarryData, TypeOK, ChapterRows, RevisionNumbers
  <1>2. new \in ChapterRows
    <2>1. row.version + 1 \in Nat /\ n \in 0 .. MaxRevisions /\ "DRAFT" \in ChapterStatuses
      BY <1>1, ManuscriptAssumption DEF ChapterRows, RevisionNumbers, ChapterStatuses
    <2> QED
      BY <1>1, <2>1, ChapterRowUpdate
  <1>3. /\ stored \in RevisionRows
        /\ revision' = [revision EXCEPT ![c] = [@ EXCEPT ![n] = stored]]
    BY <1>1 DEF FinishSave, StoreRevision, RevisionRows
  <1>4. chapter' = [chapter EXCEPT ![c] = new]
    BY <1>1 DEF FinishSave, StoreRevision, Column, Consistent, TypeOK, ChapterRows
  <1>5. request' = [request EXCEPT ![p] = [@ EXCEPT !.step = "answered", !.row = new,
                                                   !.sequence = 0]]
    BY DEF FinishSave, Answer
  <1>6. TypeOK'
    <2>1. chapter' \in [Chapters -> ChapterRows]
      BY <1>1, <1>2, <1>4 DEF Consistent, TypeOK
    <2>2. revision' \in [Chapters -> [RevisionNumbers -> RevisionRows \cup {Nothing}]]
      BY <1>1, <1>3 DEF Consistent, TypeOK
    <2>3. artifact' \in [Texts -> ArtifactStatuses]
      BY <1>1 DEF FinishSave, StoreRevision, Consistent, TypeOK, ArtifactStatuses
    <2>4. page' \in [Pages -> PageStates]
      BY DEF FinishSave, Consistent, TypeOK
    <2>5. request' \in [Pages -> Requests]
      BY <1>2, <1>5, AnswerUpdate DEF Consistent, TypeOK
    <2> QED
      BY <2>1, <2>2, <2>3, <2>4, <2>5 DEF FinishSave, Consistent, TypeOK
  <1>7. LockedRowsAreCurrent'
    BY <1>1, <1>4, <1>5 DEF FinishSave, Consistent, TypeOK, LockedRowsAreCurrent,
       HoldsChapter, PageStates, Requests
  <1>8. LatestExists'
    BY <1>1, <1>3, <1>4, NullAssumption DEF Consistent, TypeOK, LatestExists, ChapterRows
  <1>9. PageRevisionExists'
    <2>1. \A q \in Pages : page'[q].rev = page[q].rev /\ page'[q].chapter = page[q].chapter
      BY DEF FinishSave
    <2>2. \A d \in Chapters, m \in RevisionNumbers :
              revision[d][m] # Nothing => revision'[d][m] # Nothing
      BY <1>1, <1>3, NullAssumption DEF Consistent, TypeOK
    <2>3. \A q \in Pages : page[q].rev # 0 => page[q].rev \in RevisionNumbers
      BY ManuscriptAssumption DEF Consistent, TypeOK, PageStates, RevisionNumbers
    <2> QED
      BY <2>1, <2>2, <2>3 DEF Consistent, PageRevisionExists
  <1>10. RequestsCarryData'
    BY <1>1, <1>3, <1>5, NullAssumption DEF FinishSave, StoreRevision, RevisionNumberFree,
       Consistent, TypeOK, PageRevisionExists, RequestsCarryData, PageStates, Requests
  <1> QED
    BY <1>6, <1>7, <1>8, <1>9, <1>10 DEF Consistent

(* Taking the chapter's lock: nobody else holds it, and the row read under it is the *)
(* one in the table.                                                                 *)
LEMMA BeginStep ==
  ASSUME Consistent, NEW p \in Pages, NEW r \in Requests, Begin(p, r),
         r.step = "locked", r.row = chapter[page[p].chapter],
         r.op = "save" => r.text \in Texts /\ chapter[page[p].chapter].latest < MaxRevisions,
         r.op = "metadata" => r.brief \in Briefs,
         r.op = "publish" => page[p].rev # 0
  PROVE  Consistent'
  <1> USE DEF Begin, tables
  <1>1. TypeOK'
    BY DEF Consistent, TypeOK
  <1>2. LockedRowsAreCurrent'
    BY DEF Consistent, TypeOK, LockedRowsAreCurrent, HoldsChapter, ChapterLocked, Idle
  <1>3. LatestExists' /\ PageRevisionExists'
    BY DEF Consistent, LatestExists, PageRevisionExists
  <1>4. RequestsCarryData'
    BY DEF Consistent, TypeOK, RequestsCarryData, PageStates
  <1> QED
    BY <1>1, <1>2, <1>3, <1>4 DEF Consistent

(* The save's check of expected_revision_number. *)
LEMMA BeginSaveStep ==
  ASSUME Consistent, NEW p \in Pages, NEW t \in Texts, BeginSave(p, t)
  PROVE  Consistent'
  <1> DEFINE r == [Idle EXCEPT !.step = "locked", !.op = "save", !.text = t,
                               !.row = chapter[page[p].chapter]]
  <1>1. Begin(p, r) /\ chapter[page[p].chapter].latest < MaxRevisions
    BY DEF BeginSave
  <1>2. r \in Requests /\ r.step = "locked" /\ r.op = "save" /\ r.text = t
            /\ r.row = chapter[page[p].chapter]
    BY <1>1 DEF Begin, Consistent, TypeOK, PageStates, Requests, Idle
  <1> HIDE DEF r
  <1> QED
    BY <1>1, <1>2, BeginStep

(* The update's check of expected_version. *)
LEMMA BeginMetadataStep ==
  ASSUME Consistent, NEW p \in Pages, NEW b \in Briefs, BeginMetadata(p, b)
  PROVE  Consistent'
  <1> DEFINE r == [Idle EXCEPT !.step = "locked", !.op = "metadata", !.brief = b,
                               !.row = chapter[page[p].chapter]]
  <1>1. Begin(p, r)
    BY DEF BeginMetadata
  <1>2. r \in Requests /\ r.step = "locked" /\ r.op = "metadata" /\ r.brief = b
            /\ r.row = chapter[page[p].chapter]
    BY <1>1 DEF Begin, Consistent, TypeOK, PageStates, Requests, Idle
  <1> HIDE DEF r
  <1> QED
    BY <1>1, <1>2, BeginStep

(* A publication that has locked its chapter. *)
LEMMA BeginPublishStep ==
  ASSUME Consistent, NEW p \in Pages, BeginPublish(p)
  PROVE  Consistent'
  <1> DEFINE r == [Idle EXCEPT !.step = "locked", !.op = "publish",
                               !.row = chapter[page[p].chapter]]
  <1>1. Begin(p, r) /\ page[p].rev # 0
    BY DEF BeginPublish
  <1>2. r \in Requests /\ r.step = "locked" /\ r.op = "publish"
            /\ r.row = chapter[page[p].chapter]
    BY <1>1 DEF Begin, Consistent, TypeOK, PageStates, Requests, Idle
  <1> HIDE DEF r
  <1> QED
    BY <1>1, <1>2, BeginStep

(* A save of the text the chapter already has. *)
LEMMA KeepContentStep ==
  ASSUME Consistent, NEW p \in Pages, KeepContent(p)
  PROVE  Consistent'
  <1> DEFINE row == request[p].row
  <1>1. /\ page[p].chapter \in Chapters /\ row = chapter[page[p].chapter]
        /\ row \in ChapterRows /\ row.latest \in 0 .. MaxRevisions
    BY DEF KeepContent, Consistent, LockedRowsAreCurrent, RequestsCarryData, TypeOK,
       ChapterRows
  <1>2. request' = [request EXCEPT ![p] = [@ EXCEPT !.step = "answered", !.row = row,
                                                   !.sequence = 0]]
    BY DEF KeepContent, Answer
  <1>3. UNCHANGED <<tables, page>>
    BY DEF KeepContent
  <1>4. TypeOK'
    <2>1. page' \in [Pages -> PageStates]
      BY <1>3 DEF Consistent, TypeOK
    <2>2. request' \in [Pages -> Requests]
      BY <1>1, <1>2, AnswerUpdate DEF Consistent, TypeOK
    <2> QED
      BY <1>3, <2>1, <2>2 DEF Consistent, TypeOK, tables
  <1>5. LockedRowsAreCurrent'
    BY <1>2, <1>3 DEF Consistent, TypeOK, LockedRowsAreCurrent, HoldsChapter, Requests,
       tables
  <1>6. LatestExists' /\ PageRevisionExists'
    BY <1>3 DEF Consistent, LatestExists, PageRevisionExists, tables
  <1>7. RequestsCarryData'
    BY <1>1, <1>2, <1>3 DEF Consistent, TypeOK, RequestsCarryData, Requests, tables
  <1> QED
    BY <1>4, <1>5, <1>6, <1>7 DEF Consistent

(* The commit of a metadata update (update_chapter_metadata). *)
LEMMA FinishMetadataStep ==
  ASSUME Consistent, NEW p \in Pages, FinishMetadata(p)
  PROVE  Consistent'
  <1> DEFINE c == page[p].chapter
             row == request[p].row
             new == [row EXCEPT !.brief = request[p].brief, !.version = @ + 1]
  <1>1. /\ c \in Chapters /\ row = chapter[c] /\ row \in ChapterRows
        /\ row.version \in Nat /\ request[p].brief \in Briefs
    BY DEF FinishMetadata, Consistent, LockedRowsAreCurrent, RequestsCarryData, TypeOK,
       ChapterRows
  <1>2. new \in ChapterRows
    BY <1>1, row.version + 1 \in Nat, BriefUpdate
  <1>3. chapter' = [chapter EXCEPT ![c] = new]
    BY <1>1 DEF FinishMetadata, Consistent, TypeOK, ChapterRows
  <1>4. request' = [request EXCEPT ![p] = [@ EXCEPT !.step = "answered", !.row = new,
                                                   !.sequence = 0]]
    BY DEF FinishMetadata, Answer
  <1>5. \A q \in Pages : page'[q].rev = page[q].rev /\ page'[q].chapter = page[q].chapter
    BY DEF FinishMetadata
  <1>6. TypeOK'
    <2>1. chapter' \in [Chapters -> ChapterRows]
      BY <1>1, <1>2, <1>3 DEF Consistent, TypeOK
    <2>2. page' \in [Pages -> PageStates]
      BY DEF FinishMetadata, Consistent, TypeOK
    <2>3. request' \in [Pages -> Requests]
      BY <1>2, <1>4, AnswerUpdate DEF Consistent, TypeOK
    <2> QED
      BY <2>1, <2>2, <2>3 DEF FinishMetadata, Consistent, TypeOK
  <1>7. LockedRowsAreCurrent'
    <2>1. request'[p].step = "answered" /\ \A q \in Pages \ {p} : request'[q] = request[q]
      BY <1>4 DEF Consistent, TypeOK, Requests
    <2>2. \A q \in Pages \ {p} : request[q].step \in {"locked", "ready"} =>
              page[q].chapter \in Chapters /\ page[q].chapter # c
      BY DEF FinishMetadata, Consistent, RequestsCarryData, LockedRowsAreCurrent, HoldsChapter
    <2>3. \A d \in Chapters \ {c} : chapter'[d] = chapter[d]
      BY <1>3 DEF Consistent, TypeOK
    <2>4. \A q \in Pages, d \in Chapters : HoldsChapter(q, d)' => HoldsChapter(q, d)
      BY <1>5, <2>1 DEF HoldsChapter
    <2>5. \A q \in Pages : request'[q].step \in {"locked", "ready"} =>
              request'[q].row = chapter'[page'[q].chapter]
      BY <1>5, <2>1, <2>2, <2>3 DEF Consistent, LockedRowsAreCurrent
    <2> QED
      BY <2>1, <2>4, <2>5 DEF FinishMetadata, Consistent, LockedRowsAreCurrent
  <1>8. LatestExists' /\ PageRevisionExists'
    BY <1>1, <1>3, <1>5 DEF FinishMetadata, Consistent, TypeOK, ChapterRows, LatestExists,
       PageRevisionExists
  <1>9. RequestsCarryData'
    BY <1>1, <1>4, <1>5 DEF FinishMetadata, Consistent, TypeOK, RequestsCarryData, Requests
  <1> QED
    BY <1>6, <1>7, <1>8, <1>9 DEF Consistent

(* The publication's second lock and the checks after it. *)
LEMMA LockWorkStep ==
  ASSUME Consistent, NEW p \in Pages, LockWork(p)
  PROVE  Consistent'
  <1> DEFINE r == revision[page[p].chapter][page[p].rev]
  <1>1. CASE Answer(p, Nothing) /\ UNCHANGED <<tables, page>>
    <2> USE <1>1 DEF Answer, tables
    <2>1. TypeOK'
      BY AnswerUpdate DEF Consistent, TypeOK
    <2>2. LockedRowsAreCurrent'
      BY DEF Consistent, TypeOK, LockedRowsAreCurrent, HoldsChapter, Requests
    <2>3. LatestExists' /\ PageRevisionExists'
      BY DEF Consistent, LatestExists, PageRevisionExists
    <2>4. RequestsCarryData'
      BY DEF LockWork, Consistent, TypeOK, RequestsCarryData, Requests
    <2> QED
      BY <2>1, <2>2, <2>3, <2>4 DEF Consistent
  <1>2. CASE Rollback(p)
    BY <1>2, RollbackStep
  <1>3. CASE /\ r.text \in CleanTexts /\ ~r.canonical
             /\ request' = [request EXCEPT ![p].step = "ready",
                                           ![p].sequence = work.sequence + 1]
             /\ UNCHANGED <<tables, page>>
    <2> USE <1>3 DEF tables
    <2>1. TypeOK'
      <3>1. work.sequence + 1 \in Nat
        BY DEF Consistent, TypeOK
      <3> QED
        BY <3>1, ReadyUpdate DEF Consistent, TypeOK
    <2>2. LockedRowsAreCurrent'
      BY DEF LockWork, Consistent, TypeOK, LockedRowsAreCurrent, HoldsChapter, WorkLocked,
         Requests
    <2>3. LatestExists' /\ PageRevisionExists'
      BY DEF Consistent, LatestExists, PageRevisionExists
    <2>4. RequestsCarryData'
      BY DEF LockWork, Consistent, TypeOK, RequestsCarryData, Requests
    <2> QED
      BY <2>1, <2>2, <2>3, <2>4 DEF Consistent
  <1> QED
    BY <1>1, <1>2, <1>3 DEF LockWork

(* The page takes over the answer, which names the latest revision of its chapter. *)
LEMMA ReceiveAnswerStep ==
  ASSUME Consistent, NEW p \in Pages, ReceiveAnswer(p)
  PROVE  Consistent'
  <1> DEFINE c == page[p].chapter
             v == IF request[p].row = Nothing THEN chapter[c].version ELSE request[p].row.version
  <1>1. /\ c \in Chapters /\ chapter[c].latest \in 0 .. MaxRevisions /\ v \in Nat
        /\ UNCHANGED tables
    BY DEF ReceiveAnswer, Consistent, RequestsCarryData, TypeOK, ChapterRows, Requests
  <1>2. page' = [page EXCEPT ![p] = [@ EXCEPT !.rev = chapter[c].latest, !.version = v]]
    BY DEF ReceiveAnswer
  <1>3. request' = [request EXCEPT ![p] = Idle]
    BY DEF ReceiveAnswer
  <1>4. /\ \A q \in Pages : page'[q].chapter = page[q].chapter
        /\ \A q \in Pages \ {p} : page'[q] = page[q]
        /\ page'[p].rev = chapter[c].latest
    BY <1>2 DEF Consistent, TypeOK, PageStates
  <1>5. TypeOK'
    <2>1. page' \in [Pages -> PageStates]
      BY <1>1, <1>2 DEF Consistent, TypeOK, PageStates
    <2>2. request' \in [Pages -> Requests]
      BY <1>3 DEF Consistent, TypeOK, Requests, Idle
    <2> QED
      BY <1>1, <2>1, <2>2 DEF Consistent, TypeOK, tables
  <1>6. LockedRowsAreCurrent'
    BY <1>1, <1>3, <1>4 DEF Consistent, TypeOK, LockedRowsAreCurrent, HoldsChapter, Idle,
       tables
  <1>7. LatestExists' /\ PageRevisionExists'
    BY <1>1, <1>4 DEF Consistent, LatestExists, PageRevisionExists, tables
  <1>8. RequestsCarryData'
    BY <1>1, <1>3, <1>4 DEF Consistent, TypeOK, RequestsCarryData, Idle, tables
  <1> QED
    BY <1>5, <1>6, <1>7, <1>8 DEF Consistent

(* The demotion clears one flag of every revision and nothing else. *)
LEMMA DemotedRows ==
  ASSUME NEW rows \in [RevisionNumbers -> RevisionRows \cup {Nothing}]
  PROVE  /\ Demoted(rows) \in [RevisionNumbers -> RevisionRows \cup {Nothing}]
         /\ \A n \in RevisionNumbers : (Demoted(rows)[n] = Nothing) <=> (rows[n] = Nothing)
         /\ \A n \in RevisionNumbers : rows[n] # Nothing =>
                /\ Demoted(rows)[n].canonical = FALSE
                /\ Demoted(rows)[n].text = rows[n].text
                /\ Demoted(rows)[n].run = rows[n].run
                /\ Demoted(rows)[n].commit = rows[n].commit
                /\ Demoted(rows)[n] \in RevisionRows
  <1>1. \A r \in RevisionRows :
            /\ [r EXCEPT !.canonical = FALSE] \in RevisionRows
            /\ [r EXCEPT !.canonical = FALSE].canonical = FALSE
            /\ [r EXCEPT !.canonical = FALSE].text = r.text
            /\ [r EXCEPT !.canonical = FALSE].run = r.run
            /\ [r EXCEPT !.canonical = FALSE].commit = r.commit
    BY DEF RevisionRows
  <1>2. ASSUME NEW n \in RevisionNumbers, rows[n] # Nothing
        PROVE  /\ Demoted(rows)[n].canonical = FALSE
               /\ Demoted(rows)[n].text = rows[n].text
               /\ Demoted(rows)[n].run = rows[n].run
               /\ Demoted(rows)[n].commit = rows[n].commit
               /\ Demoted(rows)[n] \in RevisionRows
    <2>1. Demoted(rows)[n] = [rows[n] EXCEPT !.canonical = FALSE]
      BY <1>2 DEF Demoted
    <2>2. rows[n] \in RevisionRows
      BY <1>2
    <2> QED
      BY <1>1, <2>1, <2>2
  <1>3. \A n \in RevisionNumbers : rows[n] = Nothing => Demoted(rows)[n] = Nothing
    BY DEF Demoted
  <1>4. Demoted(rows) = [n \in RevisionNumbers |-> Demoted(rows)[n]]
    BY DEF Demoted
  <1> QED
    BY <1>2, <1>3, <1>4, NullAssumption

(* What the commit of a publication leaves in the tables. *)
LEMMA PublicationShape ==
  ASSUME Consistent, NEW p \in Pages, FinishPublish(p)
  PROVE  LET c == page[p].chapter
             n == page[p].rev
             s == work.sequence + 1
         IN
         /\ c \in Chapters /\ n \in RevisionNumbers
         /\ revision[c][n] \in RevisionRows /\ revision[c][n].text \in CleanTexts
         /\ work.sequence \in Nat
         /\ request[p].row = chapter[c] /\ chapter[c] \in ChapterRows
         /\ ~revision[c][n].canonical
         /\ \A d \in Chapters \ {c} : revision'[d] = revision[d]
         /\ revision'[c][n] \in RevisionRows
         /\ revision'[c][n].text = revision[c][n].text
         /\ revision'[c][n].run = revision[c][n].run
         /\ revision'[c][n].canonical = TRUE
         /\ revision'[c][n].commit = s
         /\ \A m \in RevisionNumbers \ {n} :
                /\ revision[c][m] = Nothing => revision'[c][m] = Nothing
                /\ revision[c][m] # Nothing =>
                       /\ revision'[c][m] \in RevisionRows
                       /\ revision'[c][m].text = revision[c][m].text
                       /\ revision'[c][m].run = revision[c][m].run
                       /\ revision'[c][m].canonical = FALSE
                       /\ revision'[c][m].commit = revision[c][m].commit
         /\ chapter' = [chapter EXCEPT ![c] = [chapter[c] EXCEPT
                            !.latest = n, !.status = "COMMITTED", !.version = @ + 1]]
         /\ work' = [work EXCEPT !.sequence = s, !.version = @ + 1]
         /\ outbox' = outbox \cup {[chapter |-> c, revision |-> n, sequence |-> s]}
         /\ artifact' = [artifact EXCEPT ![revision[c][n].text] = "GATE_PASSED"]
  <1> DEFINE c == page[p].chapter
             n == page[p].rev
             s == work.sequence + 1
             rows == revision[c]
  <1>1. /\ c \in Chapters /\ n \in RevisionNumbers
        /\ rows[n] # Nothing /\ rows[n].text \in CleanTexts /\ ~rows[n].canonical
        /\ request[p].row = chapter[c] /\ chapter[c] \in ChapterRows
        /\ request[p].sequence = s /\ work.sequence \in Nat /\ s \in Nat
    BY ManuscriptAssumption DEF FinishPublish, Consistent, TypeOK, LockedRowsAreCurrent,
       PageRevisionExists, RequestsCarryData, PageStates, RevisionNumbers
  <1>2. rows \in [RevisionNumbers -> RevisionRows \cup {Nothing}] /\ rows[n] \in RevisionRows
    BY <1>1 DEF Consistent, TypeOK
  <1> DEFINE dem == Demoted(rows)
             seq == request[p].sequence
  <1>3. revision' = [revision EXCEPT ![c] =
            [dem EXCEPT ![n].canonical = TRUE, ![n].commit = seq]]
    BY DEF FinishPublish, StorePublication
  <1>4. \A d \in Chapters \ {c} : revision'[d] = revision[d]
    BY <1>3 DEF Consistent, TypeOK
  <1>5. revision'[c] = [dem EXCEPT ![n].canonical = TRUE, ![n].commit = seq]
    BY <1>1, <1>3 DEF Consistent, TypeOK
  <1>6. /\ dem \in [RevisionNumbers -> RevisionRows \cup {Nothing}]
        /\ \A m \in RevisionNumbers : (dem[m] = Nothing) <=> (rows[m] = Nothing)
        /\ \A m \in RevisionNumbers : rows[m] # Nothing =>
                /\ dem[m].canonical = FALSE
                /\ dem[m].text = rows[m].text
                /\ dem[m].run = rows[m].run
                /\ dem[m].commit = rows[m].commit
                /\ dem[m] \in RevisionRows
    BY <1>2, DemotedRows
  <1>7. seq = s /\ seq \in Nat
    BY <1>1
  <1> HIDE DEF dem, seq, rows, n, c
  <1>8. \A m \in RevisionNumbers \ {n} : revision'[c][m] = dem[m]
    BY <1>1, <1>5, <1>6
  <1>9. revision'[c][n] = [dem[n] EXCEPT !.canonical = TRUE, !.commit = seq]
    BY <1>1, <1>5, <1>6
  <1>10. /\ revision'[c][n] \in RevisionRows
         /\ revision'[c][n].text = rows[n].text
         /\ revision'[c][n].run = rows[n].run
         /\ revision'[c][n].canonical = TRUE
         /\ revision'[c][n].commit = seq
    <2>1. dem[n] \in RevisionRows /\ dem[n].text = rows[n].text /\ dem[n].run = rows[n].run
      BY <1>1, <1>6
    <2> QED
      BY <1>7, <1>9, <2>1 DEF RevisionRows
  <1>11. \A m \in RevisionNumbers \ {n} :
                /\ rows[m] = Nothing => revision'[c][m] = Nothing
                /\ rows[m] # Nothing =>
                       /\ revision'[c][m] \in RevisionRows
                       /\ revision'[c][m].text = rows[m].text
                       /\ revision'[c][m].run = rows[m].run
                       /\ revision'[c][m].canonical = FALSE
                       /\ revision'[c][m].commit = rows[m].commit
    BY <1>6, <1>8
  <1> USE DEF rows, n, c
  <1>12. chapter' = [chapter EXCEPT ![c] = [chapter[c] EXCEPT
                            !.latest = n, !.status = "COMMITTED", !.version = @ + 1]]
    BY <1>1 DEF FinishPublish, StorePublication, Consistent, TypeOK, ChapterRows
  <1>13. /\ work' = [work EXCEPT !.sequence = s, !.version = @ + 1]
         /\ outbox' = outbox \cup {[chapter |-> c, revision |-> n, sequence |-> s]}
         /\ artifact' = [artifact EXCEPT ![rows[n].text] = "GATE_PASSED"]
    BY <1>1 DEF FinishPublish, StorePublication
  <1> QED
    BY <1>1, <1>2, <1>4, <1>7, <1>10, <1>11, <1>12, <1>13

(* A publication adds and removes no revision, and changes no text and no author. *)
LEMMA PublicationKeeps ==
  ASSUME Consistent, NEW p \in Pages, FinishPublish(p)
  PROVE  \A d \in Chapters, m \in RevisionNumbers :
             /\ revision'[d][m] # Nothing <=> revision[d][m] # Nothing
             /\ revision[d][m] # Nothing => /\ revision'[d][m] \in RevisionRows
                                            /\ revision'[d][m].text = revision[d][m].text
                                            /\ revision'[d][m].run = revision[d][m].run
  <1> SUFFICES ASSUME NEW d \in Chapters, NEW m \in RevisionNumbers
               PROVE  /\ revision'[d][m] # Nothing <=> revision[d][m] # Nothing
                      /\ revision[d][m] # Nothing =>
                             /\ revision'[d][m] \in RevisionRows
                             /\ revision'[d][m].text = revision[d][m].text
                             /\ revision'[d][m].run = revision[d][m].run
    OBVIOUS
  <1> DEFINE c == page[p].chapter
             n == page[p].rev
  <1>1. CASE d # c
    <2>1. revision'[d] = revision[d]
      BY <1>1, PublicationShape
    <2> QED
      BY <2>1 DEF Consistent, TypeOK
  <1>2. CASE d = c /\ m = n
    BY <1>2, PublicationShape, NullAssumption
  <1>3. CASE d = c /\ m # n
    <2>1. /\ revision[c][m] = Nothing => revision'[c][m] = Nothing
          /\ revision[c][m] # Nothing => /\ revision'[c][m] \in RevisionRows
                                         /\ revision'[c][m].text = revision[c][m].text
                                         /\ revision'[c][m].run = revision[c][m].run
      BY <1>3, PublicationShape
    <2> QED
      BY <1>3, <2>1, NullAssumption
  <1> QED
    BY <1>1, <1>2, <1>3

(* The commit of a publication (publish_revision). *)
LEMMA FinishPublishStep ==
  ASSUME Consistent, NEW p \in Pages, FinishPublish(p)
  PROVE  Consistent'
  <1> DEFINE c == page[p].chapter
             n == page[p].rev
             new == [chapter[c] EXCEPT !.latest = n, !.status = "COMMITTED", !.version = @ + 1]
  <1>1. /\ c \in Chapters /\ n \in RevisionNumbers /\ request[p].row = chapter[c]
        /\ chapter[c] \in ChapterRows /\ revision[c][n] \in RevisionRows
        /\ chapter' = [chapter EXCEPT ![c] = new]
    BY PublicationShape
  <1>2. new \in ChapterRows
    <2>1. chapter[c].version + 1 \in Nat /\ n \in 0 .. MaxRevisions
              /\ "COMMITTED" \in ChapterStatuses
      BY <1>1, ManuscriptAssumption DEF ChapterRows, RevisionNumbers, ChapterStatuses
    <2> QED
      BY <1>1, <2>1, ChapterRowUpdate
  <1>3. request' = [request EXCEPT ![p] = [@ EXCEPT !.step = "answered", !.row = new,
                                                   !.sequence = 0]]
    BY <1>1 DEF FinishPublish, Answer
  <1>4. \A d \in Chapters, m \in RevisionNumbers :
            /\ revision'[d][m] # Nothing <=> revision[d][m] # Nothing
            /\ revision[d][m] # Nothing => /\ revision'[d][m] \in RevisionRows
                                           /\ revision'[d][m].text = revision[d][m].text
    BY PublicationKeeps
  <1>5. TypeOK'
    <2>1. chapter' \in [Chapters -> ChapterRows]
      BY <1>1, <1>2 DEF Consistent, TypeOK
    <2>2. revision' \in [Chapters -> [RevisionNumbers -> RevisionRows \cup {Nothing}]]
      <3>1. revision' = [revision EXCEPT ![c] =
                [Demoted(revision[c]) EXCEPT ![n].canonical = TRUE,
                                             ![n].commit = request[p].sequence]]
        BY DEF FinishPublish, StorePublication
      <3>2. Demoted(revision[c]) \in [RevisionNumbers -> RevisionRows \cup {Nothing}]
        BY <1>1, DemotedRows DEF Consistent, TypeOK
      <3>3. revision'[c] = [m \in RevisionNumbers |-> revision'[c][m]]
        BY <1>1, <3>1, <3>2 DEF Consistent, TypeOK
      <3>4. revision'[c] \in [RevisionNumbers -> RevisionRows \cup {Nothing}]
        BY <1>1, <1>4, <3>3
      <3> QED
        BY <1>1, <3>1, <3>4 DEF Consistent, TypeOK
    <2>3. artifact' \in [Texts -> ArtifactStatuses]
      <3>1. artifact' = [artifact EXCEPT ![revision[c][n].text] = "GATE_PASSED"]
        BY PublicationShape
      <3> QED
        BY <3>1 DEF Consistent, TypeOK, ArtifactStatuses
    <2>4. work' \in [sequence : Nat, version : Nat]
      <3>1. work.sequence + 1 \in Nat /\ work.version + 1 \in Nat
        BY DEF Consistent, TypeOK
      <3>2. work' = [work EXCEPT !.sequence = work.sequence + 1, !.version = work.version + 1]
        BY PublicationShape
      <3> QED
        BY <3>1, <3>2, WorkUpdate DEF Consistent, TypeOK
    <2>5. outbox' \in SUBSET OutboxRows
      <3>1. work.sequence + 1 \in Nat
        BY DEF Consistent, TypeOK
      <3>2. [chapter |-> c, revision |-> n, sequence |-> work.sequence + 1] \in OutboxRows
        BY <1>1, <3>1 DEF OutboxRows
      <3>3. outbox' = outbox \cup
                {[chapter |-> c, revision |-> n, sequence |-> work.sequence + 1]}
        BY PublicationShape
      <3> QED
        BY <3>2, <3>3 DEF Consistent, TypeOK
    <2>6. request' \in [Pages -> Requests]
      BY <1>2, <1>3, AnswerUpdate DEF Consistent, TypeOK
    <2> QED
      BY <2>1, <2>2, <2>3, <2>4, <2>5, <2>6 DEF FinishPublish, Consistent, TypeOK
  <1>6. LockedRowsAreCurrent'
    <2>1. request'[p].step = "answered" /\ \A q \in Pages \ {p} : request'[q] = request[q]
      BY <1>3 DEF Consistent, TypeOK, Requests
    <2>2. \A q \in Pages \ {p} :
              /\ request[q].step # "ready"
              /\ request[q].step = "locked" =>
                     page[q].chapter \in Chapters /\ page[q].chapter # c
      BY DEF FinishPublish, Consistent, RequestsCarryData, LockedRowsAreCurrent, HoldsChapter
    <2>3. \A d \in Chapters \ {c} : chapter'[d] = chapter[d]
      BY <1>1 DEF Consistent, TypeOK
    <2>4. \A q \in Pages, d \in Chapters : HoldsChapter(q, d)' => HoldsChapter(q, d)
      BY <2>1 DEF FinishPublish, HoldsChapter
    <2>5. \A q \in Pages : request'[q].step \in {"locked", "ready"} =>
              request'[q].row = chapter'[page'[q].chapter]
      BY <2>1, <2>2, <2>3 DEF FinishPublish, Consistent, LockedRowsAreCurrent
    <2> QED
      BY <2>1, <2>2, <2>4, <2>5 DEF Consistent, LockedRowsAreCurrent
  <1>7. LatestExists'
    <2>1. chapter'[c].latest = n /\ \A d \in Chapters \ {c} : chapter'[d] = chapter[d]
      BY <1>1 DEF Consistent, TypeOK, ChapterRows
    <2>2. \A d \in Chapters : chapter[d].latest # 0 => chapter[d].latest \in RevisionNumbers
      BY ManuscriptAssumption DEF Consistent, TypeOK, ChapterRows, RevisionNumbers
    <2> QED
      BY <1>1, <1>4, <2>1, <2>2, NullAssumption DEF Consistent, LatestExists
  <1>8. PageRevisionExists' /\ RequestsCarryData'
    <2>1. page' = page
      BY DEF FinishPublish
    <2>2. \A q \in Pages : page[q].rev # 0 => page[q].rev \in RevisionNumbers
      BY ManuscriptAssumption DEF Consistent, TypeOK, PageStates, RevisionNumbers
    <2>3. PageRevisionExists'
      BY <1>4, <2>1, <2>2 DEF Consistent, PageRevisionExists
    <2>4. request'[p].step = "answered" /\ \A q \in Pages \ {p} : request'[q] = request[q]
      BY <1>3 DEF Consistent, TypeOK, Requests
    <2>5. \A q \in Pages \ {p} : request[q].step # "ready"
      BY DEF FinishPublish, Consistent, LockedRowsAreCurrent
    <2>6. RequestsCarryData'
      BY <1>1, <2>1, <2>4, <2>5 DEF Consistent, RequestsCarryData
    <2> QED
      BY <2>3, <2>6
  <1> QED
    BY <1>5, <1>6, <1>7, <1>8 DEF Consistent

-------------------------------------------------------------------------------
(* The refinement mapping *)

(* Every nonempty set of natural numbers has a least element. *)
LEMMA LeastNumber ==
  ASSUME NEW S \in SUBSET Nat, S # {}
  PROVE  \E i \in S : \A j \in S : i <= j
  <1> DEFINE R == OpToRel(<, Nat)
  <1>1. IsWellFoundedOn(R, Nat)
    BY NatLessThanWellFounded
  <1>2. \A x, y \in Nat : <<y, x>> \in R <=> y < x
    BY DEF OpToRel
  <1> HIDE DEF R
  <1>3. PICK i \in S : \A j \in S : ~(<<j, i>> \in R)
    BY <1>1, WFMin
  <1>4. \A j \in S : i \in Nat /\ j \in Nat /\ ~(j < i)
    BY <1>2, <1>3
  <1> QED
    BY <1>4

(* A function on 1 .. n is a sequence of length n. *)
LEMMA SeqOfFunction ==
  ASSUME NEW S, NEW n \in Nat, NEW f \in [1 .. n -> S]
  PROVE  f \in Seq(S) /\ Len(f) = n
  OBVIOUS

LEMMA AppendShape ==
  ASSUME NEW S, NEW n \in Nat, NEW f \in [1 .. n -> S], NEW e \in S,
         NEW g \in [1 .. n + 1 -> S], g[n + 1] = e, \A i \in 1 .. n : g[i] = f[i]
  PROVE  g = Append(f, e)
  <1>1. f \in Seq(S) /\ Len(f) = n /\ g \in Seq(S) /\ Len(g) = n + 1
    BY SeqOfFunction
  <1>2. /\ Append(f, e) \in Seq(S) /\ Len(Append(f, e)) = n + 1
        /\ \A i \in 1 .. n : Append(f, e)[i] = f[i]
        /\ Append(f, e)[n + 1] = e
    BY <1>1, AppendProperties
  <1>3. \A i \in 1 .. n + 1 : Append(f, e)[i] = g[i]
    BY <1>2
  <1> QED
    BY <1>1, <1>2, <1>3, SeqEqual

(* The mapping of Manuscript, as functions of the rows. *)
Top(rows) == CHOOSE n \in 0 .. MaxRevisions :
                 /\ n = 0 \/ rows[n] # Nothing
                 /\ \A m \in RevisionNumbers : m > n => rows[m] = Nothing

CanonicalOf(rows) ==
    IF \E n \in RevisionNumbers : rows[n] # Nothing /\ rows[n].canonical
    THEN CHOOSE n \in RevisionNumbers : rows[n] # Nothing /\ rows[n].canonical
    ELSE 0

EventAt(events, s) == CHOOSE e \in events : e.sequence = s

HistoryBar == [c \in Chapters |-> [n \in 1 .. Top(revision[c]) |-> revision[c][n].text]]

CanonicalBar == [c \in Chapters |-> CanonicalOf(revision[c])]

LogBar == [s \in 1 .. work.sequence |->
               <<EventAt(outbox, s).chapter, EventAt(outbox, s).revision>>]

(* The highest number is where the rows end. *)
LEMMA TopIs ==
  ASSUME NEW rows, NEW h \in 0 .. MaxRevisions,
         \A n \in RevisionNumbers : rows[n] # Nothing <=> n <= h
  PROVE  Top(rows) = h
  <1> DEFINE P(n) == /\ n = 0 \/ rows[n] # Nothing
                     /\ \A m \in RevisionNumbers : m > n => rows[m] = Nothing
  <1>1. P(h)
    BY ManuscriptAssumption DEF RevisionNumbers
  <1>2. ASSUME NEW n \in 0 .. MaxRevisions, P(n) PROVE n = h
    <2>1. n = 0 \/ n \in RevisionNumbers
      BY ManuscriptAssumption DEF RevisionNumbers
    <2>2. n <= h
      BY <1>2, <2>1, ManuscriptAssumption
    <2>3. h = 0 \/ (h \in RevisionNumbers /\ rows[h] # Nothing)
      BY ManuscriptAssumption DEF RevisionNumbers
    <2> QED
      BY <1>2, <2>2, <2>3, ManuscriptAssumption
  <1> HIDE DEF P
  <1>3. (CHOOSE n \in 0 .. MaxRevisions : P(n)) = h
    BY <1>1, <1>2
  <1> QED
    BY <1>3 DEF Top, P

LEMMA TopIsTop ==
  ASSUME NEW rows,
         \A m, n \in RevisionNumbers : (m < n /\ rows[n] # Nothing) => rows[m] # Nothing
  PROVE  /\ Top(rows) \in 0 .. MaxRevisions
         /\ \A n \in RevisionNumbers : rows[n] # Nothing <=> n <= Top(rows)
  <1> DEFINE T == {k \in Nat : \A m \in RevisionNumbers : m > k => rows[m] = Nothing}
  <1>1. MaxRevisions \in T
    BY ManuscriptAssumption DEF RevisionNumbers
  <1>2. PICK h \in T : \A k \in T : h <= k
    BY <1>1, LeastNumber
  <1>3. h \in 0 .. MaxRevisions
    BY <1>1, <1>2, ManuscriptAssumption
  <1>4. h = 0 \/ rows[h] # Nothing
    <2> SUFFICES ASSUME h # 0, rows[h] = Nothing PROVE FALSE
      OBVIOUS
    <2>1. h - 1 \in Nat
      BY <1>3, ManuscriptAssumption
    <2>2. \A m \in RevisionNumbers : m > h - 1 => m = h \/ m > h
      BY <1>3, ManuscriptAssumption DEF RevisionNumbers
    <2>3. h - 1 \in T
      BY <1>2, <2>1, <2>2
    <2> QED
      BY <1>2, <1>3, <2>3, ManuscriptAssumption
  <1>5. \A n \in RevisionNumbers : rows[n] # Nothing <=> n <= h
    <2> TAKE n \in RevisionNumbers
    <2>1. n > h => rows[n] = Nothing
      BY <1>2
    <2>2. n < h => h \in RevisionNumbers /\ rows[h] # Nothing
      BY <1>3, <1>4, ManuscriptAssumption DEF RevisionNumbers
    <2>3. n < h => rows[n] # Nothing
      BY <2>2
    <2>4. n \in Nat /\ n # 0 /\ h \in Nat
      BY <1>3, ManuscriptAssumption DEF RevisionNumbers
    <2> QED
      BY <1>4, <2>1, <2>3, <2>4
  <1> QED
    BY <1>3, <1>5, TopIs

(* The ledger's actions, said with the mapping above. *)
LEMMA AcceptMapping ==
  ASSUME NEW c, NEW t
  PROVE  Ledger!Accept(c, t) <=>
             /\ HistoryBar' = [HistoryBar EXCEPT ![c] = Append(@, t)]
             /\ CanonicalBar' = CanonicalBar /\ LogBar' = LogBar
  BY DEF Ledger!Accept, HistoryBar, CanonicalBar, LogBar, Top, CanonicalOf, EventAt, Highest,
     Publication

LEMMA PublishMapping ==
  ASSUME NEW c, NEW n
  PROVE  Ledger!Publish(c, n) <=>
             /\ n \in DOMAIN HistoryBar[c]
             /\ CanonicalBar[c] # n
             /\ CanonicalBar' = [CanonicalBar EXCEPT ![c] = n]
             /\ LogBar' = Append(LogBar, <<c, n>>)
             /\ HistoryBar' = HistoryBar
  BY DEF Ledger!Publish, HistoryBar, CanonicalBar, LogBar, Top, CanonicalOf, EventAt, Highest,
     Publication

LEMMA StutterMapping ==
  (UNCHANGED Ledger!vars) <=>
      HistoryBar' = HistoryBar /\ CanonicalBar' = CanonicalBar /\ LogBar' = LogBar
  BY DEF Ledger!vars, HistoryBar, CanonicalBar, LogBar, Top, CanonicalOf, EventAt, Highest,
     Publication

(* Which revision is canonical depends on the flags alone. *)
LEMMA CanonicalOfFlags ==
  ASSUME NEW rows, NEW others,
         \A n \in RevisionNumbers : (rows[n] # Nothing /\ rows[n].canonical)
                                        <=> (others[n] # Nothing /\ others[n].canonical)
  PROVE  CanonicalOf(rows) = CanonicalOf(others)
  BY DEF CanonicalOf

(* A sequence number that one event has names that event. *)
LEMMA EventAtIs ==
  ASSUME NEW events, NEW e \in events, \A f \in events : f.sequence = e.sequence => f = e
  PROVE  EventAt(events, e.sequence) = e
  BY DEF EventAt

-------------------------------------------------------------------------------
(* The three actions that write tables *)

(* VersionCountsChanges, of one step. *)
VersionStep == \A c \in Chapters : chapter'[c] # chapter[c] =>
                   chapter'[c].version = chapter[c].version + 1

(* A step of the abstract ledger. *)
LedgerStep == Ledger!Next \/ UNCHANGED Ledger!vars

LEMMA AcceptIsStep ==
  ASSUME NEW c \in Chapters, NEW t \in Texts, Ledger!Accept(c, t)
  PROVE  LedgerStep
  BY DEF LedgerStep, Ledger!Next

LEMMA PublishIsStep ==
  ASSUME NEW c \in Chapters, NEW n, Ledger!Publish(c, n)
  PROVE  LedgerStep
  BY DEF LedgerStep, Ledger!Next, Ledger!Publish

(* What leaves revisions and publications alone leaves the ledger alone. *)
LEMMA QuietLedger ==
  ASSUME LedgerInv, UNCHANGED <<revision, artifact, work, outbox>>
  PROVE  LedgerInv' /\ LedgerStep
  <1>1. LedgerInv'
    BY DEF LedgerInv, CommitLedger, CanonicalIsNewest, NumbersHaveNoGap
  <1>2. HistoryBar' = HistoryBar /\ CanonicalBar' = CanonicalBar /\ LogBar' = LogBar
    BY DEF HistoryBar, CanonicalBar, LogBar
  <1> QED
    BY <1>1, <1>2, StutterMapping DEF LedgerStep

(* save_chapter_content, whoever calls it and however old the row it holds: if the     *)
(* unique index lets the number pass, the text is the next of the chapter's history.   *)
LEMMA StoredRevision ==
  ASSUME Consistent, LedgerInv, NEW c \in Chapters, NEW row \in ChapterRows, NEW t \in Texts,
         NEW source \in {"HUMAN", "MODEL"}, NEW r \in Runs \cup {Nothing}, NEW gated,
         row.latest < MaxRevisions, row.latest # 0 => revision[c][row.latest] # Nothing,
         StoreRevision(c, row, t, source, r, gated), UNCHANGED <<work, outbox>>
  PROVE  LedgerInv' /\ Ledger!Accept(c, t)
  <1> DEFINE h == row.latest
             n == h + 1
             stored == [text |-> t, parent |-> h, source |-> source, run |-> r,
                        canonical |-> FALSE, commit |-> 0]
  <1>1. /\ h \in 0 .. MaxRevisions /\ n \in RevisionNumbers /\ revision[c][n] = Nothing
        /\ h = 0 \/ h \in RevisionNumbers
    BY ManuscriptAssumption DEF StoreRevision, RevisionNumberFree, ChapterRows, RevisionNumbers
  <1>2. revision' = [revision EXCEPT ![c] = [@ EXCEPT ![n] = stored]]
    BY DEF StoreRevision
  <1>3. /\ revision'[c][n] = stored /\ stored # Nothing
        /\ \A m \in RevisionNumbers \ {n} : revision'[c][m] = revision[c][m]
        /\ \A d \in Chapters \ {c} : revision'[d] = revision[d]
    <2>1. stored \in RevisionRows
      BY <1>1 DEF RevisionRows
    <2> QED
      BY <1>1, <1>2, <2>1, NullAssumption DEF Consistent, TypeOK
  <1>4. stored.canonical = FALSE /\ stored.commit = 0 /\ stored.text = t
    OBVIOUS
  <1>5. \A u \in Texts : artifact[u] = "GATE_PASSED" => artifact'[u] = "GATE_PASSED"
    BY DEF StoreRevision, Consistent, TypeOK
  <1> HIDE DEF stored
  <1>6. \A m \in RevisionNumbers : revision[c][m] # Nothing <=> m <= h
    <2> TAKE m \in RevisionNumbers
    <2>1. m < h => revision[c][m] # Nothing
      BY <1>1, ManuscriptAssumption DEF LedgerInv, NumbersHaveNoGap, RevisionNumbers
    <2>2. m > n => revision[c][m] = Nothing
      BY <1>1 DEF LedgerInv, NumbersHaveNoGap
    <2>3. m \in Nat /\ m # 0 /\ h \in Nat
      BY <1>1, ManuscriptAssumption DEF RevisionNumbers
    <2>4. m = h \/ m < h \/ m = n \/ m > n
      BY <2>3
    <2> QED
      BY <1>1, <2>1, <2>2, <2>3, <2>4
  <1>7. \A m \in RevisionNumbers : revision'[c][m] # Nothing <=> m <= n
    BY <1>1, <1>3, <1>6, ManuscriptAssumption DEF RevisionNumbers
  <1>8. LedgerInv'
    <2>1. CommitLedger'
      BY <1>3, <1>4 DEF LedgerInv, CommitLedger
    <2>2. CanonicalIsNewest'
      <3> SUFFICES ASSUME NEW d \in Chapters, NEW m \in RevisionNumbers,
                          revision'[d][m] # Nothing, revision'[d][m].canonical
                   PROVE  LET x == revision'[d][m] IN
                          /\ x.commit # 0
                          /\ \A e \in outbox' : e.chapter = d => e.sequence <= x.commit
                          /\ x.text \in CleanTexts /\ artifact'[x.text] = "GATE_PASSED"
        BY DEF CanonicalIsNewest
      <3>1. revision'[d][m] = revision[d][m]
        BY <1>3, <1>4
      <3> QED
        BY <1>5, <3>1, ManuscriptAssumption DEF LedgerInv, CanonicalIsNewest
    <2>3. NumbersHaveNoGap'
      BY <1>1, <1>3, <1>7, ManuscriptAssumption DEF LedgerInv, NumbersHaveNoGap, RevisionNumbers
    <2> QED
      BY <2>1, <2>2, <2>3 DEF LedgerInv
  <1>9. Top(revision[c]) = h /\ Top(revision'[c]) = n
    <2>1. n \in 0 .. MaxRevisions
      BY <1>1, ManuscriptAssumption DEF RevisionNumbers
    <2> QED
      BY <1>1, <1>6, <1>7, <2>1, TopIs
  <1>10. HistoryBar' = [HistoryBar EXCEPT ![c] = Append(@, t)]
    <2> DEFINE f == [m \in 1 .. h |-> revision[c][m].text]
               g == [m \in 1 .. n |-> revision'[c][m].text]
    <2>1. f \in [1 .. h -> Texts]
      <3>1. ASSUME NEW m \in 1 .. h PROVE revision[c][m].text \in Texts
        <4>1. m \in RevisionNumbers /\ m <= h
          BY <1>1, ManuscriptAssumption DEF RevisionNumbers
        <4>2. revision[c][m] \in RevisionRows
          BY <1>6, <4>1 DEF Consistent, TypeOK
        <4> QED
          BY <4>2 DEF RevisionRows
      <3> QED
        BY <3>1
    <2>2. g[n] = t
      BY <1>1, <1>3, <1>4, ManuscriptAssumption DEF RevisionNumbers
    <2>3. \A m \in 1 .. h : g[m] = f[m]
      <3> TAKE m \in 1 .. h
      <3>1. m \in RevisionNumbers \ {n} /\ m \in 1 .. n
        BY <1>1, ManuscriptAssumption DEF RevisionNumbers
      <3> QED
        BY <1>3, <3>1
    <2>4. g \in [1 .. n -> Texts]
      <3>1. \A m \in 1 .. n : m = n \/ m \in 1 .. h
        BY <1>1
      <3> HIDE DEF f
      <3>2. \A m \in 1 .. n : g[m] \in Texts
        BY <2>1, <2>2, <2>3, <3>1
      <3> QED
        BY <3>2
    <2> HIDE DEF f, g
    <2>5. g = Append(f, t)
      BY <1>1, <2>1, <2>2, <2>3, <2>4, AppendShape
    <2>6. HistoryBar[c] = f /\ HistoryBar'[c] = g
      BY <1>9 DEF HistoryBar, f, g
    <2>7. \A d \in Chapters \ {c} : HistoryBar'[d] = HistoryBar[d]
      BY <1>3 DEF HistoryBar
    <2>8. /\ HistoryBar = [d \in Chapters |-> HistoryBar[d]]
          /\ HistoryBar' = [d \in Chapters |-> HistoryBar'[d]]
      BY DEF HistoryBar
    <2> QED
      BY <2>5, <2>6, <2>7, <2>8
  <1>11. CanonicalBar' = CanonicalBar
    <2>1. \A m \in RevisionNumbers : (revision'[c][m] # Nothing /\ revision'[c][m].canonical)
                                         <=> (revision[c][m] # Nothing /\ revision[c][m].canonical)
      BY <1>1, <1>3, <1>4
    <2>2. CanonicalOf(revision'[c]) = CanonicalOf(revision[c])
      BY <2>1, CanonicalOfFlags
    <2> QED
      BY <1>3, <2>2 DEF CanonicalBar
  <1>12. LogBar' = LogBar
    BY DEF LogBar
  <1> QED
    BY <1>8, <1>10, <1>11, <1>12, AcceptMapping

(* A save from the editor stores a revision and leaves a draft nobody published. *)
LEMMA SaveLedger ==
  ASSUME Consistent, LedgerInv, NEW p \in Pages, FinishSave(p)
  PROVE  /\ LedgerInv' /\ VersionStep /\ LedgerStep
         /\ StatusFollowsDraft => StatusFollowsDraft'
  <1>0. PICK c, row, t : c = page[p].chapter /\ row = request[p].row /\ t = request[p].text
    OBVIOUS
  <1> DEFINE n == row.latest + 1
             stored == [text |-> t, parent |-> row.latest, source |-> "HUMAN",
                        run |-> Nothing, canonical |-> FALSE, commit |-> 0]
  <1>1. /\ c \in Chapters /\ row = chapter[c] /\ row \in ChapterRows
        /\ n \in RevisionNumbers /\ t \in Texts /\ row.latest < MaxRevisions
        /\ row.latest # 0 => revision[c][row.latest] # Nothing
    BY <1>0, ManuscriptAssumption DEF FinishSave, StoreRevision, RevisionNumberFree, Consistent,
       LockedRowsAreCurrent, LatestExists, RequestsCarryData, TypeOK, ChapterRows,
       RevisionNumbers
  <1>2. StoreRevision(c, row, t, "HUMAN", Nothing, FALSE) /\ UNCHANGED <<work, outbox>>
    BY <1>0 DEF FinishSave
  <1>3. LedgerInv' /\ Ledger!Accept(c, t)
    <2>1. Nothing \in Runs \cup {Nothing} /\ "HUMAN" \in {"HUMAN", "MODEL"}
      OBVIOUS
    <2> QED
      BY <1>1, <1>2, <2>1, StoredRevision
  <1>4. /\ chapter'[c].latest = n /\ chapter'[c].status = "DRAFT"
        /\ chapter'[c].version = chapter[c].version + 1
        /\ \A d \in Chapters \ {c} : chapter'[d] = chapter[d]
    BY <1>0, <1>1 DEF FinishSave, StoreRevision, Column, Consistent, TypeOK, ChapterRows
  <1>5. /\ revision'[c][n] = stored
        /\ \A d \in Chapters \ {c} : revision'[d] = revision[d]
    BY <1>1, <1>2 DEF StoreRevision, Consistent, TypeOK
  <1>6. stored.canonical = FALSE
    OBVIOUS
  <1> HIDE DEF stored, n
  <1>7. StatusFollowsDraft => StatusFollowsDraft'
    <2> SUFFICES ASSUME StatusFollowsDraft, NEW d \in Chapters, NEW m \in RevisionNumbers,
                        revision'[d][m] # Nothing, chapter'[d].latest = m
                 PROVE  chapter'[d].status = "COMMITTED" <=> revision'[d][m].canonical
      BY DEF StatusFollowsDraft
    <2>1. CASE d = c
      BY <1>4, <1>5, <1>6, <2>1
    <2>2. CASE d # c
      BY <1>4, <1>5, <2>2 DEF StatusFollowsDraft
    <2> QED
      BY <2>1, <2>2
  <1>8. VersionStep
    BY <1>4 DEF VersionStep
  <1>9. LedgerStep
    BY <1>1, <1>3, AcceptIsStep
  <1> QED
    BY <1>3, <1>7, <1>8, <1>9

(* A metadata update leaves revisions and publications alone. *)
LEMMA MetadataLedger ==
  ASSUME Consistent, LedgerInv, NEW p \in Pages, FinishMetadata(p)
  PROVE  /\ LedgerInv' /\ VersionStep /\ LedgerStep
         /\ StatusFollowsDraft => StatusFollowsDraft'
  <1> DEFINE c == page[p].chapter
  <1>1. c \in Chapters /\ request[p].row = chapter[c]
    BY DEF FinishMetadata, Consistent, LockedRowsAreCurrent, RequestsCarryData
  <1>2. /\ chapter'[c].latest = chapter[c].latest /\ chapter'[c].status = chapter[c].status
        /\ chapter'[c].version = chapter[c].version + 1
        /\ \A d \in Chapters \ {c} : chapter'[d] = chapter[d]
    BY <1>1 DEF FinishMetadata, Consistent, TypeOK, ChapterRows
  <1>3. \A d \in Chapters : chapter'[d].latest = chapter[d].latest
                                /\ chapter'[d].status = chapter[d].status
    BY <1>2
  <1>4. UNCHANGED <<revision, artifact, work, outbox>>
    BY DEF FinishMetadata
  <1>5. StatusFollowsDraft => StatusFollowsDraft'
    BY <1>3, <1>4 DEF StatusFollowsDraft
  <1> QED
    BY <1>2, <1>4, <1>5, QuietLedger DEF VersionStep

(* A publication appends to the log and moves the canonical mark: it takes the next    *)
(* number of the work, which no other request holds.                                   *)
LEMMA PublishLedger ==
  ASSUME Consistent, LedgerInv, NEW p \in Pages, FinishPublish(p),
         NEW c, c = page[p].chapter, NEW n, n = page[p].rev
  PROVE  LedgerInv' /\ Ledger!Publish(c, n)
  <1> DEFINE s == work.sequence + 1
             event == [chapter |-> c, revision |-> n, sequence |-> s]
  <1>1. /\ c \in Chapters /\ n \in RevisionNumbers /\ work.sequence \in Nat
        /\ revision[c][n] \in RevisionRows /\ revision[c][n].text \in CleanTexts
        /\ ~revision[c][n].canonical
    BY PublicationShape
  <1>2. /\ revision'[c][n].text = revision[c][n].text /\ revision'[c][n].canonical = TRUE
        /\ revision'[c][n].commit = s /\ revision'[c][n] \in RevisionRows
    BY PublicationShape
  <1>3. \A m \in RevisionNumbers \ {n} :
            /\ revision[c][m] = Nothing => revision'[c][m] = Nothing
            /\ revision[c][m] # Nothing => /\ revision'[c][m].canonical = FALSE
                                           /\ revision'[c][m].commit = revision[c][m].commit
    BY PublicationShape
  <1>4. \A d \in Chapters \ {c} : revision'[d] = revision[d]
    BY PublicationShape
  <1>5. work'.sequence = s
    BY PublicationShape DEF Consistent, TypeOK
  <1>6. outbox' = outbox \cup {event}
    BY PublicationShape
  <1>7. \A u \in Texts : artifact[u] = "GATE_PASSED" \/ u = revision[c][n].text =>
                             artifact'[u] = "GATE_PASSED"
    <2>1. artifact' = [artifact EXCEPT ![revision[c][n].text] = "GATE_PASSED"]
      BY PublicationShape
    <2> QED
      BY <2>1 DEF Consistent, TypeOK
  <1>8. \A d \in Chapters, m \in RevisionNumbers :
            /\ revision'[d][m] # Nothing <=> revision[d][m] # Nothing
            /\ revision[d][m] # Nothing => revision'[d][m].text = revision[d][m].text
    BY PublicationKeeps
  <1>9. event.chapter = c /\ event.revision = n /\ event.sequence = s
    OBVIOUS
  <1>10. \A e \in outbox : e.sequence \in Nat /\ e.sequence < s
    BY <1>1 DEF LedgerInv, CommitLedger
  <1> HIDE DEF event
  <1>11. CommitLedger'
    <2>1. \A e \in outbox' : e.sequence \in 1 .. s
      BY <1>1, <1>6, <1>9 DEF LedgerInv, CommitLedger
    <2>2. \A k \in 1 .. s : \E e \in outbox' : e.sequence = k
      BY <1>1, <1>6, <1>9 DEF LedgerInv, CommitLedger
    <2>3. \A e, f \in outbox' : e.sequence = f.sequence => e = f
      BY <1>1, <1>6, <1>9, <1>10 DEF LedgerInv, CommitLedger
    <2>4. ASSUME NEW d \in Chapters, NEW m \in RevisionNumbers,
                 revision'[d][m] # Nothing, revision'[d][m].commit # 0
          PROVE  [chapter |-> d, revision |-> m, sequence |-> revision'[d][m].commit] \in outbox'
      <3>1. CASE d = c /\ m = n
        BY <1>2, <1>6, <3>1 DEF event
      <3>2. CASE ~(d = c /\ m = n)
        BY <1>3, <1>4, <1>6, <2>4, <3>2 DEF LedgerInv, CommitLedger
      <3> QED
        BY <3>1, <3>2
    <2> QED
      BY <1>5, <2>1, <2>2, <2>3, <2>4 DEF CommitLedger
  <1>12. CanonicalIsNewest'
    <2> SUFFICES ASSUME NEW d \in Chapters, NEW m \in RevisionNumbers,
                        revision'[d][m] # Nothing, revision'[d][m].canonical
                 PROVE  LET r == revision'[d][m] IN
                        /\ r.commit # 0
                        /\ \A e \in outbox' : e.chapter = d => e.sequence <= r.commit
                        /\ r.text \in CleanTexts /\ artifact'[r.text] = "GATE_PASSED"
      BY DEF CanonicalIsNewest
    <2>1. CASE d = c /\ m = n
      BY <1>1, <1>2, <1>6, <1>7, <1>9, <1>10, <2>1, ManuscriptAssumption
    <2>2. CASE d = c /\ m # n
      BY <1>3, <2>2
    <2>3. CASE d # c
      <3>1. revision'[d][m] = revision[d][m]
        BY <1>4, <2>3
      <3>2. \A e \in outbox' : e.chapter = d => e \in outbox
        BY <1>6, <1>9, <2>3
      <3> QED
        BY <1>7, <3>1, <3>2, ManuscriptAssumption DEF LedgerInv, CanonicalIsNewest
    <2> QED
      BY <2>1, <2>2, <2>3
  <1>13. NumbersHaveNoGap'
    BY <1>8 DEF LedgerInv, NumbersHaveNoGap
  <1>14. \A d \in Chapters : /\ Top(revision[d]) \in 0 .. MaxRevisions
                             /\ Top(revision'[d]) = Top(revision[d])
                             /\ \A m \in RevisionNumbers :
                                    revision[d][m] # Nothing <=> m <= Top(revision[d])
    <2> TAKE d \in Chapters
    <2>1. /\ Top(revision[d]) \in 0 .. MaxRevisions
          /\ \A m \in RevisionNumbers : revision[d][m] # Nothing <=> m <= Top(revision[d])
      BY TopIsTop DEF LedgerInv, NumbersHaveNoGap
    <2>2. \A m \in RevisionNumbers : revision'[d][m] # Nothing <=> m <= Top(revision[d])
      BY <1>8, <2>1
    <2> QED
      BY <2>1, <2>2, TopIs
  <1>15. HistoryBar' = HistoryBar
    <2>1. ASSUME NEW d \in Chapters, NEW m \in 1 .. Top(revision[d])
          PROVE  revision'[d][m].text = revision[d][m].text
      <3>1. m \in RevisionNumbers /\ m <= Top(revision[d])
        BY <1>14, ManuscriptAssumption DEF RevisionNumbers
      <3> QED
        BY <1>8, <1>14, <3>1
    <2> QED
      BY <1>14, <2>1 DEF HistoryBar
  <1>16. n \in DOMAIN HistoryBar[c]
    <2>1. n <= Top(revision[c]) /\ n \in 1 .. MaxRevisions
      BY <1>1, <1>14, NullAssumption DEF RevisionNumbers
    <2>2. DOMAIN HistoryBar[c] = 1 .. Top(revision[c])
      BY <1>1 DEF HistoryBar
    <2> QED
      BY <1>1, <1>14, <2>1, <2>2, ManuscriptAssumption
  <1>17. CanonicalBar[c] # n
    <2>1. n # 0
      BY <1>1, ManuscriptAssumption DEF RevisionNumbers
    <2>2. CanonicalOf(revision[c]) # n
      BY <1>1, <2>1 DEF CanonicalOf
    <2> QED
      BY <1>1, <2>2 DEF CanonicalBar
  <1>18. CanonicalBar' = [CanonicalBar EXCEPT ![c] = n]
    <2>1. revision'[c][n] # Nothing
      BY <1>2, NullAssumption
    <2>2. \A m \in RevisionNumbers :
              (revision'[c][m] # Nothing /\ revision'[c][m].canonical) <=> m = n
      BY <1>1, <1>2, <1>3, <2>1
    <2>3. CanonicalOf(revision'[c]) = n
      BY <1>1, <2>2 DEF CanonicalOf
    <2> QED
      BY <1>1, <1>4, <2>3 DEF CanonicalBar
  <1>19. LogBar' = Append(LogBar, <<c, n>>)
    <2>1. ASSUME NEW k \in 1 .. work.sequence
          PROVE  /\ EventAt(outbox', k) = EventAt(outbox, k)
                 /\ EventAt(outbox, k).chapter \in Chapters
                 /\ EventAt(outbox, k).revision \in Nat
      <3>1. PICK e \in outbox : e.sequence = k
        BY DEF LedgerInv, CommitLedger
      <3>2. EventAt(outbox, k) = e
        BY <3>1, EventAtIs DEF LedgerInv, CommitLedger
      <3>3. EventAt(outbox', k) = e
        BY <1>6, <1>11, <3>1, EventAtIs DEF CommitLedger
      <3>4. e \in OutboxRows
        BY DEF Consistent, TypeOK
      <3> QED
        BY <3>2, <3>3, <3>4, ManuscriptAssumption DEF OutboxRows, RevisionNumbers
    <2>2. EventAt(outbox', s) = event
      <3>1. event \in outbox'
        BY <1>6
      <3>2. \A f \in outbox' : f.sequence = event.sequence => f = event
        BY <1>11, <3>1 DEF CommitLedger
      <3> QED
        BY <1>9, <3>1, <3>2, EventAtIs
    <2> DEFINE at(events, k) == <<EventAt(events, k).chapter, EventAt(events, k).revision>>
               f == [k \in 1 .. work.sequence |-> at(outbox, k)]
               g == [k \in 1 .. s |-> at(outbox', k)]
    <2>3. f \in [1 .. work.sequence -> Chapters \X Nat]
      BY <2>1
    <2>4. g[s] = <<c, n>> /\ n \in Nat
      BY <1>1, <1>9, <2>2, ManuscriptAssumption DEF RevisionNumbers
    <2>5. \A k \in 1 .. work.sequence : g[k] = f[k]
      <3> TAKE k \in 1 .. work.sequence
      <3>1. k \in 1 .. s
        BY <1>1
      <3> QED
        BY <2>1, <3>1
    <2>6. g \in [1 .. s -> Chapters \X Nat]
      <3>1. \A k \in 1 .. s : k = s \/ k \in 1 .. work.sequence
        BY <1>1
      <3>2. g[s] \in Chapters \X Nat
        BY <1>1, <2>4
      <3>3. \A k \in 1 .. s : g[k] \in Chapters \X Nat
        <4> HIDE DEF f, g, at
        <4> QED
          BY <2>3, <2>5, <3>1, <3>2
      <3> QED
        BY <3>3
    <2> HIDE DEF f, g
    <2>7. <<c, n>> \in Chapters \X Nat
      BY <1>1, <2>4
    <2>8. g = Append(f, <<c, n>>)
      BY <1>1, <2>3, <2>4, <2>5, <2>6, <2>7, AppendShape
    <2>9. LogBar = f /\ LogBar' = g
      BY <1>5 DEF LogBar, f, g
    <2> QED
      BY <2>8, <2>9
  <1>20. LedgerInv'
    BY <1>11, <1>12, <1>13 DEF LedgerInv
  <1>21. Ledger!Publish(c, n)
    BY <1>15, <1>16, <1>17, <1>18, <1>19, PublishMapping
  <1> QED
    BY <1>20, <1>21

(* The chapter row follows the revision it publishes. *)
LEMMA PublishStatus ==
  ASSUME Consistent, LedgerInv, NEW p \in Pages, FinishPublish(p)
  PROVE  /\ LedgerInv' /\ VersionStep /\ LedgerStep
         /\ StatusFollowsDraft => StatusFollowsDraft'
  <1>0. PICK c, n : c = page[p].chapter /\ n = page[p].rev
    OBVIOUS
  <1>1. /\ c \in Chapters /\ n \in RevisionNumbers /\ revision'[c][n].canonical = TRUE
        /\ chapter[c] \in ChapterRows
        /\ \A d \in Chapters \ {c} : revision'[d] = revision[d]
    BY <1>0, PublicationShape
  <1>2. /\ chapter'[c].latest = n /\ chapter'[c].status = "COMMITTED"
        /\ chapter'[c].version = chapter[c].version + 1
        /\ \A d \in Chapters \ {c} : chapter'[d] = chapter[d]
    <2>1. chapter' = [chapter EXCEPT ![c] = [chapter[c] EXCEPT
                         !.latest = n, !.status = "COMMITTED", !.version = @ + 1]]
      BY <1>0, PublicationShape
    <2> QED
      BY <1>1, <2>1 DEF Consistent, TypeOK, ChapterRows
  <1>3. LedgerInv' /\ Ledger!Publish(c, n)
    BY <1>0, PublishLedger
  <1>4. LedgerStep
    BY <1>1, <1>3, PublishIsStep
  <1>5. StatusFollowsDraft => StatusFollowsDraft'
    BY <1>1, <1>2 DEF StatusFollowsDraft
  <1>6. VersionStep
    BY <1>2 DEF VersionStep
  <1> QED
    BY <1>3, <1>4, <1>5, <1>6

(* A step that writes no table. *)
LEMMA QuietStep ==
  ASSUME LedgerInv, UNCHANGED tables
  PROVE  /\ LedgerInv' /\ VersionStep /\ LedgerStep
         /\ StatusFollowsDraft => StatusFollowsDraft'
  BY QuietLedger DEF StatusFollowsDraft, VersionStep, tables

-------------------------------------------------------------------------------
(* The invariant and what follows from it *)

(* Every step of the service keeps the invariant and counts versions. *)
LEMMA InvariantStep == IInv /\ [Next]_vars => IInv' /\ VersionStep /\ LedgerStep
  <1> SUFFICES ASSUME IInv, [Next]_vars PROVE IInv' /\ VersionStep /\ LedgerStep
    OBVIOUS
  <1>1. Consistent /\ LedgerInv /\ StatusFollowsDraft
    BY DEF IInv
  <1>2. CASE UNCHANGED vars
    <2>1. Consistent'
      BY <1>1, <1>2 DEF vars, tables, Consistent, TypeOK, LockedRowsAreCurrent, HoldsChapter,
         LatestExists, PageRevisionExists, RequestsCarryData
    <2> QED
      BY <1>1, <1>2, <2>1, QuietStep DEF vars, IInv
  <1>3. ASSUME NEW p \in Pages, PageStep(p) \/ FinishPublish(p)
        PROVE  Consistent' /\ LedgerInv' /\ StatusFollowsDraft' /\ VersionStep /\ LedgerStep
    <2>1. CASE \E c \in Chapters : OpenChapter(p, c)
      BY <1>1, <2>1, OpenChapterStep, QuietStep DEF OpenChapter
    <2>2. CASE \E t \in Texts : BeginSave(p, t)
      BY <1>1, <2>2, BeginSaveStep, QuietStep DEF BeginSave, Begin
    <2>3. CASE \E b \in Briefs : BeginMetadata(p, b)
      BY <1>1, <2>3, BeginMetadataStep, QuietStep DEF BeginMetadata, Begin
    <2>4. CASE BeginPublish(p)
      BY <1>1, <2>4, BeginPublishStep, QuietStep DEF BeginPublish, Begin
    <2>5. CASE FinishSave(p)
      BY <1>1, <2>5, FinishSaveStep, SaveLedger
    <2>6. CASE KeepContent(p)
      BY <1>1, <2>6, KeepContentStep, QuietStep DEF KeepContent
    <2>7. CASE RejectSave(p) \/ LoseAnswer(p) \/ Abort(p)
      <3>1. Rollback(p)
        BY <2>7 DEF RejectSave, LoseAnswer, Abort
      <3> QED
        BY <1>1, <3>1, RollbackStep, QuietStep DEF Rollback
    <2>8. CASE FinishMetadata(p)
      BY <1>1, <2>8, FinishMetadataStep, MetadataLedger
    <2>9. CASE LockWork(p)
      <3>1. UNCHANGED tables
        BY <2>9 DEF LockWork, Rollback
      <3> QED
        BY <1>1, <2>9, <3>1, LockWorkStep, QuietStep
    <2>10. CASE ReceiveAnswer(p)
      BY <1>1, <2>10, ReceiveAnswerStep, QuietStep DEF ReceiveAnswer
    <2>11. CASE FinishPublish(p)
      BY <1>1, <2>11, FinishPublishStep, PublishStatus
    <2> QED
      BY <1>3, <2>1, <2>2, <2>3, <2>4, <2>5, <2>6, <2>7, <2>8, <2>9, <2>10, <2>11 DEF PageStep
  <1> QED
    BY <1>2, <1>3 DEF Next, IInv

(* Under every interleaving of requests, losses and crashes the invariant holds. *)
THEOREM Invariant == Spec => []IInv
  <1>1. Init => IInv
    BY InitIInv
  <1>2. IInv /\ [Next]_vars => IInv'
    BY InvariantStep
  <1> QED
    BY <1>1, <1>2, PTL DEF Spec

(* Rows, pages and requests keep their types; no revision, reference or status is     *)
(* ever written out of its range by the handlers of writing.py.                        *)
THEOREM TypeCorrect == Spec => []TypeOK
  <1>1. IInv => TypeOK
    BY DEF IInv, Consistent
  <1> QED
    BY <1>1, Invariant, PTL

(* FOR UPDATE on chapter and work (writing.py:324-328, 399-405) makes what a handler *)
(* read still true when it writes, so its version and revision checks decide.        *)
THEOREM LocksKeepRowsCurrent == Spec => []LockedRowsAreCurrent
  <1>1. IInv => LockedRowsAreCurrent
    BY DEF IInv, Consistent
  <1> QED
    BY <1>1, Invariant, PTL

(* Publications of all chapters of a work share one gapless commit sequence, and each *)
(* number has exactly one outbox event (writing.py:433-466).                          *)
THEOREM CommitSequenceIsALedger == Spec => []CommitLedger
  <1>1. IInv => CommitLedger
    BY DEF IInv, LedgerInv
  <1> QED
    BY <1>1, Invariant, PTL

(* A chapter's canonical revision is the one it published last, its prose passed the *)
(* gate and the chapter row agrees with it (writing.py:411-441).                     *)
THEOREM CanonicalIsNewestPublication == Spec => []CanonicalRevision
  <1>1. IInv => CanonicalRevision
    BY DEF IInv, LedgerInv, CanonicalIsNewest, StatusFollowsDraft, CanonicalRevision
  <1> QED
    BY <1>1, Invariant, PTL

(* As long as only web requests write chapters, versions count their changes: the    *)
(* optimistic lock of writing.py:295-298 is sound without the generation worker.      *)
THEOREM VersionsCount == Spec => VersionCountsChanges
  <1>1. IInv /\ [Next]_vars => [VersionStep]_vars
    BY InvariantStep
  <1>2. VersionCountsChanges <=> [][VersionStep]_vars
    BY DEF VersionCountsChanges, VersionStep
  <1> QED
    BY <1>1, <1>2, Invariant, PTL DEF Spec

(* A save that holds its chapter was compared with the row it holds, and the page it  *)
(* came from has not moved on since.                                                   *)
SavesChecked ==
    \A p \in Pages : (request[p].step = "locked" /\ request[p].op = "save") =>
        page[p].rev = request[p].row.latest

(* The revisions a step adds come from pages that show the draft they replace. *)
SaveStep ==
    \A c \in Chapters, n \in RevisionNumbers :
        (revision[c][n] = Nothing /\ revision'[c][n] # Nothing
             /\ revision'[c][n].source = "HUMAN") =>
            /\ chapter[c].latest = n - 1
            /\ \E p \in Pages : /\ page[p].chapter = c /\ page[p].rev = n - 1
                                /\ request[p].text = revision'[c][n].text

(* Only the check of a save begins one, and a page in the middle of one stays as it is. *)
LEMMA SavesStayChecked == TypeOK /\ SavesChecked /\ [Next]_vars => SavesChecked'
  <1> SUFFICES ASSUME TypeOK, SavesChecked, [Next]_vars PROVE SavesChecked'
    OBVIOUS
  <1>1. CASE UNCHANGED vars
    BY <1>1 DEF vars, SavesChecked
  <1>2. ASSUME NEW p \in Pages, PageStep(p) \/ FinishPublish(p) PROVE SavesChecked'
    <2> USE DEF TypeOK, SavesChecked, Requests
    <2>1. CASE \E c \in Chapters : OpenChapter(p, c)
      BY <2>1 DEF OpenChapter, Idle
    <2>2. CASE \E t \in Texts : BeginSave(p, t)
      BY <2>2 DEF BeginSave, Begin, Idle, tables
    <2>3. CASE \E b \in Briefs : BeginMetadata(p, b)
      BY <2>3 DEF BeginMetadata, Begin, Idle, tables
    <2>4. CASE BeginPublish(p)
      BY <2>4 DEF BeginPublish, Begin, Idle, tables
    <2>5. CASE FinishSave(p) \/ KeepContent(p) \/ FinishMetadata(p) \/ FinishPublish(p)
      <3>1. /\ page' = page /\ request'[p].step = "answered"
            /\ \A q \in Pages : q # p => request'[q] = request[q]
        <4>1. page' = page /\ \E row : Answer(p, row)
          BY <2>5 DEF FinishSave, KeepContent, FinishMetadata, FinishPublish
        <4> QED
          BY <4>1 DEF Answer
      <3> QED
        BY <3>1
    <2>6. CASE RejectSave(p) \/ LoseAnswer(p) \/ Abort(p)
      BY <2>6 DEF RejectSave, LoseAnswer, Abort, Rollback, Idle, tables
    <2>7. CASE LockWork(p)
      BY <2>7 DEF LockWork, Answer, Rollback, Idle, tables
    <2>8. CASE ReceiveAnswer(p)
      BY <2>8 DEF ReceiveAnswer, Idle, tables
    <2> QED
      BY <1>2, <2>1, <2>2, <2>3, <2>4, <2>5, <2>6, <2>7, <2>8 DEF PageStep
  <1> QED
    BY <1>1, <1>2 DEF Next

(* A commit of a save writes from the row that was checked; a publication adds none. *)
LEMMA SavesAreKnown == IInv /\ SavesChecked /\ [Next]_vars => SaveStep
  <1> SUFFICES ASSUME IInv, SavesChecked, [Next]_vars PROVE SaveStep
    OBVIOUS
  <1>1. CASE revision' = revision
    BY <1>1 DEF SaveStep
  <1>2. ASSUME NEW p \in Pages, FinishSave(p) PROVE SaveStep
    <2>1. /\ page[p].chapter \in Chapters /\ request[p].row = chapter[page[p].chapter]
          /\ page[p].rev = request[p].row.latest /\ page[p].rev \in Nat
      BY <1>2, ManuscriptAssumption DEF FinishSave, IInv, Consistent, LockedRowsAreCurrent,
         RequestsCarryData, TypeOK, PageStates, SavesChecked
    <2>2. revision' = [revision EXCEPT ![page[p].chapter][page[p].rev + 1] =
              [text |-> request[p].text, parent |-> page[p].rev, source |-> "HUMAN",
               run |-> Nothing, canonical |-> FALSE, commit |-> 0]]
      BY <1>2, <2>1 DEF FinishSave, StoreRevision
    <2>3. revision \in [Chapters -> [RevisionNumbers -> RevisionRows \cup {Nothing}]]
      BY DEF IInv, Consistent, TypeOK
    <2>4. ASSUME NEW c \in Chapters, NEW n \in RevisionNumbers,
                 revision[c][n] = Nothing, revision'[c][n] # Nothing
          PROVE  c = page[p].chapter /\ n = page[p].rev + 1
                     /\ revision'[c][n].text = request[p].text
      BY <2>1, <2>2, <2>3, <2>4
    <2>5. \A n \in RevisionNumbers : n = page[p].rev + 1 => page[p].rev = n - 1
      BY <2>1, ManuscriptAssumption DEF RevisionNumbers
    <2> QED
      BY <2>1, <2>4, <2>5 DEF SaveStep
  <1>3. ASSUME NEW p \in Pages, FinishPublish(p) PROVE SaveStep
    <2>1. \A c \in Chapters, n \in RevisionNumbers :
              revision[c][n] = Nothing => revision'[c][n] = Nothing
      BY <1>3, PublicationKeeps DEF IInv
    <2> QED
      BY <2>1 DEF SaveStep
  <1>4. ASSUME NEW p \in Pages, PageStep(p), ~FinishSave(p) PROVE revision' = revision
    BY <1>4 DEF PageStep, tables, OpenChapter, BeginSave, BeginMetadata, BeginPublish, Begin,
       KeepContent, RejectSave, FinishMetadata, LockWork, ReceiveAnswer, LoseAnswer, Abort,
       Rollback
  <1> QED
    BY <1>1, <1>2, <1>3, <1>4 DEF Next, vars, tables

(* A text never replaces a draft its page does not show: expected_revision_number is   *)
(* compared under the lock the insertion still holds (writing.py:324-336), so a save    *)
(* that waited, or one sent again after its answer was lost, is stored over the         *)
(* revision it names or refused.                                                        *)
THEOREM SavesAreInformed == Spec => SavesKnowTheirDraft
  <1>1. Init => SavesChecked
    BY DEF Init, SavesChecked, Idle
  <1>2. IInv => TypeOK
    BY DEF IInv, Consistent
  <1>3. IInv /\ SavesChecked /\ [Next]_vars => SavesChecked'
    BY <1>2, SavesStayChecked
  <1>4. IInv /\ SavesChecked /\ [Next]_vars => [SaveStep]_vars
    BY SavesAreKnown
  <1>5. SavesKnowTheirDraft <=> [][SaveStep]_vars
    BY DEF SavesKnowTheirDraft, SaveStep
  <1> QED
    BY <1>1, <1>3, <1>4, <1>5, Invariant, PTL DEF Spec

LEMMA LedgerInit == Init => Ledger!Init
  <1> SUFFICES ASSUME Init PROVE Ledger!Init
    OBVIOUS
  <1>1. \A c \in Chapters : Top(revision[c]) = 0 /\ CanonicalOf(revision[c]) = 0
    <2> TAKE c \in Chapters
    <2>1. \A n \in RevisionNumbers : revision[c][n] # Nothing <=> n <= 0
      BY ManuscriptAssumption DEF Init, RevisionNumbers
    <2>2. \A n \in RevisionNumbers : revision[c][n] = Nothing
      BY DEF Init
    <2> QED
      BY <2>1, <2>2, TopIs, ManuscriptAssumption DEF CanonicalOf
  <1>2. HistoryBar = [c \in Chapters |-> <<>>]
    <2>1. \A c \in Chapters : [n \in 1 .. 0 |-> revision[c][n].text] = <<>>
      OBVIOUS
    <2> QED
      BY <1>1, <2>1 DEF HistoryBar
  <1>3. CanonicalBar = [c \in Chapters |-> 0]
    BY <1>1 DEF CanonicalBar
  <1>4. LogBar = <<>>
    BY DEF Init, LogBar
  <1> QED
    BY <1>2, <1>3, <1>4 DEF Ledger!Init, HistoryBar, CanonicalBar, LogBar, Top, CanonicalOf,
       EventAt, Highest, Publication

(* The tables, their locks and their pages implement the ledger: whatever requests     *)
(* interleave, are lost or die, each chapter's accepted texts are a sequence that only  *)
(* grows, publications are one log that only grows, and each step of the service adds   *)
(* to one of them or to none (writing.py:90-215, 399-470).                              *)
THEOREM ImplementsLedger == Spec => LedgerSpec
  <1>1. IInv /\ [Next]_vars => [Ledger!Next]_(Ledger!vars)
    BY InvariantStep DEF LedgerStep
  <1> QED
    BY <1>1, LedgerInit, Invariant, PTL DEF Spec, LedgerSpec, Ledger!Spec
===============================================================================

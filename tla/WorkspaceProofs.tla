---------------------------- MODULE WorkspaceProofs ----------------------------
(***************************************************************************)
(* The safety properties of Workspace, for any chapters, any number of     *)
(* handlers in flight and any bounds.  The author never waits.             *)
(***************************************************************************)
EXTENDS Workspace, TLAPS

(* An answer about a chapter names a revision the chapter has. *)
AnswerFits(a) == a.id \in Chapters /\ a.latest <= Len(history[a.id])

(* What the service holds. *)
ServiceFits ==
    /\ chapter \in [Chapters -> ChapterRows]
    /\ history \in [Chapters -> Seq(Origins)]
    /\ run \in [Chapters -> Runs]
    /\ \A c \in Chapters : Len(history[c]) <= MaxRevisions /\ chapter[c].latest <= Len(history[c])
    /\ TextStaysInItsChapter

(* Text that the author typed and that no answer to come then could have taken for saved. *)
Unsaved == editor.typed /\ ~editor.late

(* The text area shows a text of the page's chapter unless it has strayed, and unsaved *)
(* text is marked.                                                                      *)
PageFits ==
    /\ page \in PageStates /\ editor \in Editors /\ watch \subseteq Chapters
    /\ page.chapter.id = NoChapter => page.chapter.latest = 0 /\ page.generation = NoChapter
    /\ page.chapter.id # NoChapter => AnswerFits(page.chapter)
    /\ ~editor.stray => editor.chapter = page.chapter.id
    /\ Unsaved => page.dirtyContent

(* The answer that t waits for marks the text area's text as saved. *)
Clears(t) == \/ t.kind = "load" /\ t.step \in {"committed", "answered"}
             \/ t.kind \in {"history", "save"}

(* What a handler in flight knows of the page and the service. *)
TaskFits(t) ==
    /\ t.kind \notin {"none", "refresh"} =>
           t.chapter \in Chapters \/ (t.kind = "load" /\ t.step = "filled")
    /\ t.kind \in {"refresh", "generate"} => page.chapter.id # NoChapter
    /\ (t.kind = "load" /\ t.step \in {"filled", "asked"}) => page.chapter.id # NoChapter
    /\ t.kind = "publish" => t.revision <= Len(history[t.chapter])
    /\ (t.kind \in {"load", "form", "save", "publish"} /\ t.step = "answered") =>
           t.answer.id = t.chapter /\ AnswerFits(t.answer)
    /\ (t.kind = "save" /\ t.step = "sent" /\ ~t.text.stray) => t.text.chapter = t.chapter
    /\ (Clears(t) /\ Unsaved) => t.settled

WorkspaceInv ==
    /\ ServiceFits /\ PageFits
    /\ task \in [Handlers -> Tasks]
    /\ \A h \in Handlers : TaskFits(task[h])

(* What a step may do to the text area. *)
DropsAsked == (editor.typed /\ ~editor'.typed) =>
                 editor.late \/ \E h \in Handlers : task[h].settled /\ task'[h] # task[h]

-------------------------------------------------------------------------------
(* Steps in general *)

Grows == \A c \in Chapters : Len(history[c]) <= Len(history'[c])

Shows == page.chapter.id # NoChapter => page'.chapter.id # NoChapter

LEMMA Lengths ==
  ASSUME ServiceFits, NEW c \in Chapters
  PROVE  /\ Len(history[c]) \in Nat /\ Len(history[c]) \in Numbers
         /\ chapter[c] \in ChapterRows /\ chapter[c].latest \in Nat
         /\ chapter[c].latest \in Numbers /\ chapter[c].canonical \in Numbers
         /\ chapter[c].version \in Nat /\ chapter[c].version + 1 \in Nat
         /\ chapter[c].latest <= Len(history[c])
  BY WorkspaceAssumption DEF ServiceFits, ChapterRows, Numbers

LEMMA AnswerGrows ==
  ASSUME ServiceFits, ServiceFits', Grows, NEW a \in ChapterAnswers, AnswerFits(a)
  PROVE  AnswerFits(a)'
  <1>1. a.latest \in Nat /\ a.id \in Chapters
    BY WorkspaceAssumption DEF ChapterAnswers, Numbers, AnswerFits
  <1>2. Len(history[a.id]) \in Nat /\ Len(history'[a.id]) \in Nat
    BY <1>1 DEF ServiceFits
  <1> QED
    BY <1>1, <1>2 DEF AnswerFits, Grows

(* A handler that takes no part in a step still fits. *)
LEMMA OtherFits ==
  ASSUME ServiceFits, ServiceFits', Grows, Shows, NEW t \in Tasks, TaskFits(t),
         NEW u \in Tasks, u = t \/ u = [t EXCEPT !.settled = FALSE],
         (Clears(t) /\ Unsaved') => Unsaved /\ u = t
  PROVE  TaskFits(u)'
  <1>1. /\ u.kind = t.kind /\ u.step = t.step /\ u.chapter = t.chapter /\ u.text = t.text
        /\ u.revision = t.revision /\ u.answer = t.answer
    BY DEF Tasks
  <1>2. /\ t.revision \in Nat /\ t.answer \in ChapterAnswers
    BY WorkspaceAssumption DEF Tasks, Numbers
  <1>3. AnswerFits(t.answer) => AnswerFits(u.answer)'
    BY <1>1, <1>2, AnswerGrows
  <1>4. t.kind = "publish" => u.revision <= Len(history'[u.chapter])
    <2> SUFFICES ASSUME t.kind = "publish"
                 PROVE  u.revision <= Len(history'[u.chapter])
      OBVIOUS
    <2>1. t.chapter \in Chapters /\ t.revision <= Len(history[t.chapter])
      BY DEF TaskFits
    <2>2. Len(history[t.chapter]) \in Nat /\ Len(history'[t.chapter]) \in Nat
      BY <2>1 DEF ServiceFits
    <2> QED
      BY <1>1, <1>2, <2>1, <2>2 DEF Grows
  <1>5. (Clears(u) /\ Unsaved') => u.settled
    BY <1>1 DEF TaskFits, Clears
  <1> QED
    BY <1>1, <1>3, <1>4, <1>5 DEF TaskFits, Shows

(* One handler moves, and the text area holds no more unsaved text than before. *)
LEMMA StepFits ==
  ASSUME WorkspaceInv, ServiceFits', PageFits', Grows, Shows, Unsaved' => Unsaved,
         NEW h \in Handlers, NEW t \in Tasks, TaskFits(t)', task' = [task EXCEPT ![h] = t]
  PROVE  WorkspaceInv'
  <1>1. task' \in [Handlers -> Tasks] /\ task'[h] = t
        /\ \A g \in Handlers \ {h} : task'[g] = task[g]
    BY DEF WorkspaceInv
  <1>2. ASSUME NEW g \in Handlers \ {h}
        PROVE  TaskFits(task[g])'
    <2>1. PICK u \in Tasks : u = task[g] /\ u = task'[g]
      BY <1>1 DEF WorkspaceInv
    <2>2. TaskFits(u)
      BY <2>1 DEF WorkspaceInv
    <2>3. TaskFits(u)'
      BY <2>2, OtherFits DEF WorkspaceInv
    <2> QED
      BY <2>1, <2>3
  <1>3. TaskFits(task[h])'
    BY <1>1
  <1> QED
    BY <1>1, <1>2, <1>3 DEF WorkspaceInv

(* The text area changes: what was settled is so no more. *)
LEMMA UnsettledFits ==
  ASSUME WorkspaceInv, ServiceFits', Grows, Shows, NEW g \in Handlers,
         (Clears(task[g]) /\ Unsaved') => FALSE
  PROVE  \E u \in Tasks : u = Unsettled[g] /\ TaskFits(u)'
  <1>1. PICK t \in Tasks : t = task[g]
    BY DEF WorkspaceInv
  <1>2. PICK u : u = [t EXCEPT !.settled = FALSE]
    OBVIOUS
  <1>3. u \in Tasks
    BY <1>2 DEF Tasks
  <1>4. Unsettled[g] = u
    BY <1>1, <1>2 DEF Unsettled
  <1>5. TaskFits(u)'
    BY <1>1, <1>2, <1>3, OtherFits DEF WorkspaceInv
  <1> QED
    BY <1>3, <1>4, <1>5

(* An answer replaces the text of the text area. *)
LEMMA RefillFits ==
  ASSUME WorkspaceInv, ServiceFits', PageFits', Grows, Shows, ~Unsaved',
         NEW h \in Handlers, NEW t \in Tasks, TaskFits(t)',
         task' = [Unsettled EXCEPT ![h] = t]
  PROVE  WorkspaceInv'
  <1>1. PICK f : f = Unsettled
    OBVIOUS
  <1>2. \A g \in Handlers : f[g] \in Tasks /\ TaskFits(f[g])'
    <2> SUFFICES ASSUME NEW g \in Handlers
                 PROVE  f[g] \in Tasks /\ TaskFits(f[g])'
      OBVIOUS
    <2>1. PICK u \in Tasks : u = f[g] /\ TaskFits(u)'
      BY <1>1, UnsettledFits
    <2> QED
      BY <2>1
  <1>3. f \in [Handlers -> Tasks]
    BY <1>1, <1>2 DEF Unsettled
  <1>4. /\ task' \in [Handlers -> Tasks] /\ task'[h] = t
        /\ \A g \in Handlers \ {h} : task'[g] = f[g]
    BY <1>1, <1>3
  <1>5. \A g \in Handlers : TaskFits(task[g])'
    BY <1>2, <1>4
  <1> QED
    BY <1>4, <1>5 DEF WorkspaceInv

(* The service stays, or changes and leaves the page as it is. *)
LEMMA ServiceStays ==
  ASSUME WorkspaceInv, UNCHANGED service
  PROVE  ServiceFits' /\ Grows
  BY Lengths DEF WorkspaceInv, service, ServiceFits, TextStaysInItsChapter, Grows

LEMMA PageStays ==
  ASSUME WorkspaceInv, UNCHANGED <<page, editor>>, watch' \subseteq Chapters,
         ServiceFits', Grows
  PROVE  PageFits' /\ Shows /\ (Unsaved' => Unsaved)
  <1>1. page.chapter \in ChapterAnswers
    BY DEF WorkspaceInv, PageFits, PageStates
  <1>2. page.chapter.id # NoChapter => AnswerFits(page.chapter)'
    BY <1>1, AnswerGrows DEF WorkspaceInv, PageFits
  <1> QED
    BY <1>2 DEF WorkspaceInv, PageFits, Shows, Unsaved

LEMMA HandlerMoves ==
  ASSUME WorkspaceInv, UNCHANGED <<page, editor>>, watch' \subseteq Chapters, ServiceFits', Grows,
         NEW h \in Handlers, NEW t \in Tasks, TaskFits(t)', task' = [task EXCEPT ![h] = t]
  PROVE  WorkspaceInv' /\ DropsAsked
  BY PageStays, StepFits DEF DropsAsked

LEMMA OthersWrite ==
  ASSUME WorkspaceInv, UNCHANGED <<page, editor, watch, task>>, ServiceFits', Grows
  PROVE  WorkspaceInv' /\ DropsAsked
  <1>1. PageFits' /\ Shows /\ (Unsaved' => Unsaved)
    BY PageStays DEF WorkspaceInv, PageFits
  <1>2. ASSUME NEW g \in Handlers
        PROVE  TaskFits(task[g])'
    <2>1. PICK u \in Tasks : u = task[g] /\ u = task'[g] /\ TaskFits(u)
      BY DEF WorkspaceInv
    <2>2. TaskFits(u)'
      BY <1>1, <2>1, OtherFits DEF WorkspaceInv
    <2> QED
      BY <2>1, <2>2
  <1> QED
    BY <1>1, <1>2 DEF WorkspaceInv, DropsAsked

LEMMA IdleTask ==
  /\ NoTask \in Tasks /\ NoTask.kind = "none" /\ NoTask.step = "idle"
  /\ NoText \in Editors /\ ~NoText.typed /\ ~NoText.late /\ ~NoText.stray
  BY WorkspaceAssumption DEF NoTask, Tasks, NoText, NoAnswer, Editors, ChapterAnswers, Ids,
     Numbers, RunStatuses, Kinds, Steps

LEMMA IdleFits == TaskFits(NoTask)
  BY IdleTask DEF TaskFits, Clears

(* A handler ends. *)
LEMMA FinishFits ==
  ASSUME WorkspaceInv, UNCHANGED <<service, page, editor>>, watch' \subseteq Chapters,
         NEW h \in Handlers, Finish(h)
  PROVE  WorkspaceInv' /\ DropsAsked
  <1>1. TaskFits(NoTask)'
    BY IdleFits, PTL
  <1>2. task' = [task EXCEPT ![h] = NoTask]
    BY DEF Finish, Start
  <1> QED
    BY <1>1, <1>2, IdleTask, ServiceStays, HandlerMoves

-------------------------------------------------------------------------------
(* The service *)

(* A chapter's row is written, with a draft it has. *)
LEMMA RowWritten ==
  ASSUME ServiceFits, NEW c \in Chapters, NEW x \in ChapterRows, x.latest <= Len(history[c]),
         chapter' = [chapter EXCEPT ![c] = x], history' = history, run' \in [Chapters -> Runs]
  PROVE  ServiceFits' /\ Grows
  <1>1. Grows
    BY DEF ServiceFits, Grows
  <1>2. TextStaysInItsChapter'
    BY DEF ServiceFits, TextStaysInItsChapter
  <1> QED
    BY <1>1, <1>2 DEF ServiceFits

(* A text that has not strayed was written in the chapter it is stored in. *)
LEMMA RevisionStored ==
  ASSUME ServiceFits, NEW c \in Chapters, NEW o \in Origins, o.stray \/ o.chapter = c,
         StoreRevision(c, o), run' \in [Chapters -> Runs]
  PROVE  ServiceFits' /\ Grows /\ Len(history'[c]) = chapter[c].latest + 1
         /\ chapter[c].latest + 1 \in Numbers
  <1>1. PICK s : s = Append(history[c], o)
    OBVIOUS
  <1>2. history[c] \in Seq(Origins)
        /\ \A i \in 1 .. Len(history[c]) : history[c][i].stray \/ history[c][i].chapter = c
    BY DEF ServiceFits, TextStaysInItsChapter
  <1>3. /\ s \in Seq(Origins) /\ Len(s) = Len(history[c]) + 1
        /\ \A i \in 1 .. Len(s) : s[i].stray \/ s[i].chapter = c
    BY <1>1, <1>2
  <1>4. history' = [history EXCEPT ![c] = s]
    BY <1>1 DEF StoreRevision, ServiceFits
  <1>5. PICK x : x = [chapter[c] EXCEPT !.latest = @ + 1, !.version = @ + 1]
    OBVIOUS
  <1>6. chapter[c].latest = Len(history[c]) /\ Len(history[c]) < MaxRevisions
    BY DEF StoreRevision
  <1>7. x \in ChapterRows /\ x.latest = Len(s)
    <2>1. PICK n \in Numbers : n = chapter[c].latest + 1 /\ n = Len(s)
      BY <1>3, <1>6, Lengths, WorkspaceAssumption DEF Numbers
    <2>2. PICK m \in Nat : m = chapter[c].version + 1
      BY Lengths
    <2>3. x = [chapter[c] EXCEPT !.latest = n, !.version = m]
      BY <1>5, <2>1, <2>2
    <2> QED
      BY <2>1, <2>2, <2>3, Lengths DEF ChapterRows
  <1>8. chapter' = [chapter EXCEPT ![c] = x]
    BY <1>5 DEF StoreRevision, ServiceFits
  <1>9. Len(s) <= MaxRevisions /\ Len(s) \in Numbers
    BY <1>2, <1>3, <1>6, WorkspaceAssumption DEF Numbers
  <1>10. TextStaysInItsChapter'
    BY <1>3, <1>4 DEF ServiceFits, TextStaysInItsChapter
  <1>11. \A d \in Chapters : /\ Len(history'[d]) <= MaxRevisions
                             /\ chapter'[d].latest <= Len(history'[d])
    BY <1>3, <1>4, <1>7, <1>8, <1>9 DEF ServiceFits
  <1>12. Grows
    BY <1>2, <1>3, <1>4 DEF ServiceFits, Grows
  <1> QED
    BY <1>3, <1>4, <1>6, <1>7, <1>8, <1>9, <1>10, <1>11, <1>12 DEF ServiceFits

(* A row with one more version. *)
LEMMA VersionRaised ==
  ASSUME ServiceFits, NEW c \in Chapters, history' = history, run' \in [Chapters -> Runs],
         chapter' = [chapter EXCEPT ![c].version = @ + 1]
  PROVE  ServiceFits' /\ Grows
  <1>1. PICK m \in Nat : m = chapter[c].version + 1
    BY Lengths
  <1>2. PICK x : x = [chapter[c] EXCEPT !.version = m]
    OBVIOUS
  <1>3. x \in ChapterRows /\ x.latest <= Len(history[c])
    BY <1>1, <1>2, Lengths DEF ChapterRows
  <1>4. chapter' = [chapter EXCEPT ![c] = x]
    BY <1>1, <1>2 DEF ServiceFits
  <1> QED
    BY <1>3, <1>4, RowWritten

LEMMA CommitTask ==
  ASSUME WorkspaceInv, NEW h \in Handlers, NEW version \in Nat, NEW revision \in Numbers,
         Commit(h, version, revision)
  PROVE  \E t \in Tasks : /\ task' = [task EXCEPT ![h] = t] /\ t.step = "committed"
                          /\ t.kind = task[h].kind /\ t.chapter = task[h].chapter
                          /\ t.revision = revision /\ t.settled = task[h].settled
  <1>1. task[h] \in Tasks /\ NoText \in Editors
    BY IdleTask DEF WorkspaceInv
  <1>2. PICK t : t = [task[h] EXCEPT !.step = "committed", !.revision = revision,
                                     !.answer.version = version, !.text = NoText]
    OBVIOUS
  <1>3. PICK a : a = [task[h].answer EXCEPT !.version = version]
    OBVIOUS
  <1>4. a \in ChapterAnswers
    BY <1>1, <1>3 DEF Tasks, ChapterAnswers
  <1>5. t = [task[h] EXCEPT !.step = "committed", !.revision = revision,
                            !.answer = a, !.text = NoText]
    BY <1>1, <1>2, <1>3 DEF Tasks
  <1>6. /\ t \in Tasks /\ t.step = "committed" /\ t.chapter = task[h].chapter
        /\ t.kind = task[h].kind /\ t.revision = revision /\ t.settled = task[h].settled
    BY <1>1, <1>4, <1>5 DEF Tasks, Steps
  <1>7. task' = [task EXCEPT ![h] = t]
    BY <1>2 DEF Commit, Start
  <1> QED
    BY <1>6, <1>7

(* A write has been committed: its handler waits for the answer. *)
LEMMA CommitFits ==
  ASSUME WorkspaceInv, NEW h \in Handlers, task[h].kind \in {"form", "save", "publish"},
         NEW version \in Nat, NEW revision \in Numbers, Commit(h, version, revision),
         task[h].kind = "publish" => revision <= Len(history'[task[h].chapter]),
         UNCHANGED <<page, editor, watch>>, ServiceFits', Grows
  PROVE  WorkspaceInv' /\ DropsAsked
  <1>1. PICK t \in Tasks : /\ task' = [task EXCEPT ![h] = t] /\ t.step = "committed"
                           /\ t.kind = task[h].kind /\ t.chapter = task[h].chapter
                           /\ t.revision = revision /\ t.settled = task[h].settled
    BY CommitTask
  <1>2. t.chapter \in Chapters /\ ((Clears(t) /\ Unsaved) => t.settled)
    BY <1>1 DEF WorkspaceInv, TaskFits, Clears
  <1>3. Unsaved' <=> Unsaved
    BY DEF Unsaved
  <1>4. TaskFits(t)'
    BY <1>1, <1>2, <1>3 DEF TaskFits, Clears
  <1>5. watch' \subseteq Chapters
    BY DEF WorkspaceInv, PageFits
  <1> QED
    BY <1>1, <1>4, <1>5, HandlerMoves

LEMMA PatchChapterStep ==
  ASSUME WorkspaceInv, NEW h \in Handlers, PatchChapter(h)
  PROVE  WorkspaceInv' /\ DropsAsked
  <1>1. PICK c : c = task[h].chapter
    OBVIOUS
  <1>2. /\ task[h].kind = "form" /\ task[h] \in Tasks /\ ServiceFits
        /\ UNCHANGED <<history, run, page, editor, watch>>
    BY DEF PatchChapter, At, WorkspaceInv
  <1>3. c \in Chapters
    BY <1>1, <1>2 DEF WorkspaceInv, TaskFits
  <1>4. chapter' = [chapter EXCEPT ![c].version = @ + 1]
        /\ Commit(h, chapter[c].version + 1, task[h].revision)
    BY <1>1 DEF PatchChapter
  <1>5. ServiceFits' /\ Grows
    BY <1>2, <1>3, <1>4, VersionRaised DEF ServiceFits
  <1>6. chapter[c].version + 1 \in Nat /\ task[h].revision \in Numbers
    BY <1>2, <1>3, Lengths DEF Tasks
  <1> QED
    BY <1>2, <1>4, <1>5, <1>6, CommitFits

(* A text that has not strayed was written in the editor of the chapter it goes to. *)
LEMMA PutContentStep ==
  ASSUME WorkspaceInv, NEW h \in Handlers, PutContent(h)
  PROVE  WorkspaceInv' /\ DropsAsked
  <1>1. PICK s, c : s = task[h] /\ c = task[h].chapter
    OBVIOUS
  <1>2. /\ s.kind = "save" /\ s.step = "sent" /\ s \in Tasks /\ ServiceFits
        /\ UNCHANGED <<run, page, editor, watch>> /\ s.revision = chapter[c].latest
    BY <1>1 DEF PutContent, At, WorkspaceInv
  <1>3. c \in Chapters /\ (s.text.stray \/ s.text.chapter = c) /\ s.text \in Editors
    BY <1>1, <1>2 DEF WorkspaceInv, TaskFits, Tasks
  <1>4. chapter[c].version \in Nat /\ chapter[c].version + 1 \in Nat /\ s.revision \in Numbers
    BY <1>2, <1>3, Lengths
  <1>5. CASE UNCHANGED <<chapter, history>> /\ Commit(h, chapter[c].version, s.revision)
    <2>1. ServiceFits' /\ Grows
      BY <1>2, <1>5, ServiceStays DEF service
    <2> QED
      BY <1>1, <1>2, <1>4, <1>5, <2>1, CommitFits
  <1>6. CASE /\ StoreRevision(c, [chapter |-> s.text.chapter, stray |-> s.text.stray])
             /\ Commit(h, chapter[c].version + 1, s.revision + 1)
    <2>1. PICK o : o = [chapter |-> s.text.chapter, stray |-> s.text.stray]
      OBVIOUS
    <2>2. o \in Origins /\ (o.stray \/ o.chapter = c)
      BY <1>3, <2>1 DEF Origins, Editors
    <2>3. StoreRevision(c, o) /\ run' \in [Chapters -> Runs]
      BY <1>2, <1>6, <2>1 DEF ServiceFits
    <2>4. ServiceFits' /\ Grows /\ s.revision + 1 \in Numbers
      BY <1>2, <1>3, <2>2, <2>3, RevisionStored
    <2> QED
      BY <1>1, <1>2, <1>4, <1>6, <2>4, CommitFits
  <1> QED
    BY <1>1, <1>5, <1>6 DEF PutContent

LEMMA PublishRevisionStep ==
  ASSUME WorkspaceInv, NEW h \in Handlers, PublishRevision(h)
  PROVE  WorkspaceInv' /\ DropsAsked
  <1>1. PICK s, c : s = task[h] /\ c = task[h].chapter
    OBVIOUS
  <1>2. /\ s.kind = "publish" /\ s \in Tasks /\ ServiceFits
        /\ UNCHANGED <<history, page, editor, watch>>
    BY <1>1 DEF PublishRevision, At, WorkspaceInv
  <1>3. c \in Chapters /\ s.revision \in Numbers /\ s.revision <= Len(history[c])
    BY <1>1, <1>2 DEF WorkspaceInv, TaskFits, Tasks
  <1>4. chapter[c].version \in Nat /\ chapter[c].version + 1 \in Nat
    BY <1>2, <1>3, Lengths
  <1>5. CASE UNCHANGED <<chapter, run>> /\ Commit(h, chapter[c].version, s.revision)
    <2>1. ServiceFits' /\ Grows
      BY <1>2, <1>5, ServiceStays DEF service
    <2> QED
      BY <1>1, <1>2, <1>3, <1>4, <1>5, <2>1, CommitFits
  <1>6. CASE /\ chapter' = [chapter EXCEPT ![c].latest = s.revision,
                                           ![c].canonical = s.revision, ![c].version = @ + 1]
             /\ run' = [run EXCEPT ![c] = RunAfterPublication(c, s.revision)]
             /\ Commit(h, chapter[c].version + 1, s.revision)
    <2>1. PICK m \in Nat : m = chapter[c].version + 1
      BY <1>4
    <2>2. PICK x : x = [chapter[c] EXCEPT !.latest = s.revision, !.canonical = s.revision,
                                          !.version = m]
      OBVIOUS
    <2>3. x \in ChapterRows /\ x.latest <= Len(history[c])
      BY <1>2, <1>3, <2>1, <2>2, Lengths DEF ChapterRows
    <2>4. chapter' = [chapter EXCEPT ![c] = x]
      BY <1>6, <2>1, <2>2 DEF ServiceFits
    <2>5. RunAfterPublication(c, s.revision) \in Runs
      BY <1>2, <1>3, WorkspaceAssumption
      DEF RunAfterPublication, ServiceFits, Runs, RunStatuses, Numbers
    <2>6. run' \in [Chapters -> Runs]
      BY <1>2, <1>6, <2>5 DEF ServiceFits
    <2>7. ServiceFits' /\ Grows
      BY <1>2, <1>3, <2>3, <2>4, <2>6, RowWritten
    <2> QED
      BY <1>1, <1>2, <1>3, <1>4, <1>6, <2>7, CommitFits
  <1> QED
    BY <1>1, <1>5, <1>6 DEF PublishRevision

LEMMA AnswerOf ==
  ASSUME ServiceFits, NEW c \in Chapters, NEW version \in Nat, NEW a, a = Answer(c, version)
  PROVE  a \in ChapterAnswers /\ a.id = c /\ AnswerFits(a)
  <1>1. /\ a = [id |-> c, latest |-> chapter[c].latest, version |-> version,
                published |-> chapter[c].latest # 0 /\ chapter[c].latest = chapter[c].canonical]
        /\ c \in Ids
    BY DEF Answer, Ids
  <1>2. PICK b \in BOOLEAN : b = (chapter[c].latest # 0
                                  /\ chapter[c].latest = chapter[c].canonical)
    OBVIOUS
  <1>3. a = [id |-> c, latest |-> chapter[c].latest, version |-> version, published |-> b]
    BY <1>1, <1>2
  <1> QED
    BY <1>1, <1>3, Lengths DEF AnswerFits, ChapterAnswers

LEMMA ReadBackStep ==
  ASSUME WorkspaceInv, NEW h \in Handlers, ReadBack(h)
  PROVE  WorkspaceInv' /\ DropsAsked
  <1>1. PICK s, c, v : /\ s = task[h] /\ c = task[h].chapter
                       /\ v = IF task[h].kind = "load" THEN chapter[c].version
                              ELSE task[h].answer.version
    OBVIOUS
  <1>2. /\ s.kind \in {"load", "form", "save", "publish"} /\ s.step = "committed" /\ s \in Tasks
        /\ UNCHANGED <<chapter, history, run, page, editor, watch>> /\ ServiceFits
    BY <1>1 DEF ReadBack, WorkspaceInv, service
  <1>3. TaskFits(s) /\ c \in Chapters
    BY <1>1, <1>2 DEF WorkspaceInv, TaskFits
  <1>4. PICK a : a = Answer(c, v)
    OBVIOUS
  <1>5. v \in Nat
    BY <1>1, <1>2, <1>3, Lengths DEF Tasks, ChapterAnswers
  <1>6. a \in ChapterAnswers /\ a.id = c /\ AnswerFits(a)
    BY <1>2, <1>3, <1>4, <1>5, AnswerOf
  <1>7. PICK t : t = [s EXCEPT !.step = "answered", !.answer = a]
    OBVIOUS
  <1>8. /\ t \in Tasks /\ t.step = "answered" /\ t.kind = s.kind /\ t.chapter = c
        /\ t.answer = a /\ t.revision = s.revision /\ t.settled = s.settled
    BY <1>1, <1>2, <1>6, <1>7 DEF Tasks, Steps
  <1>9. task' = [task EXCEPT ![h] = t]
    BY <1>1, <1>4, <1>7 DEF ReadBack, Start
  <1>10. AnswerFits(t.answer)' /\ (Unsaved' <=> Unsaved)
    BY <1>2, <1>6, <1>8 DEF AnswerFits, Unsaved
  <1>11. TaskFits(t)'
    BY <1>1, <1>2, <1>3, <1>6, <1>8, <1>10 DEF TaskFits, Clears
  <1>12. ServiceFits' /\ Grows /\ watch' \subseteq Chapters
    BY <1>2, ServiceStays DEF service, WorkspaceInv, PageFits
  <1> QED
    BY <1>2, <1>8, <1>9, <1>11, <1>12, HandlerMoves

LEMMA GenerateRunStep ==
  ASSUME WorkspaceInv, NEW h \in Handlers, GenerateRun(h)
  PROVE  WorkspaceInv' /\ DropsAsked
  <1>1. PICK s, c : s = task[h] /\ c = task[h].chapter
    OBVIOUS
  <1>2. /\ s.kind = "generate" /\ s \in Tasks /\ ServiceFits /\ TaskFits(s)
        /\ UNCHANGED <<history, page, editor, watch>>
        /\ run' = [run EXCEPT ![c] = [status |-> "RUNNING", candidate |-> 0]]
        /\ chapter' = [chapter EXCEPT ![c].version = @ + 1]
    BY <1>1 DEF GenerateRun, At, WorkspaceInv
  <1>3. c \in Chapters /\ page.chapter.id # NoChapter
    BY <1>1, <1>2 DEF TaskFits
  <1>4. run' \in [Chapters -> Runs]
    <2>1. PICK x : x = [status |-> "RUNNING", candidate |-> 0]
      OBVIOUS
    <2>2. x \in Runs
      BY <2>1, WorkspaceAssumption DEF Runs, RunStatuses, Numbers
    <2>3. run' = [run EXCEPT ![c] = x]
      BY <1>2, <2>1
    <2> QED
      BY <1>2, <2>2, <2>3 DEF ServiceFits
  <1>5. ServiceFits' /\ Grows
    BY <1>2, <1>3, <1>4, VersionRaised
  <1>6. PICK t : t = [s EXCEPT !.step = "answered"]
    OBVIOUS
  <1>7. t \in Tasks /\ t.kind = "generate" /\ t.chapter = c
    BY <1>1, <1>2, <1>6 DEF Tasks, Steps
  <1>8. TaskFits(t)'
    BY <1>2, <1>3, <1>7 DEF TaskFits, Clears
  <1>9. task' = [task EXCEPT ![h] = t] /\ watch' \subseteq Chapters
    BY <1>1, <1>2, <1>6 DEF GenerateRun, Start, WorkspaceInv, PageFits
  <1> QED
    BY <1>2, <1>5, <1>7, <1>8, <1>9, HandlerMoves

LEMMA FailStep ==
  ASSUME WorkspaceInv, NEW h \in Handlers, Fail(h)
  PROVE  WorkspaceInv' /\ DropsAsked
  BY FinishFits DEF Fail, WorkspaceInv, PageFits

LEMMA OtherPageSavesStep ==
  ASSUME WorkspaceInv, NEW c \in Chapters, OtherPageSaves(c)
  PROVE  WorkspaceInv' /\ DropsAsked
  <1>1. PICK o : o = [chapter |-> c, stray |-> FALSE]
    OBVIOUS
  <1>2. o \in Origins /\ o.chapter = c
    BY <1>1 DEF Origins, Ids
  <1>3. ServiceFits /\ StoreRevision(c, o) /\ run' \in [Chapters -> Runs]
    BY <1>1 DEF OtherPageSaves, WorkspaceInv, ServiceFits
  <1> QED
    BY <1>2, <1>3, RevisionStored, OthersWrite DEF OtherPageSaves

LEMMA WorkerEndsStep ==
  ASSUME WorkspaceInv, NEW c \in Chapters, WorkerEnds(c)
  PROVE  WorkspaceInv' /\ DropsAsked
  <1>1. ServiceFits /\ run[c] \in Runs
    BY DEF WorkspaceInv, ServiceFits
  <1>2. CASE /\ StoreRevision(c, [chapter |-> c, stray |-> FALSE])
             /\ run' = [run EXCEPT ![c] = [status |-> "AWAITING_REVIEW",
                                           candidate |-> chapter[c].latest + 1]]
    <2>1. PICK o : o = [chapter |-> c, stray |-> FALSE]
      OBVIOUS
    <2>2. o \in Origins /\ o.chapter = c
      BY <2>1 DEF Origins, Ids
    <2>3. chapter[c].latest + 1 \in Numbers
      BY <1>1, <1>2, Lengths, WorkspaceAssumption DEF StoreRevision, Numbers
    <2>4. run' \in [Chapters -> Runs]
      BY <1>1, <1>2, <2>3 DEF ServiceFits, Runs, RunStatuses
    <2> QED
      BY <1>1, <1>2, <2>1, <2>2, <2>4, RevisionStored, OthersWrite DEF WorkerEnds
  <1>3. CASE /\ run' = [run EXCEPT ![c].status = "FAILED"]
             /\ chapter' = [chapter EXCEPT ![c].version = @ + 1]
             /\ UNCHANGED history
    <2>1. PICK x : x = [run[c] EXCEPT !.status = "FAILED"]
      OBVIOUS
    <2>2. x \in Runs
      BY <1>1, <2>1 DEF Runs, RunStatuses
    <2>3. run' = [run EXCEPT ![c] = x]
      BY <1>3, <2>1
    <2>4. run' \in [Chapters -> Runs]
      BY <1>1, <2>2, <2>3 DEF ServiceFits
    <2> QED
      BY <1>1, <1>3, <2>4, VersionRaised, OthersWrite DEF WorkerEnds
  <1> QED
    BY <1>2, <1>3 DEF WorkerEnds

-------------------------------------------------------------------------------
(* The author *)

LEMMA TypeTextStep ==
  ASSUME WorkspaceInv, TypeText
  PROVE  WorkspaceInv' /\ DropsAsked
  <1>1. PICK b \in BOOLEAN : b = AnswerToCome
    BY DEF AnswerToCome
  <1>2. PICK e, p, f : /\ e = [editor EXCEPT !.typed = TRUE, !.late = b]
                       /\ p = [page EXCEPT !.dirtyContent = TRUE] /\ f = Unsettled
    OBVIOUS
  <1>3. editor \in Editors /\ page \in PageStates /\ watch \subseteq Chapters /\ ServiceFits
    BY DEF WorkspaceInv, PageFits
  <1>4. /\ e \in Editors /\ e.chapter = editor.chapter /\ e.stray = editor.stray /\ e.typed
        /\ e.late = b /\ p \in PageStates /\ p.dirtyContent /\ p.chapter = page.chapter
        /\ p.generation = page.generation
    BY <1>2, <1>3 DEF Editors, PageStates
  <1>5. editor' = e /\ page' = p /\ task' = f /\ UNCHANGED service /\ watch' = watch
    BY <1>1, <1>2 DEF TypeText
  <1>6. ServiceFits' /\ Grows /\ Shows
    BY <1>4, <1>5, ServiceStays DEF Shows
  <1>7. PageFits'
    BY <1>3, <1>4, <1>5 DEF WorkspaceInv, PageFits, AnswerFits, service, Unsaved
  <1>8. ASSUME NEW g \in Handlers
        PROVE  f[g] \in Tasks /\ TaskFits(f[g])'
    <2>1. Clears(task[g]) => AnswerToCome
      BY DEF Clears, AnswerToCome
    <2>2. (Clears(task[g]) /\ Unsaved') => FALSE
      BY <1>1, <1>4, <1>5, <2>1 DEF Unsaved
    <2>3. PICK u \in Tasks : u = f[g] /\ TaskFits(u)'
      BY <1>2, <1>6, <2>2, UnsettledFits
    <2> QED
      BY <2>3
  <1>9. f \in [Handlers -> Tasks]
    BY <1>2, <1>8 DEF Unsettled
  <1>10. task' \in [Handlers -> Tasks] /\ \A g \in Handlers : TaskFits(task[g])'
    BY <1>5, <1>8, <1>9
  <1> QED
    BY <1>4, <1>5, <1>6, <1>7, <1>10 DEF WorkspaceInv, DropsAsked

(* The page changes, not the text area, its mark or the page's chapter. *)
LEMMA PageMarks ==
  ASSUME WorkspaceInv, UNCHANGED <<service, editor, watch, task>>, page' \in PageStates,
         page'.chapter = page.chapter, page'.generation = page.generation,
         page'.dirtyContent = page.dirtyContent
  PROVE  WorkspaceInv' /\ DropsAsked
  <1>1. ServiceFits' /\ Grows /\ Shows /\ (Unsaved' <=> Unsaved)
    BY ServiceStays DEF Shows, Unsaved
  <1>2. PageFits'
    BY <1>1 DEF WorkspaceInv, PageFits, AnswerFits, service
  <1>3. ASSUME NEW g \in Handlers
        PROVE  TaskFits(task[g])'
    <2>1. PICK u \in Tasks : u = task[g] /\ u = task'[g] /\ TaskFits(u)
      BY DEF WorkspaceInv
    <2>2. TaskFits(u)'
      BY <1>1, <2>1, OtherFits DEF WorkspaceInv
    <2> QED
      BY <2>1, <2>2
  <1> QED
    BY <1>1, <1>2, <1>3 DEF WorkspaceInv, DropsAsked

LEMMA TypeFormStep ==
  ASSUME WorkspaceInv, TypeForm
  PROVE  WorkspaceInv' /\ DropsAsked
  <1>1. page \in PageStates /\ page' = [page EXCEPT !.dirtyMeta = TRUE]
        /\ UNCHANGED <<service, editor, watch, task>>
    BY DEF WorkspaceInv, PageFits, TypeForm
  <1>2. /\ page' \in PageStates /\ page'.chapter = page.chapter
        /\ page'.generation = page.generation /\ page'.dirtyContent = page.dirtyContent
    BY <1>1 DEF PageStates
  <1> QED
    BY <1>1, <1>2, PageMarks

LEMMA SaveNothingStep ==
  ASSUME WorkspaceInv, SaveNothing
  PROVE  WorkspaceInv' /\ DropsAsked
  <1>1. PICK r : r = Latest(page)
    OBVIOUS
  <1>2. page \in PageStates /\ page' = [page EXCEPT !.viewing = r]
        /\ UNCHANGED <<service, editor, watch, task>>
    BY <1>1 DEF WorkspaceInv, PageFits, SaveNothing
  <1>3. r \in Revisions
    BY <1>1, <1>2 DEF Latest, Revisions, PageStates, ChapterAnswers
  <1>4. /\ page' \in PageStates /\ page'.chapter = page.chapter
        /\ page'.generation = page.generation /\ page'.dirtyContent = page.dirtyContent
    BY <1>2, <1>3 DEF PageStates
  <1> QED
    BY <1>2, <1>4, PageMarks

LEMMA ResumeGenerationStep ==
  ASSUME WorkspaceInv, ResumeGeneration
  PROVE  WorkspaceInv' /\ DropsAsked
  <1>1. PICK c : c = page.generation
    OBVIOUS
  <1>2. c \in Chapters /\ ServiceFits /\ watch \subseteq Chapters
    BY <1>1 DEF ResumeGeneration, WorkspaceInv, PageFits, PageStates, Ids
  <1>3. run' \in [Chapters -> Runs]
    <2>1. PICK x : x = [run[c] EXCEPT !.status = "RUNNING"]
      OBVIOUS
    <2>2. x \in Runs
      BY <1>2, <2>1 DEF ServiceFits, Runs, RunStatuses
    <2>3. run' = [run EXCEPT ![c] = x]
      BY <1>1, <2>1 DEF ResumeGeneration
    <2> QED
      BY <1>2, <2>2, <2>3 DEF ServiceFits
  <1>4. /\ UNCHANGED <<chapter, history, page, editor, task>> /\ watch' \subseteq Chapters
    BY <1>1, <1>2 DEF ResumeGeneration
  <1>5. ServiceFits' /\ Grows
    BY <1>2, <1>3, <1>4 DEF ServiceFits, Grows, TextStaysInItsChapter
  <1>6. PageFits' /\ Shows /\ (Unsaved' => Unsaved)
    BY <1>4, <1>5, PageStays
  <1>7. ASSUME NEW g \in Handlers
        PROVE  TaskFits(task[g])'
    <2>1. PICK u \in Tasks : u = task[g] /\ u = task'[g] /\ TaskFits(u)
      BY <1>4 DEF WorkspaceInv
    <2>2. TaskFits(u)'
      BY <1>5, <1>6, <2>1, OtherFits DEF WorkspaceInv
    <2> QED
      BY <2>1, <2>2
  <1> QED
    BY <1>4, <1>5, <1>6, <1>7 DEF WorkspaceInv, DropsAsked

(* The page's chapter, when there is one. *)
LEMMA PageChapter ==
  ASSUME WorkspaceInv, page.chapter.id # NoChapter
  PROVE  /\ page.chapter.id \in Chapters /\ page.chapter.id \in Ids
         /\ page.chapter.latest \in Numbers /\ page.chapter.version \in Nat
         /\ page.chapter.latest <= Len(history[page.chapter.id])
         /\ page.chapter \in ChapterAnswers
  BY DEF WorkspaceInv, PageFits, PageStates, ChapterAnswers, AnswerFits, Ids

(* The tasks of the clicks. *)
LEMMA LoadTaskFits ==
  ASSUME WorkspaceInv, NEW c \in Chapters, UNCHANGED <<service, page, editor>>
  PROVE  \E t \in Tasks : t = LoadTask(c) /\ TaskFits(t)'
  <1>0. PICK b \in BOOLEAN : b = (AsksBeforeLoad /\ editor.typed)
    OBVIOUS
  <1>1. PICK t : t = LoadTask(c)
    OBVIOUS
  <1>2. t = [NoTask EXCEPT !.kind = "load", !.step = "committed", !.chapter = c, !.settled = b]
    BY <1>0, <1>1 DEF LoadTask
  <1>3. /\ t \in Tasks /\ t.kind = "load" /\ t.step = "committed" /\ t.chapter = c
        /\ t.settled = b
    BY <1>2, IdleTask DEF Tasks, Kinds, Steps, Ids
  <1>4. Unsaved => b
    BY <1>0 DEF WorkspaceInv, PageFits, Unsaved, AsksBeforeLoad, Dirty
  <1>5. TaskFits(t)'
    BY <1>3, <1>4 DEF TaskFits, Unsaved
  <1> QED
    BY <1>1, <1>3, <1>5

LEMMA SelectChapterStep ==
  ASSUME WorkspaceInv, NEW h \in Handlers, NEW c \in Chapters, SelectChapter(h, c)
  PROVE  WorkspaceInv' /\ DropsAsked
  <1>1. UNCHANGED <<service, page, editor, watch>>
    BY DEF SelectChapter
  <1>2. PICK t \in Tasks : t = LoadTask(c) /\ TaskFits(t)'
    BY <1>1, LoadTaskFits
  <1>3. task' = [task EXCEPT ![h] = t] /\ watch' \subseteq Chapters
    BY <1>1, <1>2 DEF SelectChapter, Start, WorkspaceInv, PageFits
  <1> QED
    BY <1>1, <1>2, <1>3, ServiceStays, HandlerMoves

LEMMA LoadHistoricalRevisionStep ==
  ASSUME WorkspaceInv, NEW h \in Handlers, NEW n \in Numbers, LoadHistoricalRevision(h, n)
  PROVE  WorkspaceInv' /\ DropsAsked
  <1>1. UNCHANGED <<service, page, editor, watch>> /\ page.chapter.id # NoChapter
    BY DEF LoadHistoricalRevision
  <1>2. PICK b \in BOOLEAN, c \in Chapters :
             b = (page.dirtyContent /\ editor.typed) /\ c = page.chapter.id
    BY <1>1, PageChapter
  <1>3. PICK t : t = [NoTask EXCEPT !.kind = "history", !.step = "answered", !.revision = n,
                                    !.chapter = c, !.settled = b]
    OBVIOUS
  <1>4. t \in Tasks /\ t.kind = "history" /\ t.chapter = c /\ t.settled = b
    BY <1>3, IdleTask DEF Tasks, Kinds, Steps, Ids
  <1>5. Unsaved => b
    BY <1>2 DEF WorkspaceInv, PageFits, Unsaved
  <1>6. TaskFits(t)'
    BY <1>1, <1>4, <1>5 DEF TaskFits, Unsaved
  <1>7. task' = [task EXCEPT ![h] = t] /\ watch' \subseteq Chapters
    BY <1>1, <1>2, <1>3 DEF LoadHistoricalRevision, Start, WorkspaceInv, PageFits
  <1> QED
    BY <1>1, <1>4, <1>6, <1>7, ServiceStays, HandlerMoves

LEMMA SaveFormOf ==
  ASSUME NEW p, p.chapter \in ChapterAnswers, p.chapter.id \in Chapters,
         NEW next \in {"none", "publish", "generate"}, NEW t, t = SaveForm(p, next)
  PROVE  t \in Tasks /\ t.kind = "form" /\ t.step = "sent" /\ t.chapter = p.chapter.id
  <1>1. PICK a : a = [NoAnswer EXCEPT !.version = p.chapter.version]
    OBVIOUS
  <1>2. a \in ChapterAnswers
    <2>1. NoAnswer \in ChapterAnswers
      BY IdleTask DEF Tasks, NoTask
    <2> QED
      BY <1>1, <2>1 DEF ChapterAnswers
  <1>3. NoTask.answer = NoAnswer
    BY DEF NoTask
  <1>4. t = [NoTask EXCEPT !.kind = "form", !.step = "sent", !.chapter = p.chapter.id,
                           !.answer = a, !.next = next]
    BY <1>1, <1>3, IdleTask DEF SaveForm, Tasks
  <1> QED
    BY <1>2, <1>4, IdleTask DEF Tasks, Kinds, Steps, Ids

LEMMA SaveTextOf ==
  ASSUME NEW p, p.chapter \in ChapterAnswers, p.chapter.id \in Chapters, NEW e \in Editors,
         NEW next \in {"none", "publish", "generate"}, NEW t, t = SaveText(p, e, next)
  PROVE  /\ t \in Tasks /\ t.kind = "save" /\ t.step = "sent" /\ t.chapter = p.chapter.id
         /\ t.text.stray = e.stray /\ t.text.chapter = e.chapter /\ t.settled
  <1>1. PICK x : x = [e EXCEPT !.late = FALSE]
    OBVIOUS
  <1>2. x \in Editors /\ x.stray = e.stray /\ x.chapter = e.chapter
    BY <1>1 DEF Editors
  <1>3. t = [NoTask EXCEPT !.kind = "save", !.step = "sent", !.chapter = p.chapter.id,
                           !.revision = p.chapter.latest, !.text = x, !.settled = TRUE,
                           !.next = next]
    BY <1>1 DEF SaveText
  <1>4. p.chapter.latest \in Numbers
    BY DEF ChapterAnswers
  <1> QED
    BY <1>2, <1>3, <1>4, IdleTask DEF Tasks, Kinds, Steps, Ids

LEMMA SaveAllStep ==
  ASSUME WorkspaceInv, NEW h \in Handlers, NEW next \in {"none", "publish", "generate"},
         SaveAll(h, next)
  PROVE  WorkspaceInv' /\ DropsAsked
  <1>1. UNCHANGED <<service, page, editor, watch>> /\ page.chapter.id # NoChapter
    BY DEF SaveAll
  <1>2. editor \in Editors /\ watch' \subseteq Chapters
    BY <1>1 DEF WorkspaceInv, PageFits
  <1>3. CASE task' = [task EXCEPT ![h] = SaveForm(page, next)]
    <2>1. PICK t : t = SaveForm(page, next)
      OBVIOUS
    <2>2. t \in Tasks /\ t.kind = "form" /\ t.step = "sent" /\ t.chapter \in Chapters
      BY <1>1, <2>1, PageChapter, SaveFormOf
    <2>3. TaskFits(t)'
      BY <2>2 DEF TaskFits, Clears
    <2> QED
      BY <1>1, <1>2, <1>3, <2>1, <2>2, <2>3, ServiceStays, HandlerMoves
  <1>4. CASE task' = [task EXCEPT ![h] = SaveText(page, editor, next)]
    <2>1. PICK t : t = SaveText(page, editor, next)
      OBVIOUS
    <2>2. /\ t \in Tasks /\ t.kind = "save" /\ t.step = "sent" /\ t.chapter = page.chapter.id
          /\ t.text.stray = editor.stray /\ t.text.chapter = editor.chapter /\ t.settled
      BY <1>1, <1>2, <2>1, PageChapter, SaveTextOf
    <2>3. t.chapter \in Chapters /\ (t.text.stray \/ t.text.chapter = t.chapter)
      BY <1>1, <2>2, PageChapter DEF WorkspaceInv, PageFits
    <2>4. TaskFits(t)'
      BY <2>2, <2>3 DEF TaskFits, Clears
    <2> QED
      BY <1>1, <1>2, <1>4, <2>1, <2>2, <2>4, ServiceStays, HandlerMoves
  <1> QED
    BY <1>3, <1>4 DEF SaveAll, Start

LEMMA PublishTaskFits ==
  ASSUME WorkspaceInv, page.chapter.id # NoChapter, UNCHANGED <<service, page, editor>>
  PROVE  \E t \in Tasks : t = PublishTask /\ TaskFits(t)'
  <1>1. PICK t : t = PublishTask
    OBVIOUS
  <1>2. /\ t \in Tasks /\ t.kind = "publish" /\ t.step = "sent" /\ t.chapter = page.chapter.id
        /\ t.revision = page.chapter.latest
    BY <1>1, PageChapter, IdleTask DEF PublishTask, Tasks, Kinds, Steps
  <1>3. TaskFits(t)'
    BY <1>2, PageChapter DEF TaskFits, Clears, service
  <1> QED
    BY <1>1, <1>2, <1>3

LEMMA GenerateTaskFits ==
  ASSUME WorkspaceInv, page.chapter.id # NoChapter, UNCHANGED <<service, page, editor>>
  PROVE  \E t \in Tasks : t = GenerateTask /\ TaskFits(t)'
  <1>1. PICK t : t = GenerateTask
    OBVIOUS
  <1>2. t \in Tasks /\ t.kind = "generate" /\ t.step = "sent" /\ t.chapter = page.chapter.id
    BY <1>1, PageChapter, IdleTask DEF GenerateTask, Tasks, Kinds, Steps
  <1>3. TaskFits(t)'
    BY <1>2, PageChapter DEF TaskFits, Clears
  <1> QED
    BY <1>1, <1>2, <1>3

(* A click, or what follows a save, that leaves all but its handler as it is. *)
LEMMA RequestStep ==
  ASSUME WorkspaceInv, NEW h \in Handlers, page.chapter.id # NoChapter,
         UNCHANGED <<service, page, editor, watch>>,
         Start(h, PublishTask) \/ Start(h, GenerateTask)
  PROVE  WorkspaceInv' /\ DropsAsked
  <1>1. PICK t \in Tasks : task' = [task EXCEPT ![h] = t] /\ TaskFits(t)'
    BY PublishTaskFits, GenerateTaskFits DEF Start
  <1>2. watch' \subseteq Chapters
    BY DEF WorkspaceInv, PageFits
  <1> QED
    BY <1>1, <1>2, ServiceStays, HandlerMoves

LEMMA PublishCurrentStep ==
  ASSUME WorkspaceInv, NEW h \in Handlers, PublishCurrent(h)
  PROVE  WorkspaceInv' /\ DropsAsked
  BY RequestStep DEF PublishCurrent

LEMMA GenerateCandidateStep ==
  ASSUME WorkspaceInv, NEW h \in Handlers, GenerateCandidate(h)
  PROVE  WorkspaceInv' /\ DropsAsked
  BY RequestStep DEF GenerateCandidate

-------------------------------------------------------------------------------
(* The answers *)

(* The answer of a load that was not unsettled: unsaved text was given up. *)
LEMMA ReceiveChapterStep ==
  ASSUME WorkspaceInv, NEW h \in Handlers, ReceiveChapter(h)
  PROVE  WorkspaceInv' /\ DropsAsked
  <1>1. PICK s, a, p : /\ s = task[h] /\ a = task[h].answer
                       /\ p = [page EXCEPT !.chapter = a, !.dirtyContent = FALSE,
                                           !.dirtyMeta = FALSE,
                                           !.viewing = [chapter |-> a.id, number |-> a.latest]]
    OBVIOUS
  <1>2. /\ s.kind = "load" /\ s.step = "answered" /\ s \in Tasks /\ TaskFits(s)
        /\ page \in PageStates /\ watch \subseteq Chapters
    BY <1>1 DEF ReceiveChapter, At, WorkspaceInv, PageFits
  <1>3. /\ a \in ChapterAnswers /\ AnswerFits(a) /\ a.id \in Chapters /\ a.id # NoChapter
        /\ a.id \in Ids /\ a.latest \in Numbers
    BY <1>1, <1>2, WorkspaceAssumption DEF TaskFits, AnswerFits, Tasks, ChapterAnswers
  <1>4. p \in PageStates /\ p.chapter = a
    <2>1. PICK r : r = [chapter |-> a.id, number |-> a.latest]
      OBVIOUS
    <2>2. r \in Revisions
      BY <1>3, <2>1 DEF Revisions
    <2>3. p = [page EXCEPT !.chapter = a, !.dirtyContent = FALSE, !.dirtyMeta = FALSE,
                           !.viewing = r]
      BY <1>1, <2>1
    <2> QED
      BY <1>2, <1>3, <2>2, <2>3 DEF PageStates
  <1>5. PICK e : e = LoadedText(a)
    OBVIOUS
  <1>6. e \in Editors /\ e.chapter = a.id /\ ~e.typed
    BY <1>3, <1>5, IdleTask DEF LoadedText, Editors
  <1>7. page' = p /\ editor' = e /\ UNCHANGED <<service, watch>>
    BY <1>1, <1>5 DEF ReceiveChapter
  <1>8. ServiceFits' /\ Grows /\ Shows /\ ~Unsaved'
    BY <1>3, <1>4, <1>6, <1>7, ServiceStays DEF Shows, Unsaved
  <1>9. PageFits'
    BY <1>2, <1>3, <1>4, <1>6, <1>7, <1>8 DEF PageFits, AnswerFits, service
  <1>10. PICK t : t = [NoTask EXCEPT !.kind = "load", !.step = "filled"]
    OBVIOUS
  <1>11. t \in Tasks /\ t.kind = "load" /\ t.step = "filled"
    BY <1>10, IdleTask DEF Tasks, Kinds, Steps
  <1>12. TaskFits(t)'
    BY <1>3, <1>4, <1>7, <1>11 DEF TaskFits, Clears
  <1>13. task' = [Unsettled EXCEPT ![h] = t]
    BY <1>10 DEF ReceiveChapter
  <1>14. WorkspaceInv'
    BY <1>8, <1>9, <1>11, <1>12, <1>13, RefillFits
  <1>15. task'[h] # task[h]
    <2>1. task'[h] = t
      BY <1>13 DEF Unsettled
    <2> QED
      BY <1>1, <1>2, <1>11, <2>1
  <1>16. Unsaved => task[h].settled
    BY <1>1, <1>2 DEF TaskFits, Clears
  <1> QED
    BY <1>14, <1>15, <1>16 DEF DropsAsked, Unsaved

LEMMA ReceiveHistoryStep ==
  ASSUME WorkspaceInv, NEW h \in Handlers, ReceiveHistory(h)
  PROVE  WorkspaceInv' /\ DropsAsked
  <1>1. PICK s, r : s = task[h] /\ r = [chapter |-> task[h].chapter, number |-> task[h].revision]
    OBVIOUS
  <1>2. /\ s.kind = "history" /\ s \in Tasks /\ TaskFits(s)
        /\ page \in PageStates /\ watch \subseteq Chapters
    BY <1>1 DEF ReceiveHistory, At, WorkspaceInv, PageFits
  <1>3. r \in Revisions /\ s.chapter \in Ids /\ s.revision \in Numbers
    BY <1>1, <1>2 DEF Tasks, Revisions
  <1>4. PICK b \in BOOLEAN : b = (r # Latest(page))
    OBVIOUS
  <1>5. PICK d \in BOOLEAN : d = (s.chapter # page.chapter.id)
    OBVIOUS
  <1>6. PICK p, e : /\ p = [page EXCEPT !.viewing = r, !.dirtyContent = b]
                    /\ e = [NoText EXCEPT !.chapter = s.chapter, !.revision = s.revision,
                                          !.stray = d]
    OBVIOUS
  <1>7. /\ p \in PageStates /\ p.chapter = page.chapter /\ p.generation = page.generation
        /\ e \in Editors /\ e.chapter = s.chapter /\ e.stray = d /\ ~e.typed
    BY <1>2, <1>3, <1>6, IdleTask DEF PageStates, Editors
  <1>8. page' = p /\ editor' = e /\ UNCHANGED <<service, watch>>
    BY <1>1, <1>4, <1>5, <1>6 DEF ReceiveHistory
  <1>9. ServiceFits' /\ Grows /\ Shows /\ ~Unsaved'
    BY <1>7, <1>8, ServiceStays DEF Shows, Unsaved
  <1>10. PageFits'
    BY <1>2, <1>5, <1>7, <1>8, <1>9 DEF WorkspaceInv, PageFits, AnswerFits, service
  <1>11. task' = [Unsettled EXCEPT ![h] = NoTask]
    BY DEF ReceiveHistory
  <1>12. TaskFits(NoTask)'
    BY IdleFits, PTL
  <1>13. WorkspaceInv'
    BY <1>9, <1>10, <1>11, <1>12, IdleTask, RefillFits
  <1>14. task'[h] # task[h]
    <2>1. task'[h] = NoTask
      BY <1>11 DEF Unsettled
    <2> QED
      BY <1>1, <1>2, <2>1, IdleTask
  <1>15. Unsaved => task[h].settled
    BY <1>1, <1>2 DEF TaskFits, Clears
  <1> QED
    BY <1>13, <1>14, <1>15 DEF DropsAsked, Unsaved

LEMMA AskRunStep ==
  ASSUME WorkspaceInv, NEW h \in Handlers, AskRun(h)
  PROVE  WorkspaceInv' /\ DropsAsked
  <1>1. PICK s, c, x : s = task[h] /\ c = page.chapter.id /\ x = run[c].status
    OBVIOUS
  <1>2. /\ s.kind = "load" /\ s.step = "filled" /\ s \in Tasks /\ TaskFits(s) /\ ServiceFits
        /\ UNCHANGED <<service, page, editor, watch>>
    BY <1>1 DEF AskRun, At, WorkspaceInv
  <1>3. c # NoChapter /\ c \in Chapters /\ c \in Ids
    BY <1>1, <1>2, PageChapter DEF TaskFits
  <1>4. x \in RunStatuses
    BY <1>1, <1>2, <1>3 DEF ServiceFits, Runs
  <1>5. PICK t : t = [s EXCEPT !.step = "asked", !.chapter = c, !.status = x]
    OBVIOUS
  <1>6. t \in Tasks /\ t.kind = "load" /\ t.step = "asked" /\ t.chapter = c
    BY <1>2, <1>3, <1>4, <1>5 DEF Tasks, Steps
  <1>7. TaskFits(t)'
    BY <1>1, <1>2, <1>3, <1>6 DEF TaskFits, Clears
  <1>8. task' = [task EXCEPT ![h] = t] /\ watch' \subseteq Chapters
    BY <1>1, <1>2, <1>5 DEF AskRun, Start, WorkspaceInv, PageFits
  <1> QED
    BY <1>2, <1>6, <1>7, <1>8, ServiceStays, HandlerMoves

(* The card and the handlers change. *)
LEMMA CardFits ==
  ASSUME WorkspaceInv, NEW h \in Handlers, NEW c \in Ids, page.chapter.id # NoChapter,
         page' = [page EXCEPT !.generation = c], watch' \subseteq Chapters,
         UNCHANGED <<service, editor>>, Finish(h)
  PROVE  WorkspaceInv' /\ DropsAsked
  <1>1. page \in PageStates
    BY DEF WorkspaceInv, PageFits
  <1>2. /\ page' \in PageStates /\ page'.chapter = page.chapter
        /\ page'.dirtyContent = page.dirtyContent
    BY <1>1 DEF PageStates
  <1>3. ServiceFits' /\ Grows /\ Shows /\ (Unsaved' <=> Unsaved)
    BY <1>2, ServiceStays DEF Shows, Unsaved
  <1>4. PageFits'
    BY <1>2, <1>3 DEF WorkspaceInv, PageFits, AnswerFits, service
  <1>5. TaskFits(NoTask)'
    BY IdleFits, PTL
  <1> QED
    BY <1>3, <1>4, <1>5, IdleTask, StepFits DEF Finish, Start, DropsAsked

LEMMA ReceiveRunStep ==
  ASSUME WorkspaceInv, NEW h \in Handlers, ReceiveRun(h)
  PROVE  WorkspaceInv' /\ DropsAsked
  <1>1. PICK s, c : s = task[h] /\ c = IF task[h].status = "none" THEN NoChapter
                                       ELSE task[h].chapter
    OBVIOUS
  <1>2. /\ s.kind = "load" /\ s.step = "asked" /\ s \in Tasks /\ TaskFits(s)
        /\ watch \subseteq Chapters
    BY <1>1 DEF ReceiveRun, At, WorkspaceInv, PageFits
  <1>3. s.chapter \in Chapters /\ page.chapter.id # NoChapter /\ c \in Ids
    BY <1>1, <1>2 DEF TaskFits, Ids
  <1>4. /\ page' = [page EXCEPT !.generation = c] /\ UNCHANGED <<service, editor>>
        /\ Finish(h) /\ watch' \subseteq Chapters
    BY <1>1, <1>2, <1>3 DEF ReceiveRun
  <1> QED
    BY <1>3, <1>4, CardFits

LEMMA ReceiveGenerationStep ==
  ASSUME WorkspaceInv, NEW h \in Handlers, ReceiveGeneration(h)
  PROVE  WorkspaceInv' /\ DropsAsked
  <1>1. PICK s : s = task[h]
    OBVIOUS
  <1>2. s.kind = "generate" /\ TaskFits(s) /\ watch \subseteq Chapters
    BY <1>1 DEF ReceiveGeneration, At, WorkspaceInv, PageFits
  <1>3. s.chapter \in Chapters /\ page.chapter.id # NoChapter /\ s.chapter \in Ids
    BY <1>2 DEF TaskFits, Ids
  <1> QED
    BY <1>1, <1>2, <1>3, CardFits DEF ReceiveGeneration

(* The text area while the page's chapter becomes the one of an answer. *)
LEMMA StrayedFits ==
  ASSUME WorkspaceInv, NEW c, NEW e, e = Strayed(c)
  PROVE  /\ e \in Editors /\ e.chapter = editor.chapter /\ e.typed = editor.typed
         /\ e.late = editor.late /\ (~e.stray => e.chapter = c)
  <1>1. PICK d \in BOOLEAN : d = (editor.stray \/ c # page.chapter.id)
    OBVIOUS
  <1>2. editor \in Editors /\ (~editor.stray => editor.chapter = page.chapter.id)
    BY DEF WorkspaceInv, PageFits
  <1>3. e = [editor EXCEPT !.stray = d]
    BY <1>1 DEF Strayed
  <1> QED
    BY <1>1, <1>2, <1>3 DEF Editors

(* The page shows the chapter of an answer, and the handler goes on. *)
LEMMA AnswerShown ==
  ASSUME WorkspaceInv, NEW h \in Handlers, NEW t \in Tasks, task' = [task EXCEPT ![h] = t],
         UNCHANGED <<service, watch>>, NEW a \in ChapterAnswers, AnswerFits(a),
         page' \in PageStates, page'.chapter = a, editor' \in Editors,
         ~editor'.stray => editor'.chapter = a.id, Unsaved' => Unsaved /\ page'.dirtyContent,
         TaskFits(t)'
  PROVE  WorkspaceInv'
  <1>1. a.id # NoChapter
    BY WorkspaceAssumption DEF AnswerFits
  <1>2. ServiceFits' /\ Grows /\ Shows
    BY <1>1, ServiceStays DEF Shows
  <1>3. PageFits'
    BY <1>1, <1>2 DEF WorkspaceInv, PageFits, AnswerFits, service
  <1> QED
    BY <1>2, <1>3, StepFits

(* What follows a save. *)
LEMMA EndSaveOf ==
  ASSUME WorkspaceInv, NEW h \in Handlers, NEW p \in PageStates, EndSave(h, p),
         p.chapter.id # NoChapter, p.chapter.id \in Ids
  PROVE  /\ page' \in PageStates /\ page'.chapter = p.chapter
         /\ page'.dirtyContent = p.dirtyContent
         /\ \E t \in Tasks : task' = [task EXCEPT ![h] = t] /\ TaskFits(t)'
  <1>1. PICK r : r = Latest(p)
    OBVIOUS
  <1>2. r \in Revisions
    BY <1>1 DEF Latest, Revisions, PageStates, ChapterAnswers
  <1>3. /\ page' \in PageStates /\ page'.chapter = p.chapter
        /\ page'.dirtyContent = p.dirtyContent
    BY <1>1, <1>2 DEF EndSave, PageStates
  <1>4. CASE Finish(h)
    <2>1. TaskFits(NoTask)'
      BY IdleFits, PTL
    <2> QED
      BY <1>3, <1>4, <2>1, IdleTask DEF Finish, Start
  <1>5. CASE Start(h, [NoTask EXCEPT !.kind = "refresh", !.next = task[h].next])
    <2>1. PICK t : t = [NoTask EXCEPT !.kind = "refresh", !.next = task[h].next]
      OBVIOUS
    <2>2. task[h].next \in {"none", "publish", "generate"}
      BY DEF WorkspaceInv, Tasks
    <2>3. t \in Tasks /\ t.kind = "refresh"
      BY <2>1, <2>2, IdleTask DEF Tasks, Kinds
    <2>4. TaskFits(t)'
      BY <1>3, <2>3 DEF TaskFits, Clears
    <2> QED
      BY <1>3, <1>5, <2>1, <2>3, <2>4 DEF Start
  <1> QED
    BY <1>4, <1>5 DEF EndSave

LEMMA ReceiveSavedFormStep ==
  ASSUME WorkspaceInv, NEW h \in Handlers, ReceiveSavedForm(h)
  PROVE  WorkspaceInv' /\ DropsAsked
  <1>1. PICK s, a, p, e : /\ s = task[h] /\ a = task[h].answer
                          /\ p = SavedMeta(page, task[h].answer)
                          /\ e = Strayed(task[h].chapter)
    OBVIOUS
  <1>2. /\ s.kind = "form" /\ s.step = "answered" /\ s \in Tasks /\ TaskFits(s)
        /\ page \in PageStates /\ editor' = e /\ UNCHANGED <<service, watch>>
    BY <1>1 DEF ReceiveSavedForm, At, WorkspaceInv, PageFits
  <1>3. /\ a \in ChapterAnswers /\ AnswerFits(a) /\ a.id = s.chapter /\ a.id \in Chapters
        /\ a.id # NoChapter /\ a.id \in Ids
    BY <1>1, <1>2, WorkspaceAssumption DEF TaskFits, AnswerFits, Tasks, Ids
  <1>4. p \in PageStates /\ p.chapter = a /\ p.dirtyContent = page.dirtyContent
    BY <1>1, <1>2, <1>3 DEF SavedMeta, PageStates
  <1>5. /\ e \in Editors /\ e.typed = editor.typed /\ e.late = editor.late
        /\ (~e.stray => e.chapter = a.id)
    BY <1>1, <1>3, StrayedFits
  <1>6. DropsAsked /\ (Unsaved' <=> Unsaved) /\ (Unsaved => p.dirtyContent)
    BY <1>2, <1>4, <1>5 DEF DropsAsked, Unsaved, WorkspaceInv, PageFits
  <1>7. CASE page' = p /\ Start(h, SaveText(p, editor', s.next))
    <2>1. PICK t : t = SaveText(p, e, s.next)
      OBVIOUS
    <2>2. s.next \in {"none", "publish", "generate"}
      BY <1>2 DEF Tasks
    <2>3. /\ t \in Tasks /\ t.kind = "save" /\ t.step = "sent" /\ t.chapter = a.id
          /\ t.text.stray = e.stray /\ t.text.chapter = e.chapter /\ t.settled
      BY <1>3, <1>4, <1>5, <2>1, <2>2, SaveTextOf
    <2>4. TaskFits(t)'
      BY <1>3, <1>5, <2>3 DEF TaskFits, Clears
    <2>5. task' = [task EXCEPT ![h] = t]
      BY <1>2, <1>7, <2>1 DEF Start
    <2>6. WorkspaceInv'
      BY <1>2, <1>3, <1>4, <1>5, <1>6, <1>7, <2>3, <2>4, <2>5, AnswerShown
    <2> QED
      BY <1>6, <2>6
  <1>8. CASE EndSave(h, p)
    <2>1. PICK t \in Tasks : task' = [task EXCEPT ![h] = t] /\ TaskFits(t)'
      BY <1>3, <1>4, <1>8, EndSaveOf
    <2>2. page' \in PageStates /\ page'.chapter = a /\ page'.dirtyContent = p.dirtyContent
      BY <1>3, <1>4, <1>8, EndSaveOf
    <2>3. WorkspaceInv'
      BY <1>2, <1>3, <1>5, <1>6, <2>1, <2>2, AnswerShown
    <2> QED
      BY <1>6, <2>3
  <1> QED
    BY <1>1, <1>7, <1>8 DEF ReceiveSavedForm

(* The mark goes: either the text area still holds what was sent, or what it holds was *)
(* typed late.                                                                          *)
LEMMA ReceiveSavedTextStep ==
  ASSUME WorkspaceInv, NEW h \in Handlers, ReceiveSavedText(h)
  PROVE  WorkspaceInv' /\ DropsAsked
  <1>1. PICK s, a, p, e : /\ s = task[h] /\ a = task[h].answer
                          /\ p = SavedContent(page, task[h].answer)
                          /\ e = Strayed(task[h].chapter)
    OBVIOUS
  <1>2. /\ s.kind = "save" /\ s.step = "answered" /\ s \in Tasks /\ TaskFits(s)
        /\ page \in PageStates /\ UNCHANGED <<service, watch>> /\ EndSave(h, p)
        /\ editor' = IF s.settled
                     THEN [e EXCEPT !.chapter = s.chapter, !.typed = FALSE,
                                    !.revision = s.revision, !.late = FALSE]
                     ELSE e
    BY <1>1 DEF ReceiveSavedText, At, WorkspaceInv, PageFits
  <1>3. /\ a \in ChapterAnswers /\ AnswerFits(a) /\ a.id = s.chapter /\ a.id \in Chapters
        /\ a.id # NoChapter /\ a.id \in Ids /\ s.revision \in Numbers
    BY <1>1, <1>2, WorkspaceAssumption DEF TaskFits, AnswerFits, Tasks, Ids
  <1>4. p \in PageStates /\ p.chapter = a
    BY <1>1, <1>2, <1>3 DEF SavedContent, PageStates
  <1>5. /\ e \in Editors /\ e.typed = editor.typed /\ e.late = editor.late
        /\ (~e.stray => e.chapter = a.id)
    BY <1>1, <1>3, StrayedFits
  <1>6. Unsaved => s.settled
    BY <1>2 DEF TaskFits, Clears
  <1>7. /\ editor' \in Editors /\ (~editor'.stray => editor'.chapter = a.id) /\ ~Unsaved'
        /\ (editor.typed /\ ~editor'.typed => s.settled)
    <2>1. CASE s.settled
      BY <1>2, <1>3, <1>5, <2>1 DEF Editors, Unsaved
    <2>2. CASE ~s.settled
      BY <1>2, <1>5, <1>6, <2>2 DEF Unsaved
    <2> QED
      BY <2>1, <2>2
  <1>8. PICK t \in Tasks : task' = [task EXCEPT ![h] = t] /\ TaskFits(t)'
    BY <1>2, <1>3, <1>4, EndSaveOf
  <1>9. page' \in PageStates /\ page'.chapter = a
    BY <1>2, <1>3, <1>4, EndSaveOf
  <1>10. WorkspaceInv'
    BY <1>2, <1>3, <1>7, <1>8, <1>9, AnswerShown
  <1>11. task'[h] # task[h]
    BY <1>1, <1>2, IdleTask DEF EndSave, Finish, Start, WorkspaceInv, Tasks
  <1> QED
    BY <1>1, <1>7, <1>10, <1>11 DEF DropsAsked

LEMMA ContinueSavedStep ==
  ASSUME WorkspaceInv, NEW h \in Handlers, ContinueSaved(h)
  PROVE  WorkspaceInv' /\ DropsAsked
  <1>1. page.chapter.id # NoChapter
    BY DEF ContinueSaved, WorkspaceInv, TaskFits
  <1> QED
    BY <1>1, RequestStep DEF ContinueSaved

LEMMA ReceivePublishedStep ==
  ASSUME WorkspaceInv, NEW h \in Handlers, ReceivePublished(h)
  PROVE  WorkspaceInv' /\ DropsAsked
  <1>1. PICK s, a, e : /\ s = task[h] /\ a = task[h].answer /\ e = Strayed(task[h].chapter)
    OBVIOUS
  <1>2. /\ s.kind = "publish" /\ s.step = "answered" /\ s \in Tasks /\ TaskFits(s)
        /\ page \in PageStates /\ UNCHANGED <<service, watch>> /\ editor' = e
        /\ page' = [page EXCEPT !.chapter = a] /\ task' = [task EXCEPT ![h] = NoTask]
    BY <1>1 DEF ReceivePublished, At, WorkspaceInv, PageFits, Finish, Start
  <1>3. a \in ChapterAnswers /\ AnswerFits(a) /\ a.id = s.chapter
    BY <1>1, <1>2 DEF TaskFits, Tasks
  <1>4. page' \in PageStates /\ page'.chapter = a /\ page'.dirtyContent = page.dirtyContent
    BY <1>2, <1>3 DEF PageStates
  <1>5. /\ e \in Editors /\ e.typed = editor.typed /\ e.late = editor.late
        /\ (~e.stray => e.chapter = a.id)
    BY <1>1, <1>3, StrayedFits
  <1>6. DropsAsked /\ (Unsaved' => Unsaved /\ page'.dirtyContent)
    BY <1>2, <1>4, <1>5 DEF DropsAsked, Unsaved, WorkspaceInv, PageFits
  <1>7. TaskFits(NoTask)'
    BY IdleFits, PTL
  <1> QED
    BY <1>2, <1>3, <1>4, <1>5, <1>6, <1>7, IdleTask, AnswerShown

LEMMA SendPollStep ==
  ASSUME WorkspaceInv, NEW h \in Handlers, NEW c \in Chapters, SendPoll(h, c)
  PROVE  WorkspaceInv' /\ DropsAsked
  <1>1. PICK t, x : /\ x = run[c].status
                    /\ t = [NoTask EXCEPT !.kind = "poll", !.step = "answered", !.chapter = c,
                                          !.status = x]
    OBVIOUS
  <1>2. x \in RunStatuses
    BY <1>1 DEF WorkspaceInv, ServiceFits, Runs
  <1>3. t \in Tasks /\ t.kind = "poll" /\ t.chapter = c
    BY <1>1, <1>2, IdleTask DEF Tasks, Kinds, Steps, Ids
  <1>4. TaskFits(t)'
    BY <1>3 DEF TaskFits, Clears
  <1>5. /\ task' = [task EXCEPT ![h] = t] /\ watch' \subseteq Chapters
        /\ UNCHANGED <<service, page, editor>>
    BY <1>1 DEF SendPoll, Start, WorkspaceInv, PageFits
  <1> QED
    BY <1>3, <1>4, <1>5, ServiceStays, HandlerMoves

LEMMA ReceivePollStep ==
  ASSUME WorkspaceInv, NEW h \in Handlers, ReceivePoll(h)
  PROVE  WorkspaceInv' /\ DropsAsked
  <1>1. PICK s : s = task[h]
    OBVIOUS
  <1>2. /\ s.kind = "poll" /\ TaskFits(s) /\ watch \subseteq Chapters
        /\ UNCHANGED <<service, page, editor>>
    BY <1>1 DEF ReceivePoll, At, WorkspaceInv, PageFits
  <1>3. s.chapter \in Chapters /\ s.chapter # NoChapter
    BY <1>2, WorkspaceAssumption DEF TaskFits
  <1>4. CASE Finish(h) /\ (watch' = watch \cup {s.chapter} \/ watch' = watch)
    BY <1>2, <1>3, <1>4, FinishFits
  <1>5. CASE /\ s.chapter = page.generation /\ Start(h, LoadTask(page.chapter.id))
             /\ watch' = watch
    <2>1. page.chapter.id # NoChapter
      BY <1>3, <1>5 DEF WorkspaceInv, PageFits
    <2>2. PICK t \in Tasks : t = LoadTask(page.chapter.id) /\ TaskFits(t)'
      BY <1>2, <2>1, PageChapter, LoadTaskFits
    <2> QED
      BY <1>2, <1>5, <2>2, ServiceStays, HandlerMoves DEF Start
  <1> QED
    BY <1>1, <1>4, <1>5 DEF ReceivePoll

-------------------------------------------------------------------------------
(* The theorems *)

LEMMA InitFits == WorkspaceInit => WorkspaceInv
  <1> SUFFICES ASSUME WorkspaceInit
               PROVE  WorkspaceInv
    OBVIOUS
  <1>1. ServiceFits
    BY WorkspaceAssumption DEF WorkspaceInit, ServiceFits, ChapterRows, Numbers, Runs,
       RunStatuses, TextStaysInItsChapter
  <1>2. page \in PageStates
    BY WorkspaceAssumption DEF WorkspaceInit, PageStates, ChapterAnswers, NoAnswer, Ids, Numbers,
       Revisions
  <1>3. PageFits
    BY <1>2, IdleTask DEF WorkspaceInit, PageFits, NoAnswer, NoText, Unsaved
  <1>4. \A h \in Handlers : TaskFits(task[h])
    BY IdleFits DEF WorkspaceInit
  <1> QED
    BY <1>1, <1>3, <1>4, IdleTask DEF WorkspaceInit, WorkspaceInv

LEMMA Stutter ==
  ASSUME WorkspaceInv, UNCHANGED workspaceVars
  PROVE  WorkspaceInv' /\ DropsAsked
  BY OthersWrite, ServiceStays DEF workspaceVars, service

(* Every step keeps the invariant. *)
LEMMA AllSteps ==
  ASSUME WorkspaceInv, [AuthorNext \/ ServiceNext \/ PageNext]_workspaceVars
  PROVE  WorkspaceInv' /\ DropsAsked
  <1>1. CASE AuthorNext
    BY <1>1, TypeTextStep, TypeFormStep, SaveNothingStep, ResumeGenerationStep,
       SelectChapterStep, LoadHistoricalRevisionStep, SaveAllStep, PublishCurrentStep,
       GenerateCandidateStep DEF AuthorNext
  <1>2. CASE ServiceNext
    BY <1>2, PatchChapterStep, PutContentStep, PublishRevisionStep, GenerateRunStep,
       ReadBackStep, FailStep, OtherPageSavesStep, WorkerEndsStep DEF ServiceNext
  <1>3. CASE PageNext
    BY <1>3, ReceiveChapterStep, AskRunStep, ReceiveRunStep, ReceiveHistoryStep,
       ReceiveSavedFormStep, ReceiveSavedTextStep, ContinueSavedStep, ReceivePublishedStep,
       ReceiveGenerationStep, ReceivePollStep, SendPollStep DEF PageNext
  <1>4. CASE UNCHANGED workspaceVars
    BY <1>4, Stutter
  <1> QED
    BY <1>1, <1>2, <1>3, <1>4

(* However many handlers are in flight together, each agrees with the page and the       *)
(* service: the text area shows a text of the page's chapter unless an answer about      *)
(* another chapter came under it, what is typed is marked dirty unless an answer was to  *)
(* come, and what a load may drop was agreed on (app.js).                                *)
THEOREM WorkspaceInvariant == WorkspaceSpec => []WorkspaceInv
  BY InitFits, AllSteps, PTL DEF WorkspaceSpec

(* The page, the text area and the handlers keep their types (app.js:1-7). *)
THEOREM WorkspaceTypeCorrect == WorkspaceSpec => []WorkspaceTypeOK
  <1>1. WorkspaceInv => WorkspaceTypeOK
    BY DEF WorkspaceInv, ServiceFits, PageFits, WorkspaceTypeOK
  <1> QED
    BY <1>1, WorkspaceInvariant, PTL

(* No save stores a text under another chapter than the one it was written in, unless    *)
(* the text had strayed (app.js:166-170).                                                *)
THEOREM TextStays == WorkspaceSpec => []TextStaysInItsChapter
  <1>1. WorkspaceInv => TextStaysInItsChapter
    BY DEF WorkspaceInv, ServiceFits
  <1> QED
    BY <1>1, WorkspaceInvariant, PTL

(* Typed text leaves the text area only by a save that sent it, by a load the author     *)
(* agreed to, or when he typed while an answer was to come (app.js:103, :136, :376).     *)
THEOREM UnsavedIsNotDropped == WorkspaceSpec => UnsavedNotDropped
  <1>1. WorkspaceInv /\ [AuthorNext \/ ServiceNext \/ PageNext]_workspaceVars
          => [(editor.typed /\ ~editor'.typed) =>
                 \/ editor.late
                 \/ \E h \in Handlers : task[h].settled /\ task'[h] # task[h]]_workspaceVars
    BY AllSteps DEF DropsAsked
  <1> QED
    BY <1>1, WorkspaceInvariant, PTL DEF WorkspaceSpec, UnsavedNotDropped
===============================================================================

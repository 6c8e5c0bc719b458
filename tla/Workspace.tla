------------------------------- MODULE Workspace -------------------------------
(***************************************************************************)
(* One workspace page (web/static/app.js) with several requests in flight. *)
(*                                                                         *)
(* Every handler of the page is an async function: it reads the page's     *)
(* state when it starts, asks the service, and writes the page's state     *)
(* when the answer arrives, whatever the author or another handler has     *)
(* done meanwhile.  The page makes nobody wait: the author clicks and      *)
(* types while handlers are in flight, and their number is only bounded by *)
(* Handlers.                                                               *)
(*                                                                         *)
(* Other pages and the worker store revisions of their own.  The service   *)
(* is Manuscript's, reduced to what the page sees: a request commits in    *)
(* one step and its answer is read back later.  A text is named by the     *)
(* chapter and the revision it was loaded from, the chapter's form is only *)
(* dirty or not, and a run is named by its chapter.                        *)
(***************************************************************************)
EXTENDS Integers, Sequences, FiniteSetsExt

CONSTANTS
    Chapters,       \* the chapters of the list
    NoChapter,      \* the page before it shows a chapter, a card without a run
    Handlers,       \* bound: the handlers in flight together
    MaxRevisions,   \* bound: revisions of one chapter
    MaxChanges      \* bound: others and new requests stop after so many changes

ASSUME WorkspaceAssumption ==
    /\ NoChapter \notin Chapters
    /\ MaxRevisions \in Nat \ {0}
    /\ MaxChanges \in Nat \ {0}

VARIABLES
    chapter,    \* chapter[c]: the row, with the numbers of its draft and canonical revision
    history,    \* history[c][n]: the chapter in whose editor revision n of c was written
    run,        \* run[c]: the chapter's newest generation run
    page,       \* the page's state object
    editor,     \* what the text area holds
    watch,      \* the chapters whose run has a poll to come
    task        \* task[h]: what handler h is doing

service == <<chapter, history, run>>
workspaceVars == <<service, page, editor, watch, task>>

-------------------------------------------------------------------------------
(* State *)

Ids == Chapters \cup {NoChapter}

Numbers == 0 .. MaxRevisions

ChapterRows == [latest : Numbers, canonical : Numbers, version : Nat]

RunStatuses == {"none", "RUNNING", "AWAITING_REVIEW", "FAILED"}

(* candidate is the number of the revision the run stored.  A completed run is "none": *)
(* the page does not show it.                                                           *)
Runs == [status : RunStatuses, candidate : Numbers]

(* stray marks a text that was on the screen when the answer of a handler for another  *)
(* chapter changed the page's chapter.                                                  *)
Origins == [chapter : Ids, stray : BOOLEAN]

(* What the service answers about a chapter; published is isCanonical. *)
ChapterAnswers == [id : Ids, latest : Numbers, published : BOOLEAN, version : Nat]

NoAnswer == [id |-> NoChapter, latest |-> 0, published |-> FALSE, version |-> 0]

(* chapter is state.chapter, generation the chapter of state.generationRunId; revision *)
(* ids are global, viewing has number 0 for null.                                       *)
Revisions == [chapter : Ids, number : Numbers]

PageStates == [chapter : ChapterAnswers, viewing : Revisions, dirtyContent : BOOLEAN,
               dirtyMeta : BOOLEAN, generation : Ids]

(* The chapter and the revision the text was loaded from, whether the author has typed *)
(* since, and whether he did so while an answer was to come that clears the mark.       *)
Editors == [chapter : Ids, revision : Numbers, typed : BOOLEAN, late : BOOLEAN,
            stray : BOOLEAN]

NoText == [chapter |-> NoChapter, revision |-> 0, typed |-> FALSE, late |-> FALSE,
           stray |-> FALSE]

(* saveAll is "form" while it saves the form, "save" while it saves the text, and       *)
(* "refresh" while it refreshes the lists before what its button was for.               *)
Kinds == {"none", "load", "history", "form", "save", "refresh", "publish", "generate", "poll"}

Steps == {"idle", "sent", "committed", "answered", "filled", "asked"}

(* chapter and revision are the ones the request names, or, once a save is committed,  *)
(* the one that holds its text; text is the text that is sent, next what follows a      *)
(* save, answer and status what the service answered.  settled: a save has sent what    *)
(* the text area holds now, or the author agreed to lose what he typed there to a load. *)
Tasks == [kind : Kinds, step : Steps, chapter : Ids, revision : Numbers, text : Editors,
          next : {"none", "publish", "generate"}, answer : ChapterAnswers,
          status : RunStatuses, settled : BOOLEAN]

NoTask == [kind |-> "none", step |-> "idle", chapter |-> NoChapter, revision |-> 0,
           text |-> NoText, next |-> "none", answer |-> NoAnswer, status |-> "none",
           settled |-> FALSE]

Busy(h) == task[h].kind # "none"

At(h, kind, step) == task[h].kind = kind /\ task[h].step = step

Dirty == page.dirtyContent \/ page.dirtyMeta

Latest(p) == [chapter |-> p.chapter.id, number |-> p.chapter.latest]

Start(h, t) == task' = [task EXCEPT ![h] = t]

Finish(h) == Start(h, NoTask)

(* The text area changes: whatever was settled about its text is so no more. *)
Unsettled == [g \in Handlers |-> [task[g] EXCEPT !.settled = FALSE]]

-------------------------------------------------------------------------------
(* The service *)

(* get_chapter: the row a query finds, with the version of the session's object. *)
Answer(c, version) ==
    [id |-> c, latest |-> chapter[c].latest, version |-> version,
     published |-> chapter[c].latest # 0 /\ chapter[c].latest = chapter[c].canonical]

(* A new revision of c, written in the editor of a chapter; refused when its number is *)
(* taken.                                                                               *)
StoreRevision(c, origin) ==
    /\ chapter[c].latest = Len(history[c])
    /\ Len(history[c]) < MaxRevisions                              \* bound
    /\ history' = [history EXCEPT ![c] = Append(@, origin)]
    /\ chapter' = [chapter EXCEPT ![c].latest = @ + 1, ![c].version = @ + 1]

(* Every change of a row raises its version from 1. *)
Changes == MapThenSumSet(LAMBDA c : chapter[c].version - 1, Chapters)

MoreChanges == Changes < MaxChanges

(* A publication may follow the last change. *)
LastChange == Changes <= MaxChanges

Commit(h, version, revision) ==
    Start(h, [task[h] EXCEPT !.step = "committed", !.revision = revision,
                             !.answer.version = version, !.text = NoText])

(* PATCH /chapters/{id}: refused unless the version is the row's. *)
PatchChapter(h) ==
    LET t == task[h] IN
    /\ At(h, "form", "sent")
    /\ MoreChanges                                                \* bound
    /\ t.answer.version = chapter[t.chapter].version
    /\ chapter' = [chapter EXCEPT ![t.chapter].version = @ + 1]
    /\ Commit(h, chapter[t.chapter].version + 1, t.revision)
    /\ UNCHANGED <<history, run, page, editor, watch>>

(* PUT /chapters/{id}/content; a text equal to the draft's changes nothing, and what    *)
(* the author typed may be equal to it.                                                 *)
PutContent(h) ==
    LET t == task[h]
        c == t.chapter
        same == ~t.text.typed /\ t.text.chapter = c /\ t.text.revision = chapter[c].latest
    IN
    /\ At(h, "save", "sent")
    /\ t.revision = chapter[c].latest
    /\ \/ /\ same \/ (t.text.typed /\ t.revision # 0)
          /\ UNCHANGED <<chapter, history>>
          /\ Commit(h, chapter[c].version, t.revision)
       \/ /\ ~same /\ MoreChanges                                  \* bound
          /\ StoreRevision(c, [chapter |-> t.text.chapter, stray |-> t.text.stray])
          /\ Commit(h, chapter[c].version + 1, t.revision + 1)
    /\ UNCHANGED <<run, page, editor, watch>>

(* Fault: a status the page does not know. *)
RunLeftReady(c, n) == [run[c] EXCEPT !.status = "READY"]

(* Publishing a run's candidate completes the run. *)
RunAfterPublication(c, n) ==
    IF n = run[c].candidate THEN [status |-> "none", candidate |-> 0] ELSE run[c]

(* POST /chapters/{id}/revisions/{id}/publish. *)
PublishRevision(h) ==
    LET t == task[h]
        c == t.chapter
    IN
    /\ At(h, "publish", "sent")
    /\ \/ /\ t.revision = chapter[c].canonical
          /\ UNCHANGED <<chapter, run>>
          /\ Commit(h, chapter[c].version, t.revision)
       \/ /\ t.revision # chapter[c].canonical /\ LastChange       \* bound
          /\ chapter' = [chapter EXCEPT ![c].latest = t.revision, ![c].canonical = t.revision,
                                        ![c].version = @ + 1]
          /\ run' = [run EXCEPT ![c] = RunAfterPublication(c, t.revision)]
          /\ Commit(h, chapter[c].version + 1, t.revision)
    /\ UNCHANGED <<history, page, editor, watch>>

(* get_chapter, alone or after the commit of a save or a publication. *)
ReadBack(h) ==
    /\ task[h].kind \in {"load", "form", "save", "publish"}
    /\ task[h].step = "committed"
    /\ Start(h, [task[h] EXCEPT !.step = "answered",
                  !.answer = Answer(task[h].chapter,
                                    IF task[h].kind = "load"
                                    THEN chapter[task[h].chapter].version
                                    ELSE task[h].answer.version)])
    /\ UNCHANGED <<service, page, editor, watch>>

(* POST /chapters/{id}/generation-runs: refused while a run is under way.  The polls of *)
(* the chapter's last run have ended (bound).                                           *)
GenerateRun(h) ==
    LET c == task[h].chapter IN
    /\ At(h, "generate", "sent")
    /\ run[c].status # "RUNNING"
    /\ c \notin watch /\ MoreChanges                              \* bound
    /\ \A g \in Handlers : At(g, "poll", "answered") => task[g].chapter # c
    /\ run' = [run EXCEPT ![c] = [status |-> "RUNNING", candidate |-> 0]]
    /\ chapter' = [chapter EXCEPT ![c].version = @ + 1]
    /\ Start(h, [task[h] EXCEPT !.step = "answered"])
    /\ UNCHANGED <<history, page, editor, watch>>

(* Another page saves a text of c, or the worker stores the run's candidate or fails. *)
OtherPageSaves(c) ==
    /\ MoreChanges                                                \* bound
    /\ StoreRevision(c, [chapter |-> c, stray |-> FALSE])
    /\ UNCHANGED <<run, page, editor, watch, task>>

WorkerEnds(c) ==
    /\ run[c].status = "RUNNING"
    /\ \/ /\ StoreRevision(c, [chapter |-> c, stray |-> FALSE])
          /\ run' = [run EXCEPT ![c] = [status |-> "AWAITING_REVIEW",
                                        candidate |-> chapter[c].latest + 1]]
       \/ /\ MoreChanges                                          \* bound
          /\ run' = [run EXCEPT ![c].status = "FAILED"]
          /\ chapter' = [chapter EXCEPT ![c].version = @ + 1]
          /\ UNCHANGED history
    /\ UNCHANGED <<page, editor, watch, task>>

-------------------------------------------------------------------------------
(* The author *)

(* An answer is to come after which the text area's text is marked as saved. *)
AnswerToCome ==
    \E h \in Handlers : \/ task[h].kind = "load" /\ task[h].step \in {"committed", "answered"}
                        \/ task[h].kind \in {"history", "save"}

(* The text area's input listener. *)
TypeText ==
    /\ page.chapter.id # NoChapter
    /\ editor' = [editor EXCEPT !.typed = TRUE, !.late = AnswerToCome]
    /\ page' = [page EXCEPT !.dirtyContent = TRUE]
    /\ task' = Unsettled
    /\ UNCHANGED <<service, watch>>

(* The form's input listeners. *)
TypeForm ==
    /\ page.chapter.id # NoChapter
    /\ page' = [page EXCEPT !.dirtyMeta = TRUE]
    /\ UNCHANGED <<service, editor, watch, task>>

(* Fault: the dialog appears for the form only. *)
AsksForFormOnly == page.dirtyMeta

(* selectChapter asks before it drops unsaved changes. *)
AsksBeforeLoad == Dirty

LoadTask(c) == [NoTask EXCEPT !.kind = "load", !.step = "committed", !.chapter = c,
                              !.settled = AsksBeforeLoad /\ editor.typed]

(* A click on a chapter of the list; the author agrees to lose what is unsaved. *)
SelectChapter(h, c) ==
    /\ ~Busy(h)
    /\ Start(h, LoadTask(c))
    /\ UNCHANGED <<service, page, editor, watch>>

(* A click on a revision of state.chapter; it asks when the text is dirty. *)
LoadHistoricalRevision(h, n) ==
    /\ ~Busy(h)
    /\ page.chapter.id # NoChapter /\ n \in DOMAIN history[page.chapter.id]
    /\ Start(h, [NoTask EXCEPT !.kind = "history", !.step = "answered", !.revision = n,
                               !.chapter = page.chapter.id,
                               !.settled = page.dirtyContent /\ editor.typed])
    /\ UNCHANGED <<service, page, editor, watch>>

(* What saveAll sends for the page p and the text e as they are: the form first, then  *)
(* the text.                                                                            *)
SaveForm(p, next) ==
    [NoTask EXCEPT !.kind = "form", !.step = "sent", !.chapter = p.chapter.id,
                   !.answer.version = p.chapter.version, !.next = next]

SaveText(p, e, next) ==
    [NoTask EXCEPT !.kind = "save", !.step = "sent", !.chapter = p.chapter.id,
                   !.revision = p.chapter.latest, !.text = [e EXCEPT !.late = FALSE],
                   !.settled = TRUE, !.next = next]

(* updateEditor disables the button while an older revision is viewed; while a handler *)
(* is in flight it may not have done so yet.                                            *)
MayPublish == /\ page.chapter.latest # 0 /\ ~page.chapter.published
              /\ page.viewing.number = 0 \/ page.viewing = Latest(page)

PublishIsEnabled ==
    page.chapter.latest # 0 /\ (MayPublish \/ \E h \in Handlers : Busy(h))

(* saveAll, from the save button, Ctrl+S, the generate or the publish button. *)
SaveAll(h, next) ==
    /\ ~Busy(h)
    /\ page.chapter.id # NoChapter /\ Dirty
    /\ next = "publish" => PublishIsEnabled
    /\ MoreChanges                                                \* bound
    /\ Start(h, IF page.dirtyMeta THEN SaveForm(page, next) ELSE SaveText(page, editor, next))
    /\ UNCHANGED <<service, page, editor, watch>>

(* Ctrl+S with nothing unsaved: the page views the draft. *)
SaveNothing ==
    /\ page.chapter.id # NoChapter /\ ~Dirty
    /\ page' = [page EXCEPT !.viewing = Latest(page)]
    /\ UNCHANGED <<service, editor, watch, task>>

(* The requests of publishCurrent and generateCandidate, for the page as it is. *)
PublishTask == [NoTask EXCEPT !.kind = "publish", !.step = "sent",
                              !.chapter = page.chapter.id, !.revision = page.chapter.latest]

GenerateTask == [NoTask EXCEPT !.kind = "generate", !.step = "sent",
                               !.chapter = page.chapter.id]

(* publishCurrent with nothing unsaved, after the author's confirmation. *)
PublishCurrent(h) ==
    /\ ~Busy(h)
    /\ page.chapter.id # NoChapter /\ PublishIsEnabled /\ ~Dirty
    /\ LastChange                                                 \* bound
    /\ Start(h, PublishTask)
    /\ UNCHANGED <<service, page, editor, watch>>

(* generateCandidate with nothing unsaved. *)
GenerateCandidate(h) ==
    /\ ~Busy(h)
    /\ page.chapter.id # NoChapter /\ ~Dirty
    /\ MoreChanges                                                \* bound
    /\ Start(h, GenerateTask)
    /\ UNCHANGED <<service, page, editor, watch>>

(* resumeGeneration, for the run on the card, and its answer: the page polls again. *)
ResumeGeneration ==
    /\ page.generation # NoChapter
    /\ run[page.generation].status = "FAILED"
    /\ run' = [run EXCEPT ![page.generation].status = "RUNNING"]
    /\ watch' = watch \cup {page.generation}
    /\ UNCHANGED <<chapter, history, page, editor, task>>

-------------------------------------------------------------------------------
(* The answers *)

(* Fault: a load keeps the text area as it is. *)
KeptText(a) == [editor EXCEPT !.typed = FALSE, !.stray = FALSE]

(* state.chapter := the answer of the PATCH. *)
SavedMeta(p, a) == [p EXCEPT !.chapter = a, !.dirtyMeta = FALSE]

(* state.chapter := the answer of the PUT; the text area is left as it is. *)
SavedContent(p, a) == [p EXCEPT !.chapter = a, !.dirtyContent = FALSE]

(* The text area is filled with the chapter's draft. *)
LoadedText(a) == [NoText EXCEPT !.chapter = a.id, !.revision = a.latest]

(* The text area while state.chapter becomes chapter c. *)
Strayed(c) == [editor EXCEPT !.stray = @ \/ c # page.chapter.id]

(* selectChapter's first answer: the page shows the chapter. *)
ReceiveChapter(h) ==
    LET a == task[h].answer IN
    /\ At(h, "load", "answered")
    /\ page' = [page EXCEPT !.chapter = a, !.dirtyContent = FALSE, !.dirtyMeta = FALSE,
                            !.viewing = [chapter |-> a.id, number |-> a.latest]]
    /\ editor' = LoadedText(a)
    /\ task' = [Unsettled EXCEPT ![h] = [NoTask EXCEPT !.kind = "load", !.step = "filled"]]
    /\ UNCHANGED <<service, watch>>

(* loadLatestGeneration asks for the run of the chapter the page shows by then ... *)
AskRun(h) ==
    /\ At(h, "load", "filled")
    /\ Start(h, [task[h] EXCEPT !.step = "asked", !.chapter = page.chapter.id,
                                !.status = run[page.chapter.id].status])
    /\ UNCHANGED <<service, page, editor, watch>>

(* ... and shows it on the card. *)
ReceiveRun(h) ==
    LET t == task[h] IN
    /\ At(h, "load", "asked")
    /\ page' = [page EXCEPT !.generation = IF t.status = "none" THEN NoChapter ELSE t.chapter]
    /\ watch' = IF t.status = "RUNNING" THEN watch \cup {t.chapter} ELSE watch
    /\ Finish(h)
    /\ UNCHANGED <<service, editor>>

(* The text of the revision; it is dirty unless it is the draft of the page's chapter. *)
ReceiveHistory(h) ==
    LET t == task[h]
        shown == [chapter |-> t.chapter, number |-> t.revision]
    IN
    /\ At(h, "history", "answered")
    /\ editor' = [NoText EXCEPT !.chapter = t.chapter, !.revision = t.revision,
                                !.stray = t.chapter # page.chapter.id]
    /\ page' = [page EXCEPT !.viewing = shown, !.dirtyContent = shown # Latest(page)]
    /\ task' = [Unsettled EXCEPT ![h] = NoTask]
    /\ UNCHANGED <<service, watch>>

(* The save is done: the page p views the draft, and the lists are refreshed before     *)
(* what the button was for.                                                              *)
EndSave(h, p) ==
    /\ page' = [p EXCEPT !.viewing = Latest(p)]
    /\ IF task[h].next = "none" THEN Finish(h)
       ELSE Start(h, [NoTask EXCEPT !.kind = "refresh", !.next = task[h].next])

(* The answer of a PATCH: the text follows if it is dirty by then. *)
ReceiveSavedForm(h) ==
    LET t == task[h]
        p == SavedMeta(page, t.answer)
    IN
    /\ At(h, "form", "answered")
    /\ editor' = Strayed(t.chapter)
    /\ IF p.dirtyContent THEN page' = p /\ Start(h, SaveText(p, editor', t.next))
                         ELSE EndSave(h, p)
    /\ UNCHANGED <<service, watch>>

(* The answer of a PUT.  A text area that still holds what was sent shows the revision  *)
(* that stores it from now on.                                                           *)
ReceiveSavedText(h) ==
    LET t == task[h] IN
    /\ At(h, "save", "answered")
    /\ editor' = IF t.settled
                 THEN [Strayed(t.chapter) EXCEPT !.chapter = t.chapter, !.typed = FALSE,
                                                 !.revision = t.revision, !.late = FALSE]
                 ELSE Strayed(t.chapter)
    /\ EndSave(h, SavedContent(page, t.answer))
    /\ UNCHANGED <<service, watch>>

(* The lists are refreshed: publishCurrent or generateCandidate goes on, for the        *)
(* chapter the page shows by then.                                                       *)
ContinueSaved(h) ==
    /\ task[h].kind = "refresh"
    /\ Start(h, IF task[h].next = "publish" THEN PublishTask ELSE GenerateTask)
    /\ task[h].next = "publish" => page.chapter.latest # 0
    /\ UNCHANGED <<service, page, editor, watch>>

(* publishCurrent's answer. *)
ReceivePublished(h) ==
    /\ At(h, "publish", "answered")
    /\ page' = [page EXCEPT !.chapter = task[h].answer]
    /\ editor' = Strayed(task[h].chapter)
    /\ Finish(h)
    /\ UNCHANGED <<service, watch>>

(* generateCandidate's answer: the card shows the run, and the page polls it. *)
ReceiveGeneration(h) ==
    /\ At(h, "generate", "answered")
    /\ page' = [page EXCEPT !.generation = task[h].chapter]
    /\ watch' = watch \cup {task[h].chapter}
    /\ Finish(h)
    /\ UNCHANGED <<service, editor>>

(* The timer of a poll. *)
SendPoll(h, c) ==
    /\ c \in watch /\ ~Busy(h)
    /\ watch' = watch \ {c}
    /\ Start(h, [NoTask EXCEPT !.kind = "poll", !.step = "answered", !.chapter = c,
                               !.status = run[c].status])
    /\ UNCHANGED <<service, page, editor>>

(* The poll's answer: the run of another card is ignored, a finished run reopens the     *)
(* page's chapter, with the same question as a click.                                    *)
ReceivePoll(h) ==
    LET t == task[h] IN
    /\ At(h, "poll", "answered")
    /\ \/ /\ t.chapter = page.generation /\ t.status = "RUNNING"
          /\ watch' = watch \cup {t.chapter}
          /\ Finish(h)
       \/ /\ t.chapter = page.generation /\ t.status = "AWAITING_REVIEW"
          /\ Start(h, LoadTask(page.chapter.id))
          /\ UNCHANGED watch
       \/ /\ \/ t.chapter # page.generation
             \/ t.status \in {"none", "FAILED"}
             \/ Dirty                               \* the author declines the reload
          /\ Finish(h)
          /\ UNCHANGED watch
    /\ UNCHANGED <<service, page, editor>>

(* The request is refused, or it or its answer is lost: the handler shows an error.  A   *)
(* poll that fails is the run's last.                                                     *)
Fail(h) ==
    /\ Busy(h)
    /\ Finish(h)
    /\ UNCHANGED <<service, page, editor, watch>>

-------------------------------------------------------------------------------
(* The specification *)

WorkspaceInit ==
    /\ chapter = [c \in Chapters |-> [latest |-> 0, canonical |-> 0, version |-> 1]]
    /\ history = [c \in Chapters |-> <<>>]
    /\ run = [c \in Chapters |-> [status |-> "none", candidate |-> 0]]
    /\ page = [chapter |-> NoAnswer, viewing |-> [chapter |-> NoChapter, number |-> 0],
               dirtyContent |-> FALSE, dirtyMeta |-> FALSE, generation |-> NoChapter]
    /\ editor = NoText
    /\ watch = {}
    /\ task = [h \in Handlers |-> NoTask]

AuthorNext ==
    \/ TypeText \/ TypeForm \/ SaveNothing \/ ResumeGeneration
    \/ \E h \in Handlers :
          \/ \E c \in Chapters : SelectChapter(h, c)
          \/ \E n \in Numbers : LoadHistoricalRevision(h, n)
          \/ \E next \in {"none", "publish", "generate"} : SaveAll(h, next)
          \/ PublishCurrent(h) \/ GenerateCandidate(h)

ServiceNext ==
    \/ \E h \in Handlers : \/ PatchChapter(h) \/ PutContent(h) \/ PublishRevision(h)
                           \/ GenerateRun(h) \/ ReadBack(h) \/ Fail(h)
    \/ \E c \in Chapters : OtherPageSaves(c) \/ WorkerEnds(c)

PageNext ==
    \E h \in Handlers :
       \/ ReceiveChapter(h) \/ AskRun(h) \/ ReceiveRun(h) \/ ReceiveHistory(h)
       \/ ReceiveSavedForm(h) \/ ReceiveSavedText(h) \/ ContinueSaved(h)
       \/ ReceivePublished(h) \/ ReceiveGeneration(h) \/ ReceivePoll(h)
       \/ \E c \in Chapters : SendPoll(h, c)

WorkspaceSpec ==
    WorkspaceInit /\ [][AuthorNext \/ ServiceNext \/ PageNext]_workspaceVars

-------------------------------------------------------------------------------
(* Properties *)

(* The page's state, the text area and the handlers in flight have their types. *)
WorkspaceTypeOK ==
    /\ chapter \in [Chapters -> ChapterRows]
    /\ \A c \in Chapters : Len(history[c]) <= MaxRevisions /\ chapter[c].latest <= Len(history[c])
    /\ run \in [Chapters -> Runs]
    /\ page \in PageStates
    /\ editor \in Editors
    /\ watch \subseteq Chapters
    /\ task \in [Handlers -> Tasks]

(* A revision of a chapter holds a text that was written in that chapter's editor,      *)
(* however loads, saves, publications and polls overtake each other, unless the answer  *)
(* of a request about another chapter had changed the page's chapter under the text     *)
(* (saveAll reads state.chapter and the text area at different moments,                 *)
(* app.js:104-109, :166-170, :401).                                                     *)
TextStaysInItsChapter ==
    \A c \in Chapters : \A n \in DOMAIN history[c] :
        history[c][n].stray \/ history[c][n].chapter = c

(* Text the author typed leaves the text area only by the answer of a save that sent    *)
(* it, or of a load before which he agreed to lose it, unless he typed it while an      *)
(* answer was to come (app.js:103, :136, :170-171, :376).                               *)
UnsavedNotDropped ==
    [][(editor.typed /\ ~editor'.typed) =>
         \/ editor.late
         \/ \E h \in Handlers : task[h].settled /\ task'[h] # task[h]]_workspaceVars

(* The publish button publishes the text on the screen: the author reviews a candidate  *)
(* before it becomes canonical (docs/WRITING_WORKSPACE.md:76-77, :86).                  *)
PublishedTextWasShown ==
    (MayPublish /\ ~Dirty /\ ~editor.typed /\ \A h \in Handlers : ~Busy(h)) =>
        editor.chapter = page.chapter.id /\ editor.revision = page.chapter.latest
===============================================================================

----------------------------- MODULE WorkSettings ------------------------------
(***************************************************************************)
(* The row of one work (application/writing.py:80-212) and the pages that  *)
(* edit its settings (web/static/app.js).                                  *)
(*                                                                         *)
(* update_work_settings locks the row, compares expected_version and       *)
(* replaces every field of the form at once.  create_chapter reads the row *)
(* without a lock and writes back version + 1; publish_revision raises the *)
(* version under its own lock.  A page keeps the row it was last sent in   *)
(* state.work; it asks for the row again after every save of a chapter,    *)
(* and the answer arrives whenever it does.                                *)
(*                                                                         *)
(* The nine fields of the form travel together and are one "plan".         *)
(***************************************************************************)
EXTENDS Integers, Sequences, FiniteSetsExt

CONSTANTS
    Pages,          \* browser pages on the work
    Creators,       \* requests of POST /works/{id}/chapters
    Plans,          \* contents of the settings form
    NewWorkPlan,    \* what create_work stores
    Nothing,        \* NULL
    Named,          \* chapter numbers a client may name; the page names none
    MaxChapters,    \* bound: chapters of the work
    MaxVersion      \* bound: no change is started at this version of the work

ASSUME WorkAssumption ==
    /\ NewWorkPlan \in Plans
    /\ Named \subseteq Nat \ {0}
    /\ MaxChapters \in Nat
    /\ MaxVersion \in Nat \ {0}
    /\ Nothing \notin Plans

VARIABLES
    work,       \* the row of table works
    chapters,   \* the chapter_number of every row of table chapters
    page,       \* page[p]: state.work, or Nothing
    loading,    \* loading[p]: the answer to GET /works/{id} on its way to p, or Nothing
    request,    \* request[p]: the PATCH of p and its transaction
    creation,   \* creation[a]: the transaction of a chapter creation
    rewound     \* a creation has written a lower version than the work had reached

workVars == <<work, chapters, page, loading, request, creation, rewound>>

-------------------------------------------------------------------------------
(* Rows, pages and requests *)

WorkRows == [version : Nat, plan : Plans]

(* The row as create_work stores it. *)
NewWork == [version |-> 1, plan |-> NewWorkPlan]

ASSUME WorkNullAssumption == Nothing \notin WorkRows

(* sent is the state.work the request was made from, row what its session read under  *)
(* the lock.                                                                           *)
Requests == [step : {"idle", "locked", "done"}, plan : Plans \cup {Nothing},
             sent : WorkRows \cup {Nothing}, row : WorkRows \cup {Nothing}]

NoRequest == [step |-> "idle", plan |-> Nothing, sent |-> Nothing, row |-> Nothing]

Creations == [step : {"idle", "opened", "read"}, row : WorkRows \cup {Nothing}, number : Nat]

NoCreation == [step |-> "idle", row |-> Nothing, number |-> 0]

(* Fault: SELECT ... FOR UPDATE without FOR UPDATE. *)
WorkNeverLocked == FALSE

(* A PATCH holds the row from its SELECT ... FOR UPDATE to its commit. *)
WorkLocked == \E p \in Pages : request[p].step = "locked"

(* Fault: the unique index below is missing. *)
NumberUnchecked(n) == TRUE

(* The unique index on (work_id, chapter_number). *)
NumberFree(n) == \A i \in DOMAIN chapters : chapters[i] # n

Numbers == {chapters[i] : i \in DOMAIN chapters}

(* Fault: the highest number itself. *)
HighestNumber == Max({0} \cup Numbers)

(* max(chapter_number) + 1. *)
NextNumber == Max({0} \cup Numbers) + 1

-------------------------------------------------------------------------------
(* The page *)

(* selectWork and refreshListAndWork: the row is read now and arrives later. *)
AskWork(p) ==
    /\ loading[p] = Nothing
    /\ loading' = [loading EXCEPT ![p] = work]
    /\ UNCHANGED <<work, chapters, page, request, creation, rewound>>

(* state.work is replaced, whatever has been received since; an open form stays. *)
ReceiveWork(p) ==
    /\ loading[p] # Nothing
    /\ page' = [page EXCEPT ![p] = loading[p]]
    /\ loading' = [loading EXCEPT ![p] = Nothing]
    /\ UNCHANGED <<work, chapters, request, creation, rewound>>

-------------------------------------------------------------------------------
(* update_work_settings *)

(* saveWorkSettings sends the form with the version of state.work; the session waits   *)
(* for the row's lock and reads it.  The form holds whatever the author typed, what an  *)
(* earlier state.work filled it with or what a planning candidate did.                  *)
SaveSettings(p, s) ==
    /\ request[p] = NoRequest
    /\ page[p] # Nothing
    /\ ~WorkLocked
    /\ request' = [request EXCEPT ![p] =
           [step |-> "locked", plan |-> s, sent |-> page[p], row |-> work]]
    /\ UNCHANGED <<work, chapters, page, loading, creation, rewound>>

(* The version is the expected one: every field of the form is stored. *)
StoreSettings(p) ==
    LET r == request[p] IN
    /\ r.step = "locked"
    /\ r.row.version < MaxVersion                                  \* bound
    /\ r.row.version = r.sent.version
    /\ work' = [version |-> r.row.version + 1, plan |-> r.plan]
    /\ request' = [request EXCEPT ![p] = [NoRequest EXCEPT !.step = "done"]]
    /\ UNCHANGED <<chapters, page, loading, creation, rewound>>

(* 409. *)
RefuseSettings(p) ==
    /\ request[p].step = "locked"
    /\ request[p].row.version # request[p].sent.version
    /\ request' = [request EXCEPT ![p] = NoRequest]
    /\ UNCHANGED <<work, chapters, page, loading, creation, rewound>>

(* The answer is read after the commit; the page takes it over. *)
ReceiveSettings(p) ==
    /\ request[p].step = "done"
    /\ page' = [page EXCEPT ![p] = work]
    /\ request' = [request EXCEPT ![p] = NoRequest]
    /\ UNCHANGED <<work, chapters, loading, creation, rewound>>

(* The connection drops: an open transaction is rolled back, an answer is lost. *)
LoseSettings(p) ==
    /\ request[p] # NoRequest
    /\ request' = [request EXCEPT ![p] = NoRequest]
    /\ UNCHANGED <<work, chapters, page, loading, creation, rewound>>

-------------------------------------------------------------------------------
(* create_chapter and publish_revision *)

(* The work is read without a lock. *)
BeginCreate(a) ==
    /\ creation[a] = NoCreation
    /\ work.version < MaxVersion                                   \* bound
    /\ creation' = [creation EXCEPT ![a].step = "opened", ![a].row = work]
    /\ UNCHANGED <<work, chapters, page, loading, request, rewound>>

(* A query of its own reads the highest number, again without a lock, unless the client *)
(* names one.                                                                            *)
ChooseNumber(a, n) ==
    /\ creation[a].step = "opened"
    /\ Len(chapters) < MaxChapters                                 \* bound
    /\ creation' = [creation EXCEPT ![a].step = "read",
                        ![a].number = IF n = Nothing THEN NextNumber ELSE n]
    /\ UNCHANGED <<work, chapters, page, loading, request, rewound>>

(* The row is updated from the version read before, whatever it is now. *)
CommitCreate(a) ==
    LET c == creation[a] IN
    /\ c.step = "read"
    /\ ~WorkLocked
    /\ NumberFree(c.number)
    /\ work' = [work EXCEPT !.version = c.row.version + 1]
    /\ chapters' = Append(chapters, c.number)
    /\ rewound' = (rewound \/ c.row.version + 1 < work.version)
    /\ creation' = [creation EXCEPT ![a] = NoCreation]
    /\ UNCHANGED <<page, loading, request>>

(* The number was taken meanwhile: IntegrityError, answered with 409; or the request *)
(* is cut off.                                                                        *)
FailCreate(a) ==
    /\ creation[a] # NoCreation
    /\ creation' = [creation EXCEPT ![a] = NoCreation]
    /\ UNCHANGED <<work, chapters, page, loading, request, rewound>>

(* A publication (Manuscript) counts the work's version up under its lock. *)
Publish ==
    /\ chapters # <<>>
    /\ work.version < MaxVersion                                   \* bound
    /\ ~WorkLocked
    /\ work' = [work EXCEPT !.version = @ + 1]
    /\ UNCHANGED <<chapters, page, loading, request, creation, rewound>>

-------------------------------------------------------------------------------
(* The specification *)

WorkInit ==
    /\ work = NewWork
    /\ chapters = <<>>
    /\ page = [p \in Pages |-> Nothing]
    /\ loading = [p \in Pages |-> Nothing]
    /\ request = [p \in Pages |-> NoRequest]
    /\ creation = [a \in Creators |-> NoCreation]
    /\ rewound = FALSE

SettingsStep(p) ==
    \/ AskWork(p) \/ ReceiveWork(p)
    \/ \E s \in Plans : SaveSettings(p, s)
    \/ StoreSettings(p) \/ RefuseSettings(p)
    \/ ReceiveSettings(p) \/ LoseSettings(p)

CreateStep(a) ==
    \/ BeginCreate(a)
    \/ \E n \in Named \cup {Nothing} : ChooseNumber(a, n)
    \/ CommitCreate(a) \/ FailCreate(a)

WorkNext ==
    \/ \E p \in Pages : SettingsStep(p)
    \/ \E a \in Creators : CreateStep(a)
    \/ Publish

WorkSpec == WorkInit /\ [][WorkNext]_workVars

-------------------------------------------------------------------------------
(* Properties *)

(* Every row and request has its type. *)
WorkTypeOK ==
    /\ work \in WorkRows
    /\ chapters \in Seq(Nat \ {0})
    /\ page \in [Pages -> WorkRows \cup {Nothing}]
    /\ loading \in [Pages -> WorkRows \cup {Nothing}]
    /\ request \in [Pages -> Requests]
    /\ creation \in [Creators -> Creations]
    /\ rewound \in BOOLEAN

(* Two creations that read the same highest number, or one that names a number, never *)
(* give two chapters the same one.                                                     *)
ChapterNumbersUnique ==
    \A i, j \in DOMAIN chapters : chapters[i] = chapters[j] => i = j

(* Until a creation has written an old version back, a settings update that is         *)
(* accepted replaces the plan its page held in state.work: expected_version keeps one   *)
(* page from undoing what another saved (docs/WRITING_WORKSPACE.md:101).                *)
AcceptedSaveKnewPlan ==
    [][\A p \in Pages :
           (request[p].step = "locked" /\ request'[p].step = "done") =>
               (rewound \/ request[p].sent.plan = work.plan)]_workVars
===============================================================================

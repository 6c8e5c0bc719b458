-------------------------- MODULE WorkSettingsProofs ---------------------------
(***************************************************************************)
(* The row of a work, for any pages, creations, plans and bounds.  Two     *)
(* facts carry the argument: the one request that holds the lock has read  *)
(* the row as it is, and until a creation has written an old version back, *)
(* no page holds a row newer than the stored one, nor another plan under   *)
(* the same version.                                                       *)
(***************************************************************************)
EXTENDS WorkSettings, TLAPS

(* The lock is exclusive and keeps the row its holder read. *)
LockHolderIsCurrent ==
    /\ \A p \in Pages : request[p].step = "locked" =>
           /\ request[p].row = work
           /\ request[p].sent \in WorkRows
           /\ request[p].plan \in Plans
    /\ \A p, q \in Pages : request[p].step = "locked" /\ request[q].step = "locked" => p = q

(* A creation in flight has read a row, and one about to commit has chosen a number. *)
CreationsCarryData ==
    \A a \in Creators :
        /\ creation[a].step # "idle" => creation[a].row \in WorkRows
        /\ creation[a].step = "read" => creation[a].number \in Nat \ {0}

(* A copy w of the row is not newer than row u, and under one version they agree. *)
CopyOf(w, u) == w # Nothing =>
    /\ w.version <= u.version
    /\ w.version = u.version => w.plan = u.plan

CopiesAgree == rewound \/ \A p \in Pages :
    CopyOf(page[p], work) /\ CopyOf(loading[p], work) /\ CopyOf(request[p].sent, work)

(* There is a highest number to add one to. *)
HighestExists == \E m \in {0} \cup Numbers : \A k \in {0} \cup Numbers : m >= k

WorkInv == /\ WorkTypeOK
           /\ LockHolderIsCurrent
           /\ CreationsCarryData
           /\ CopiesAgree
           /\ HighestExists
           /\ ChapterNumbersUnique

SaveStep == \A p \in Pages :
    (request[p].step = "locked" /\ request'[p].step = "done") =>
        (rewound \/ request[p].sent.plan = work.plan)

-------------------------------------------------------------------------------

LEMMA NoRequestType == NoRequest \in Requests /\ [NoRequest EXCEPT !.step = "done"] \in Requests
  BY DEF NoRequest, Requests

LEMMA WorkInitInv == WorkInit => WorkInv
  <1> SUFFICES ASSUME WorkInit PROVE WorkInv
    OBVIOUS
  <1>1. WorkTypeOK
    <2>1. NewWork \in WorkRows
      BY WorkAssumption DEF NewWork, WorkRows
    <2>2. NoCreation \in Creations
      BY DEF NoCreation, Creations
    <2>3. /\ work \in WorkRows
          /\ chapters \in Seq(Nat \ {0})
          /\ rewound \in BOOLEAN
      <3>1. work \in WorkRows /\ rewound \in BOOLEAN
        BY <2>1 DEF WorkInit
      <3>2. chapters \in Seq(Nat \ {0})
        BY DEF WorkInit
      <3> QED
        BY <3>1, <3>2
    <2>4. /\ page \in [Pages -> WorkRows \cup {Nothing}]
          /\ loading \in [Pages -> WorkRows \cup {Nothing}]
      BY DEF WorkInit
    <2>5. request \in [Pages -> Requests] /\ creation \in [Creators -> Creations]
      BY <2>2, NoRequestType DEF WorkInit
    <2> QED
      BY <2>3, <2>4, <2>5 DEF WorkTypeOK
  <1>2. LockHolderIsCurrent /\ CreationsCarryData /\ CopiesAgree
    BY DEF WorkInit, LockHolderIsCurrent, CreationsCarryData, CopiesAgree, CopyOf, NoRequest,
       NoCreation
  <1>3. HighestExists /\ ChapterNumbersUnique
    BY DEF WorkInit, HighestExists, ChapterNumbersUnique, Numbers
  <1> QED
    BY <1>1, <1>2, <1>3 DEF WorkInv

(* max(chapter_number) + 1 is a chapter number. *)
LEMMA NextNumberType == WorkTypeOK /\ HighestExists => NextNumber \in Nat \ {0}
  <1> SUFFICES ASSUME WorkTypeOK, HighestExists PROVE NextNumber \in Nat \ {0}
    OBVIOUS
  <1>1. Numbers \subseteq Nat
    BY DEF WorkTypeOK, Numbers
  <1>2. Max({0} \cup Numbers) \in {0} \cup Numbers
    BY DEF HighestExists, Max
  <1>3. \A m \in {0} \cup Numbers : m + 1 \in Nat \ {0}
    BY <1>1
  <1> QED
    BY <1>2, <1>3 DEF NextNumber

(* A step that leaves the row, the numbers and the creations alone, and gives a page and *)
(* its request nothing but copies of the row.                                             *)
LEMMA PageOnlyStep ==
    ASSUME WorkInv, NEW p \in Pages,
           UNCHANGED <<work, chapters, creation, rewound>>,
           NEW s \in WorkRows \cup {Nothing}, page' = [page EXCEPT ![p] = s],
           NEW l \in WorkRows \cup {Nothing}, loading' = [loading EXCEPT ![p] = l],
           NEW r \in Requests, request' = [request EXCEPT ![p] = r],
           rewound \/ (CopyOf(s, work) /\ CopyOf(l, work) /\ CopyOf(r.sent, work)),
           r.step = "locked" =>
               /\ r.row = work /\ r.sent \in WorkRows /\ r.plan \in Plans
               /\ \A q \in Pages : request[q].step = "locked" => q = p
    PROVE  WorkInv'
  <1>1. /\ request'[p] = r /\ page'[p] = s /\ loading'[p] = l
        /\ \A q \in Pages : q # p => /\ request'[q] = request[q]
                                     /\ page'[q] = page[q] /\ loading'[q] = loading[q]
    BY DEF WorkInv, WorkTypeOK
  <1>2. WorkTypeOK'
    BY DEF WorkInv, WorkTypeOK
  <1>3. LockHolderIsCurrent'
    BY <1>1 DEF WorkInv, LockHolderIsCurrent
  <1>4. CreationsCarryData' /\ HighestExists' /\ ChapterNumbersUnique'
    BY DEF WorkInv, CreationsCarryData, HighestExists, Numbers, ChapterNumbersUnique
  <1>5. CopiesAgree'
    BY <1>1 DEF WorkInv, CopiesAgree, CopyOf
  <1> QED
    BY <1>2, <1>3, <1>4, <1>5 DEF WorkInv

LEMMA SamePage ==
    ASSUME WorkTypeOK, NEW p \in Pages
    PROVE  /\ page = [page EXCEPT ![p] = page[p]] /\ page[p] \in WorkRows \cup {Nothing}
           /\ loading = [loading EXCEPT ![p] = loading[p]]
           /\ loading[p] \in WorkRows \cup {Nothing}
           /\ request = [request EXCEPT ![p] = request[p]] /\ request[p] \in Requests
           /\ work \in WorkRows /\ CopyOf(work, work)
  BY DEF WorkTypeOK, WorkRows, CopyOf

LEMMA OldCopies ==
    ASSUME WorkInv, NEW p \in Pages
    PROVE  /\ rewound \/ (/\ CopyOf(page[p], work) /\ CopyOf(loading[p], work)
                          /\ CopyOf(request[p].sent, work))
           /\ CopyOf(Nothing, work)
           /\ request[p].step = "locked" =>
               /\ request[p].row = work /\ request[p].sent \in WorkRows /\ request[p].plan \in Plans
               /\ \A q \in Pages : request[q].step = "locked" => q = p
  BY DEF WorkInv, CopiesAgree, CopyOf, LockHolderIsCurrent

LEMMA AskWorkStep ==
    ASSUME WorkInv, NEW p \in Pages, AskWork(p)
    PROVE  WorkInv'
  <1>1. WorkTypeOK
    BY DEF WorkInv
  <1>2. /\ loading' = [loading EXCEPT ![p] = work]
        /\ UNCHANGED <<work, chapters, creation, rewound>>
        /\ page' = page /\ request' = request
    BY DEF AskWork
  <1>3. page' = [page EXCEPT ![p] = page[p]] /\ request' = [request EXCEPT ![p] = request[p]]
    BY <1>1, <1>2, SamePage
  <1>4. /\ page[p] \in WorkRows \cup {Nothing} /\ work \in WorkRows \cup {Nothing}
        /\ request[p] \in Requests
    BY <1>1, SamePage
  <1>5. \/ rewound
        \/ CopyOf(page[p], work) /\ CopyOf(work, work) /\ CopyOf(request[p].sent, work)
    BY <1>1, SamePage, OldCopies
  <1>6. request[p].step = "locked" =>
            /\ request[p].row = work /\ request[p].sent \in WorkRows
            /\ request[p].plan \in Plans
            /\ \A q \in Pages : request[q].step = "locked" => q = p
    BY OldCopies
  <1> QED
    BY <1>2, <1>3, <1>4, <1>5, <1>6, PageOnlyStep

LEMMA ReceiveWorkStep ==
    ASSUME WorkInv, NEW p \in Pages, ReceiveWork(p)
    PROVE  WorkInv'
  BY SamePage, OldCopies, PageOnlyStep DEF WorkInv, ReceiveWork

LEMMA SaveSettingsStep ==
    ASSUME WorkInv, NEW p \in Pages, NEW s \in Plans, SaveSettings(p, s)
    PROVE  WorkInv'
  <1> DEFINE r == [step |-> "locked", plan |-> s, sent |-> page[p], row |-> work]
  <1>1. page[p] \in WorkRows /\ work \in WorkRows
    BY SamePage DEF WorkInv, SaveSettings
  <1>2. r \in Requests
    BY <1>1 DEF Requests
  <1>3. \A q \in Pages : request[q].step = "locked" => q = p
    BY DEF SaveSettings, WorkLocked
  <1>4. request' = [request EXCEPT ![p] = r] /\ page' = page /\ loading' = loading
        /\ UNCHANGED <<work, chapters, creation, rewound>>
    BY DEF SaveSettings
  <1>5. /\ page' = [page EXCEPT ![p] = page[p]]
        /\ loading' = [loading EXCEPT ![p] = loading[p]]
        /\ loading[p] \in WorkRows \cup {Nothing}
    BY <1>4, SamePage DEF WorkInv
  <1>6. rewound \/ (CopyOf(page[p], work) /\ CopyOf(loading[p], work) /\ CopyOf(r.sent, work))
    BY OldCopies
  <1>7. r.row = work /\ r.sent \in WorkRows /\ r.plan \in Plans
    BY <1>1
  <1> HIDE DEF r
  <1> QED
    BY <1>1, <1>2, <1>3, <1>4, <1>5, <1>6, <1>7, PageOnlyStep

(* An answer, a refusal or a lost connection ends the request. *)
LEMMA EndRequestStep ==
    ASSUME WorkInv, NEW p \in Pages, RefuseSettings(p) \/ ReceiveSettings(p) \/ LoseSettings(p)
    PROVE  WorkInv'
  <1>1. NoRequest.step # "locked" /\ NoRequest.sent = Nothing
    BY DEF NoRequest
  <1>2. CASE RefuseSettings(p) \/ LoseSettings(p)
    <2>1. /\ request' = [request EXCEPT ![p] = NoRequest]
          /\ UNCHANGED <<work, chapters, page, loading, creation, rewound>>
      BY <1>2 DEF RefuseSettings, LoseSettings
    <2> QED
      BY <1>1, <2>1, NoRequestType, SamePage, OldCopies, PageOnlyStep DEF WorkInv
  <1>3. CASE ReceiveSettings(p)
    BY <1>1, <1>3, NoRequestType, SamePage, OldCopies, PageOnlyStep DEF WorkInv, ReceiveSettings
  <1> QED
    BY <1>2, <1>3

(* A change of the row that raises the version, or keeps row and version, keeps copies. *)
LEMMA CopyKept ==
    ASSUME NEW u \in WorkRows, NEW v \in WorkRows,
           u.version < v.version \/ (u.version = v.version /\ u.plan = v.plan),
           NEW w \in WorkRows \cup {Nothing}, CopyOf(w, u)
    PROVE  CopyOf(w, v)
  BY DEF CopyOf, WorkRows

(* The holder of the lock writes the next version of the row as it is. *)
LEMMA StoreSettingsStep ==
    ASSUME WorkInv, NEW p \in Pages, StoreSettings(p)
    PROVE  WorkInv'
  <1> DEFINE r == request[p]
  <1>1. /\ r.step = "locked" /\ r.row = work /\ r.plan \in Plans
        /\ \A q \in Pages : request[q].step = "locked" => q = p
    BY OldCopies DEF StoreSettings
  <1>2. work \in WorkRows /\ work' = [version |-> work.version + 1, plan |-> r.plan]
    BY <1>1 DEF StoreSettings, WorkInv, WorkTypeOK
  <1>3. work' \in WorkRows /\ work.version < work'.version
    BY <1>1, <1>2 DEF WorkRows
  <1>4. /\ request' = [request EXCEPT ![p] = [NoRequest EXCEPT !.step = "done"]]
        /\ UNCHANGED <<chapters, page, loading, creation, rewound>>
    BY DEF StoreSettings
  <1>5. /\ request'[p].step = "done" /\ request'[p].sent = Nothing
        /\ \A q \in Pages : q # p => request'[q] = request[q]
    BY <1>4 DEF WorkInv, WorkTypeOK, NoRequest
  <1>6. WorkTypeOK'
    BY <1>3, <1>4, NoRequestType DEF WorkInv, WorkTypeOK
  <1>7. LockHolderIsCurrent'
    BY <1>1, <1>5 DEF LockHolderIsCurrent
  <1>8. CreationsCarryData' /\ HighestExists' /\ ChapterNumbersUnique'
    BY <1>4 DEF WorkInv, CreationsCarryData, HighestExists, Numbers, ChapterNumbersUnique
  <1>9. CopiesAgree'
    <2> SUFFICES ASSUME ~rewound, NEW q \in Pages
                 PROVE  /\ CopyOf(page[q], work') /\ CopyOf(loading[q], work')
                        /\ CopyOf(request'[q].sent, work')
      BY <1>4 DEF CopiesAgree
    <2>1. /\ CopyOf(page[q], work) /\ CopyOf(loading[q], work) /\ CopyOf(request[q].sent, work)
      BY DEF WorkInv, CopiesAgree
    <2>2. /\ page[q] \in WorkRows \cup {Nothing} /\ loading[q] \in WorkRows \cup {Nothing}
          /\ request[q].sent \in WorkRows \cup {Nothing}
      BY DEF WorkInv, WorkTypeOK, Requests
    <2>3. CopyOf(request'[q].sent, work')
      <3>1. CASE q = p
        BY <1>5, <3>1 DEF CopyOf
      <3>2. CASE q # p
        BY <1>2, <1>3, <1>5, <2>1, <2>2, <3>2, CopyKept
      <3> QED
        BY <3>1, <3>2
    <2> QED
      BY <1>2, <1>3, <2>1, <2>2, <2>3, CopyKept
  <1> QED
    BY <1>6, <1>7, <1>8, <1>9 DEF WorkInv

(* The row changes while nobody holds the lock: copies stay, or the creation is known to  *)
(* have written an old version back.                                                       *)
LEMMA UnlockedWrite ==
    ASSUME WorkInv, ~WorkLocked, work' \in WorkRows,
           UNCHANGED <<page, loading, request>>,
           rewound' \in BOOLEAN, rewound => rewound',
           \/ rewound'
           \/ work.version < work'.version
           \/ work.version = work'.version /\ work.plan = work'.plan
    PROVE  LockHolderIsCurrent' /\ CopiesAgree'
  <1>1. LockHolderIsCurrent'
    BY DEF LockHolderIsCurrent, WorkLocked
  <1>2. CopiesAgree'
    <2> SUFFICES ASSUME ~rewound', NEW q \in Pages
                 PROVE  /\ CopyOf(page[q], work') /\ CopyOf(loading[q], work')
                        /\ CopyOf(request[q].sent, work')
      BY DEF CopiesAgree
    <2>1. /\ CopyOf(page[q], work) /\ CopyOf(loading[q], work) /\ CopyOf(request[q].sent, work)
      BY DEF WorkInv, CopiesAgree
    <2>2. /\ page[q] \in WorkRows \cup {Nothing} /\ loading[q] \in WorkRows \cup {Nothing}
          /\ request[q].sent \in WorkRows \cup {Nothing} /\ work \in WorkRows
      BY DEF WorkInv, WorkTypeOK, Requests
    <2> QED
      BY <2>1, <2>2, CopyKept
  <1> QED
    BY <1>1, <1>2

(* A step that changes one creation and nothing else. *)
LEMMA CreationOnlyStep ==
    ASSUME WorkInv, NEW a \in Creators, NEW c \in Creations,
           creation' = [creation EXCEPT ![a] = c],
           UNCHANGED <<work, chapters, page, loading, request, rewound>>,
           c.step # "idle" => c.row \in WorkRows,
           c.step = "read" => c.number \in Nat \ {0}
    PROVE  WorkInv'
  <1>1. WorkTypeOK'
    BY DEF WorkInv, WorkTypeOK
  <1>2. CreationsCarryData'
    BY DEF WorkInv, WorkTypeOK, CreationsCarryData
  <1>3. LockHolderIsCurrent' /\ CopiesAgree' /\ HighestExists' /\ ChapterNumbersUnique'
    BY DEF WorkInv, LockHolderIsCurrent, CopiesAgree, CopyOf, HighestExists, Numbers,
       ChapterNumbersUnique
  <1> QED
    BY <1>1, <1>2, <1>3 DEF WorkInv

LEMMA BeginCreateStep ==
    ASSUME WorkInv, NEW a \in Creators, BeginCreate(a)
    PROVE  WorkInv'
  <1> DEFINE c == [creation[a] EXCEPT !.step = "opened", !.row = work]
  <1>1. creation[a] \in Creations /\ work \in WorkRows
    BY DEF WorkInv, WorkTypeOK
  <1>2. c \in Creations /\ c.step = "opened" /\ c.row = work
    BY <1>1 DEF Creations
  <1>3. /\ creation' = [creation EXCEPT ![a] = c]
        /\ UNCHANGED <<work, chapters, page, loading, request, rewound>>
    BY DEF BeginCreate
  <1> HIDE DEF c
  <1> QED
    BY <1>1, <1>2, <1>3, CreationOnlyStep

LEMMA ChooseNumberStep ==
    ASSUME WorkInv, NEW a \in Creators, NEW n \in Named \cup {Nothing}, ChooseNumber(a, n)
    PROVE  WorkInv'
  <1> DEFINE m == IF n = Nothing THEN NextNumber ELSE n
             c == [creation[a] EXCEPT !.step = "read", !.number = m]
  <1>1. m \in Nat \ {0}
    BY WorkAssumption, NextNumberType DEF WorkInv
  <1>2. creation[a] \in Creations /\ creation[a].row \in WorkRows
    BY DEF WorkInv, WorkTypeOK, CreationsCarryData, ChooseNumber
  <1>3. /\ creation' = [creation EXCEPT ![a] = c]
        /\ UNCHANGED <<work, chapters, page, loading, request, rewound>>
    BY DEF ChooseNumber
  <1> HIDE DEF m
  <1>4. c \in Creations /\ c.step = "read" /\ c.row = creation[a].row /\ c.number = m
    BY <1>1, <1>2 DEF Creations
  <1> HIDE DEF c
  <1> QED
    BY <1>1, <1>2, <1>3, <1>4, CreationOnlyStep

LEMMA FailCreateStep ==
    ASSUME WorkInv, NEW a \in Creators, FailCreate(a)
    PROVE  WorkInv'
  <1>1. NoCreation \in Creations /\ NoCreation.step = "idle"
    BY DEF NoCreation, Creations
  <1> QED
    BY <1>1, CreationOnlyStep DEF FailCreate

(* The unique index lets only a new number in, whatever the creation had read. *)
LEMMA CommitCreateStep ==
    ASSUME WorkInv, NEW a \in Creators, CommitCreate(a)
    PROVE  WorkInv'
  <1> DEFINE c == creation[a]
  <1>1. c.row \in WorkRows /\ c.number \in Nat \ {0}
    BY DEF WorkInv, CreationsCarryData, CommitCreate
  <1>2. /\ ~WorkLocked /\ NumberFree(c.number)
        /\ work' = [work EXCEPT !.version = c.row.version + 1]
        /\ chapters' = Append(chapters, c.number)
        /\ rewound' = (rewound \/ c.row.version + 1 < work.version)
        /\ creation' = [creation EXCEPT ![a] = NoCreation]
        /\ UNCHANGED <<page, loading, request>>
    BY DEF CommitCreate
  <1>3. work \in WorkRows /\ chapters \in Seq(Nat \ {0}) /\ rewound \in BOOLEAN
    BY DEF WorkInv, WorkTypeOK
  <1>4. /\ work' \in WorkRows /\ work'.version = c.row.version + 1 /\ work'.plan = work.plan
    BY <1>1, <1>2, <1>3 DEF WorkRows
  <1>5. /\ chapters' \in Seq(Nat \ {0})
        /\ DOMAIN chapters = 1 .. Len(chapters) /\ Len(chapters) \in Nat
        /\ DOMAIN chapters' = 1 .. Len(chapters) + 1
        /\ \A i \in DOMAIN chapters : chapters'[i] = chapters[i]
        /\ chapters'[Len(chapters) + 1] = c.number
    BY <1>1, <1>2, <1>3
  <1>6. NoCreation \in Creations /\ NoCreation.step = "idle"
    BY DEF NoCreation, Creations
  <1>7. rewound' \in BOOLEAN /\ (rewound => rewound')
    BY <1>2, <1>3
  <1>8. WorkTypeOK'
    BY <1>2, <1>4, <1>5, <1>6, <1>7 DEF WorkInv, WorkTypeOK
  <1>9. CreationsCarryData'
    BY <1>2, <1>6 DEF WorkInv, WorkTypeOK, CreationsCarryData
  <1>10. LockHolderIsCurrent' /\ CopiesAgree'
    <2>1. \/ rewound' \/ work.version < work'.version
          \/ work.version = work'.version /\ work.plan = work'.plan
      <3>1. c.row.version \in Nat /\ work.version \in Nat
        BY <1>1, <1>3 DEF WorkRows
      <3>2. c.row.version + 1 < work.version => rewound'
        BY <1>2
      <3> QED
        BY <1>4, <3>1, <3>2
    <2> QED
      BY <1>2, <1>4, <1>7, <2>1, UnlockedWrite
  <1>11. ChapterNumbersUnique'
    <2> SUFFICES ASSUME NEW i \in DOMAIN chapters', NEW j \in DOMAIN chapters',
                        chapters'[i] = chapters'[j]
                 PROVE  i = j
      BY DEF ChapterNumbersUnique
    <2>1. \A k \in DOMAIN chapters : chapters[k] # c.number
      BY <1>2 DEF NumberFree
    <2>2. \A k \in DOMAIN chapters' : k \in DOMAIN chapters \/ k = Len(chapters) + 1
      BY <1>5
    <2>3. CASE i \in DOMAIN chapters /\ j \in DOMAIN chapters
      BY <1>5, <2>3 DEF WorkInv, ChapterNumbersUnique
    <2> QED
      BY <1>5, <2>1, <2>2, <2>3
  <1>12. HighestExists'
    <2>1. Numbers' = Numbers \cup {c.number}
      <3>1. \A k \in DOMAIN chapters' : k \in DOMAIN chapters \/ k = Len(chapters) + 1
        BY <1>5
      <3>2. DOMAIN chapters \subseteq DOMAIN chapters' /\ Len(chapters) + 1 \in DOMAIN chapters'
        BY <1>5
      <3> QED
        BY <1>5, <3>1, <3>2 DEF Numbers
    <2>2. PICK m \in {0} \cup Numbers : \A k \in {0} \cup Numbers : m >= k
      BY DEF WorkInv, HighestExists
    <2>3. Numbers \subseteq Nat
      BY <1>3 DEF Numbers
    <2>4. CASE m >= c.number
      BY <2>1, <2>2, <2>4 DEF HighestExists
    <2>5. CASE ~(m >= c.number)
      <3>1. \A k \in {0} \cup Numbers : k \in Nat /\ m >= k /\ m \in Nat
        BY <2>2, <2>3
      <3>2. \A k \in {0} \cup Numbers : c.number >= k
        BY <1>1, <2>5, <3>1
      <3>3. \A k \in {0} \cup Numbers \cup {c.number} : c.number >= k
        BY <1>1, <3>2
      <3> QED
        BY <2>1, <3>3 DEF HighestExists
    <2> QED
      BY <2>4, <2>5
  <1> QED
    BY <1>8, <1>9, <1>10, <1>11, <1>12 DEF WorkInv

LEMMA PublishStep == WorkInv /\ Publish => WorkInv'
  <1> SUFFICES ASSUME WorkInv, Publish PROVE WorkInv'
    OBVIOUS
  <1>1. /\ ~WorkLocked
        /\ work' = [work EXCEPT !.version = work.version + 1]
        /\ UNCHANGED <<chapters, page, loading, request, creation, rewound>>
    BY DEF Publish
  <1>2. work \in WorkRows /\ rewound \in BOOLEAN
    BY DEF WorkInv, WorkTypeOK
  <1>3. work' \in WorkRows /\ work.version < work'.version
    BY <1>1, <1>2 DEF WorkRows
  <1>4. WorkTypeOK'
    BY <1>1, <1>3 DEF WorkInv, WorkTypeOK
  <1>5. LockHolderIsCurrent' /\ CopiesAgree'
    BY <1>1, <1>2, <1>3, UnlockedWrite
  <1>6. CreationsCarryData' /\ HighestExists' /\ ChapterNumbersUnique'
    BY <1>1 DEF WorkInv, CreationsCarryData, HighestExists, Numbers, ChapterNumbersUnique
  <1> QED
    BY <1>4, <1>5, <1>6 DEF WorkInv

LEMMA WorkNextInv == WorkInv /\ [WorkNext]_workVars => WorkInv'
  <1> SUFFICES ASSUME WorkInv, [WorkNext]_workVars PROVE WorkInv'
    OBVIOUS
  <1>1. CASE UNCHANGED workVars
    BY <1>1 DEF workVars, WorkInv, WorkTypeOK, LockHolderIsCurrent, CreationsCarryData,
       CopiesAgree, CopyOf, HighestExists, Numbers, ChapterNumbersUnique
  <1>2. ASSUME NEW p \in Pages, SettingsStep(p) PROVE WorkInv'
    BY <1>2, AskWorkStep, ReceiveWorkStep, SaveSettingsStep, StoreSettingsStep, EndRequestStep
       DEF SettingsStep
  <1>3. ASSUME NEW a \in Creators, CreateStep(a) PROVE WorkInv'
    BY <1>3, BeginCreateStep, ChooseNumberStep, CommitCreateStep, FailCreateStep DEF CreateStep
  <1> QED
    BY <1>1, <1>2, <1>3, PublishStep DEF WorkNext

(* Only StoreSettings answers a request, and it does so from a row that is current. *)
LEMMA WorkNextSave == WorkInv /\ [WorkNext]_workVars => SaveStep
  <1> SUFFICES ASSUME WorkInv, [WorkNext]_workVars, NEW p \in Pages,
                      request[p].step = "locked", request'[p].step = "done", ~rewound
               PROVE  request[p].sent.plan = work.plan
    BY DEF SaveStep
  <1>1. StoreSettings(p)
    <2>1. request' # request
      OBVIOUS
    <2>2. PICK q \in Pages : SettingsStep(q)
      BY <2>1 DEF WorkNext, workVars, CreateStep, BeginCreate, ChooseNumber,
         CommitCreate, FailCreate, Publish
    <2>3. request \in [Pages -> Requests]
      BY DEF WorkInv, WorkTypeOK
    <2>4. \A r : \A s \in Pages : request' = [request EXCEPT ![s] = r] => s = p /\ r.step = "done"
      BY <2>3
    <2>5. NoRequest.step = "idle"
      BY DEF NoRequest
    <2>6. ~AskWork(q) /\ ~ReceiveWork(q)
      BY <2>1 DEF AskWork, ReceiveWork
    <2>7. ~RefuseSettings(q) /\ ~ReceiveSettings(q) /\ ~LoseSettings(q)
      BY <2>4, <2>5 DEF RefuseSettings, ReceiveSettings, LoseSettings
    <2>8. \A s \in Plans : ~SaveSettings(q, s)
      BY <2>4 DEF SaveSettings
    <2>9. StoreSettings(q)
      BY <2>2, <2>6, <2>7, <2>8 DEF SettingsStep
    <2>10. q = p
      BY <2>4, <2>9 DEF StoreSettings
    <2> QED
      BY <2>9, <2>10
  <1>2. request[p].row = work /\ request[p].sent \in WorkRows
    BY DEF WorkInv, LockHolderIsCurrent
  <1>3. CopyOf(request[p].sent, work)
    BY DEF WorkInv, CopiesAgree
  <1>4. request[p].sent # Nothing
    BY <1>2, WorkNullAssumption
  <1> QED
    BY <1>1, <1>2, <1>3, <1>4 DEF StoreSettings, CopyOf
-------------------------------------------------------------------------------

LEMMA WorkInvariant == WorkSpec => []WorkInv
  <1>1. WorkInit => WorkInv
    BY WorkInitInv
  <1>2. WorkInv /\ [WorkNext]_workVars => WorkInv'
    BY WorkNextInv
  <1> QED
    BY <1>1, <1>2, PTL DEF WorkSpec

(* The row, the pages' copies, the requests and the creations keep their types: a number *)
(* is always there to be one higher than (writing.py:192-200).                            *)
THEOREM WorkTypeCorrect == WorkSpec => []WorkTypeOK
  <1>1. WorkInv => WorkTypeOK
    BY DEF WorkInv
  <1> QED
    BY <1>1, WorkInvariant, PTL

(* However many creations read one highest number and however clients name numbers, no   *)
(* two chapters of a work share one (writing.py:192-209, models.py).                      *)
THEOREM NumbersStayUnique == WorkSpec => []ChapterNumbersUnique
  <1>1. WorkInv => ChapterNumbersUnique
    BY DEF WorkInv
  <1> QED
    BY <1>1, WorkInvariant, PTL

(* Until a creation has written an old version back, expected_version (writing.py:126)    *)
(* lets a save through only from a page that held the plan the save replaces.             *)
THEOREM SavesKnowThePlan == WorkSpec => AcceptedSaveKnewPlan
  <1>1. WorkInv /\ [WorkNext]_workVars => [SaveStep]_workVars
    BY WorkNextSave
  <1>2. AcceptedSaveKnewPlan <=> [][SaveStep]_workVars
    BY DEF AcceptedSaveKnewPlan, SaveStep
  <1> QED
    BY <1>1, <1>2, WorkInvariant, PTL DEF WorkSpec
===============================================================================

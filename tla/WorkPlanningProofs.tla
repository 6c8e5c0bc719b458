-------------------------- MODULE WorkPlanningProofs ---------------------------
(***************************************************************************)
(* The safety properties of WorkPlanning, for any tabs, workers, runs and  *)
(* outlines.  A worker that outlives its lease may write a run that has    *)
(* been settled since, so whatever is said of claims and of settled runs   *)
(* is said of runs none of whose workers is late (Overtaken); that a       *)
(* candidate is its run's own, and new, holds of all.                      *)
(***************************************************************************)
EXTENDS WorkPlanning, SequenceTheorems, TLAPS

(* A worker that has not ended has a run. *)
WorkersHaveRuns ==
    \A w \in Workers : worker[w].phase \in {"scheduled", "claimed", "calling"} =>
        worker[w].run \in Existing

(* A lease runs out while its worker calls the model, which is then late, or after the  *)
(* worker has ended; only a worker that has claimed its run owns one.                   *)
LeasesOfWorkers ==
    /\ \A w \in Workers : worker[w].late => w \in expired /\ worker[w].phase # "none"
    /\ \A w \in expired : \/ worker[w].phase = "ended"
                          \/ worker[w].phase = "calling" /\ worker[w].late
    /\ \A r \in Existing, w \in Workers :
           run[r].owner = w => worker[w].phase \notin {"none", "scheduled"}

(* As long as no worker of a run has outlived its lease, a live one has the claim. *)
ClaimsHold ==
    \A w \in Workers : (Live(w) /\ ~Overtaken(worker[w].run)) =>
        run[worker[w].run].status = "RUNNING" /\ run[worker[w].run].owner = w

(* The call is the only step that is ever shown at work. *)
OnlyTheCallRuns ==
    \A r \in Existing, s \in PlanningSteps : run[r].steps[s] = "RUNNING" =>
        s = "generate_work_plan"

(* A tab that waits has a run; the run it has asked for itself names what the tab keeps. *)
TabFits(y) ==
    /\ y.step = "checked" => y.key \in Keys
    /\ y.step \in {"polling", "fetching"} => y.run \in Existing
    /\ y.own => y.step \in {"polling", "fetching"} /\ run[y.run].prior = PriorOutlines(y.kept)

TabsHaveRuns == \A t \in Tabs : TabFits(tab[t])

(* What the tables and the tabs hold. *)
DataInv == /\ PlanningTypeOK /\ WorkersHaveRuns /\ TabsHaveRuns /\ KeptOnce
           /\ ReviewHasOwnCandidate /\ OnePlanningPerKey /\ OnlyTheCallRuns

(* Who may write a run. *)
ClaimInv == LeasesOfWorkers /\ ClaimsHold /\ SettledRunRests

PlanningInv == DataInv /\ ClaimInv

-------------------------------------------------------------------------------
(* The candidates a tab keeps *)

(* l is the end of s. *)
EndOf(l, s) == \E d \in Nat : /\ Len(s) = Len(l) + d
                              /\ \A i \in 1 .. Len(l) : l[i] = s[i + d]

LEMMA LatestOf ==
  ASSUME NEW s \in Seq(Candidates), NEW n \in Nat, NEW l, l = Latest(s, n)
  PROVE  l \in Seq(Candidates) /\ EndOf(l, s)
  <1>1. CASE Len(s) > n
    <2>1. PICK d \in Nat : d = Len(s) - n
      BY <1>1
    <2>2. l = SubSeq(s, d + 1, Len(s))
      BY <1>1, <2>1 DEF Latest
    <2>3. /\ l \in Seq(Candidates) /\ Len(s) = Len(l) + d
          /\ \A i \in 1 .. Len(l) : l[i] = s[i + d]
      BY <2>1, <2>2
    <2> QED
      BY <2>1, <2>3 DEF EndOf
  <1>2. CASE ~(Len(s) > n)
    <2>1. l = s
      BY <1>2, SubSeqFull DEF Latest
    <2>2. /\ Len(s) = Len(l) + 0 /\ \A i \in 1 .. Len(l) : l[i] = s[i + 0]
      BY <2>1
    <2> QED
      BY <2>1, <2>2 DEF EndOf
  <1> QED
    BY <1>1, <1>2

(* No two entries of s have one id. *)
Unique(s) == \A i, j \in 1 .. Len(s) : s[i].id = s[j].id => i = j

LEMMA WithoutOf ==
  ASSUME NEW s \in Seq(Candidates), Unique(s), NEW id
  PROVE  /\ Without(s, id) \in Seq(Candidates) /\ Unique(Without(s, id))
         /\ \A i \in 1 .. Len(Without(s, id)) : Without(s, id)[i].id # id
  <1>1. CASE \E i \in 1 .. Len(s) : s[i].id = id
    <2>1. PICK i : i = CHOOSE k \in 1 .. Len(s) : s[k].id = id
      OBVIOUS
    <2>2. i \in 1 .. Len(s) /\ s[i].id = id
      BY <1>1, <2>1
    <2>3. PICK front, back : front = SubSeq(s, 1, i - 1) /\ back = SubSeq(s, i + 1, Len(s))
      OBVIOUS
    <2> PICK u : u = front \o back
      OBVIOUS
    <2>4. /\ u \in Seq(Candidates) /\ Len(u) = Len(s) - 1
          /\ \A j \in 1 .. Len(u) : u[j] = IF j < i THEN s[j] ELSE s[j + 1]
      <3>1. /\ front \in Seq(Candidates) /\ Len(front) = i - 1
            /\ \A j \in 1 .. i - 1 : front[j] = s[j]
        BY <2>2, <2>3
      <3>2. /\ back \in Seq(Candidates) /\ Len(back) = Len(s) - i
            /\ \A j \in 1 .. Len(s) - i : back[j] = s[i + j]
        BY <2>2, <2>3
      <3>3. u \in Seq(Candidates) /\ Len(u) = Len(s) - 1
        BY <2>2, <3>1, <3>2
      <3>4. ASSUME NEW j \in 1 .. Len(u), j < i PROVE u[j] = s[j]
        BY <2>2, <3>1, <3>2, <3>3, <3>4, ConcatProperties
      <3>5. ASSUME NEW j \in 1 .. Len(u), ~(j < i) PROVE u[j] = s[j + 1]
        <4>1. PICK k \in 1 .. Len(s) - i : k = j - (i - 1)
          BY <2>2, <3>3, <3>5
        <4>2. u[j] = back[k]
          BY <2>2, <3>1, <3>2, <3>3, <3>5, <4>1, ConcatProperties
        <4>3. i + k = j + 1
          BY <2>2, <3>5, <4>1
        <4> QED
          BY <3>2, <4>1, <4>2, <4>3
      <3> QED
        BY <3>3, <3>4, <3>5
    <2>5. Without(s, id) = u
      BY <1>1, <2>1, <2>3 DEF Without
    <2>6. \A j \in 1 .. Len(u) : u[j].id # id
      BY <2>2, <2>4 DEF Unique
    <2>7. Unique(u)
      <3> SUFFICES ASSUME NEW j \in 1 .. Len(u), NEW k \in 1 .. Len(u), u[j].id = u[k].id
                   PROVE  j = k
        BY DEF Unique
      <3>1. PICK m \in 1 .. Len(s) : u[j] = s[m] /\ m = IF j < i THEN j ELSE j + 1
        BY <2>2, <2>4
      <3>2. PICK n \in 1 .. Len(s) : u[k] = s[n] /\ n = IF k < i THEN k ELSE k + 1
        BY <2>2, <2>4
      <3>3. m = n
        BY <3>1, <3>2 DEF Unique
      <3> QED
        BY <2>2, <2>4, <3>1, <3>2, <3>3
    <2> QED
      BY <2>4, <2>5, <2>6, <2>7
  <1>2. CASE ~\E i \in 1 .. Len(s) : s[i].id = id
    BY <1>2 DEF Without
  <1> QED
    BY <1>1, <1>2

LEMMA KeptOf ==
  ASSUME NEW s \in Seq(Candidates), Unique(s), NEW candidate \in Candidates
  PROVE  Kept(s, candidate) \in Seq(Candidates) /\ Unique(Kept(s, candidate))
  <1>1. PICK u : u = Without(s, candidate.id)
    OBVIOUS
  <1>2. u \in Seq(Candidates) /\ Unique(u) /\ \A i \in 1 .. Len(u) : u[i].id # candidate.id
    BY <1>1, WithoutOf
  <1>3. PICK v : v = Append(u, candidate)
    OBVIOUS
  <1>4. /\ v \in Seq(Candidates) /\ Len(v) = Len(u) + 1 /\ v[Len(v)] = candidate
        /\ \A i \in 1 .. Len(u) : v[i] = u[i]
    BY <1>2, <1>3
  <1>5. Unique(v)
    BY <1>2, <1>4 DEF Unique
  <1>6. PICK l : l = Latest(v, Quota)
    OBVIOUS
  <1>7. l \in Seq(Candidates)
    BY <1>4, <1>6, LatestOf, PlanningAssumption
  <1>8. PICK d \in Nat : Len(v) = Len(l) + d /\ \A i \in 1 .. Len(l) : l[i] = v[i + d]
    <2>1. v \in Seq(Candidates) /\ Quota \in Nat
      BY <1>4, PlanningAssumption
    <2>2. EndOf(l, v)
      BY <1>6, <2>1, LatestOf
    <2> QED
      BY <2>2 DEF EndOf
  <1>9. Unique(l)
    BY <1>5, <1>7, <1>8 DEF Unique
  <1> QED
    BY <1>1, <1>3, <1>6, <1>7, <1>9 DEF Kept

LEMMA PriorOf ==
  ASSUME NEW s \in Seq(Candidates)
  PROVE  /\ PriorOutlines(s) \subseteq Outlines
         /\ \A i \in DOMAIN Latest(s, PriorLimit) :
                Latest(s, PriorLimit)[i].outline \in PriorOutlines(s)
  <1>1. PICK l : l = Latest(s, PriorLimit)
    OBVIOUS
  <1>2. l \in Seq(Candidates)
    BY <1>1, LatestOf, PlanningAssumption
  <1>3. PriorOutlines(s) = {l[i].outline : i \in DOMAIN l}
    BY <1>1 DEF PriorOutlines
  <1>4. \A i \in DOMAIN l : l[i] \in Candidates
    BY <1>2
  <1>5. \A i \in DOMAIN l : l[i].outline \in Outlines
    BY <1>4 DEF Candidates
  <1> QED
    BY <1>1, <1>3, <1>5

-------------------------------------------------------------------------------
(* What the steps write *)

(* The row of run r becomes x; nothing else of the table changes. *)
RunSet(r, x) == /\ run' \in [Runs -> PlanningRows \cup {Nothing}]
                /\ run'[r] = x /\ \A q \in Runs \ {r} : run'[q] = run[q]

WorkerSet(w, y) == /\ worker' \in [Workers -> WorkerStates]
                   /\ worker'[w] = y /\ \A v \in Workers \ {w} : worker'[v] = worker[v]

TabSet(t, y) == /\ tab' \in [Tabs -> TabStates]
                /\ tab'[t] = y /\ \A u \in Tabs \ {t} : tab'[u] = tab[u]

(* What DataInv asks of one row. *)
RowFits(r, x) ==
    /\ x.status = "AWAITING_REVIEW" =>
           x.output # Nothing /\ x.output.id = r /\ x.output.outline \notin x.prior
    /\ \A s \in PlanningSteps : x.steps[s] = "RUNNING" => s = "generate_work_plan"

(* The two action properties, of one step. *)
AnnouncedStay ==
    \A r \in Existing : (run[r].status = "AWAITING_REVIEW" /\ run'[r] # run[r]) => Overtaken(r)

FetchedNew ==
    \A t \in Tabs : (tab'[t].kept # tab[t].kept /\ tab[t].own) =>
        \A i \in DOMAIN Latest(tab[t].kept, PriorLimit) :
            Latest(tab[t].kept, PriorLimit)[i].outline # run[tab[t].run].output.outline

LEMMA RunRow ==
  ASSUME PlanningTypeOK, NEW r \in Existing
  PROVE  /\ r \in Runs /\ run[r] \in PlanningRows /\ run[r].key \in Keys
         /\ run[r].status \in PlanningStatuses /\ run[r].owner \in Workers \cup {Nothing}
         /\ run[r].prior \subseteq Outlines /\ run[r].steps \in [PlanningSteps -> StepStatuses]
         /\ run[r].output \in Candidates \cup {Nothing}
  BY DEF PlanningTypeOK, Existing, PlanningRows

(* A run that exists is written; its key and the outlines it names stay. *)
LEMMA RunWritten ==
  ASSUME DataInv, NEW r \in Existing, NEW x \in PlanningRows, RowFits(r, x),
         x.key = run[r].key, x.prior = run[r].prior, run' = [run EXCEPT ![r] = x], tab' = tab,
         worker' \in [Workers -> WorkerStates], expired' \subseteq Workers, WorkersHaveRuns'
  PROVE  RunSet(r, x) /\ Existing' = Existing /\ DataInv' /\ FetchedNew
  <1>1. r \in Runs /\ x # Nothing
    BY PlanningRowAssumption DEF Existing
  <1>2. RunSet(r, x)
    BY <1>1 DEF RunSet, DataInv, PlanningTypeOK
  <1>3. Existing' = Existing
    BY <1>1, <1>2 DEF RunSet, Existing
  <1>4. \A q \in Existing : run'[q].key = run[q].key /\ run'[q].prior = run[q].prior
    BY <1>2 DEF RunSet, Existing
  <1>5. PlanningTypeOK'
    BY <1>2 DEF RunSet, DataInv, PlanningTypeOK
  <1>6. TabsHaveRuns'
    BY <1>3, <1>4 DEF DataInv, TabsHaveRuns, TabFits
  <1>7. KeptOnce' /\ OnePlanningPerKey'
    BY <1>3, <1>4 DEF DataInv, KeptOnce, OnePlanningPerKey
  <1>8. ReviewHasOwnCandidate' /\ OnlyTheCallRuns'
    BY <1>2, <1>3 DEF RunSet, RowFits, Existing, DataInv, ReviewHasOwnCandidate, OnlyTheCallRuns
  <1>9. FetchedNew
    BY DEF FetchedNew
  <1> QED
    BY <1>2, <1>3, <1>5, <1>6, <1>7, <1>8, <1>9 DEF DataInv

LEMMA WorkerWritten ==
  ASSUME DataInv, NEW w \in Workers, NEW y \in WorkerStates, worker' = [worker EXCEPT ![w] = y],
         Existing \subseteq Existing',
         y.phase \in {"scheduled", "claimed", "calling"} => y.run \in Existing'
  PROVE  WorkerSet(w, y) /\ WorkersHaveRuns'
  BY DEF WorkerSet, DataInv, PlanningTypeOK, WorkersHaveRuns

(* A tab moves on; nothing else changes. *)
LEMMA TabOnly ==
  ASSUME PlanningInv, UNCHANGED <<run, worker, expired>>, NEW t \in Tabs, NEW y \in TabStates,
         tab' = [tab EXCEPT ![t] = y], TabFits(y), Unique(y.kept)
  PROVE  PlanningInv' /\ AnnouncedStay
  <1>1. TabSet(t, y)
    BY DEF TabSet, PlanningInv, DataInv, PlanningTypeOK
  <1>2. PlanningTypeOK'
    BY <1>1 DEF TabSet, PlanningInv, DataInv, PlanningTypeOK
  <1>3. TabsHaveRuns'
    <2>1. \A u \in Tabs : TabFits(tab'[u])
      BY <1>1 DEF TabSet, PlanningInv, DataInv, TabsHaveRuns
    <2> QED
      BY <2>1 DEF TabsHaveRuns, TabFits, Existing
  <1>4. KeptOnce'
    <2>1. \A u \in Tabs : Unique(tab'[u].kept)
      BY <1>1 DEF TabSet, PlanningInv, DataInv, KeptOnce, Unique
    <2> QED
      BY <2>1 DEF KeptOnce, Unique
  <1>5. WorkersHaveRuns' /\ ReviewHasOwnCandidate' /\ OnePlanningPerKey' /\ OnlyTheCallRuns'
    BY DEF PlanningInv, DataInv, WorkersHaveRuns, ReviewHasOwnCandidate, OnePlanningPerKey,
       OnlyTheCallRuns, Existing
  <1>6. ClaimInv'
    BY DEF PlanningInv, ClaimInv, LeasesOfWorkers, ClaimsHold, SettledRunRests, Overtaken, Live,
       Existing
  <1>7. AnnouncedStay
    BY DEF AnnouncedStay
  <1> QED
    BY <1>2, <1>3, <1>4, <1>5, <1>6, <1>7 DEF PlanningInv, DataInv

-------------------------------------------------------------------------------
(* The tab *)

LEMMA AskPlanningStep ==
  ASSUME PlanningInv, NEW t \in Tabs, NEW k \in Keys, AskPlanning(t, k)
  PROVE  PlanningInv' /\ AnnouncedStay /\ FetchedNew
  <1>1. /\ tab[t] \in TabStates /\ tab[t].step = "idle" /\ ~tab[t].own /\ Unique(tab[t].kept)
        /\ UNCHANGED <<run, worker, expired>>
    BY DEF AskPlanning, PlanningInv, DataInv, PlanningTypeOK, TabsHaveRuns, TabFits, KeptOnce,
       Unique
  <1>2. PICK y \in TabStates :
            /\ tab' = [tab EXCEPT ![t] = y] /\ y.kept = tab[t].kept /\ ~y.own
            /\ \/ y.step = "checked" /\ y.key = k
               \/ y.step = "polling" /\ y.run \in Existing
    <2>1. CASE ~KeyKnown(k) /\ ~Active /\ tab' = [tab EXCEPT ![t].step = "checked", ![t].key = k]
      <3>1. PICK y : y = [tab[t] EXCEPT !.step = "checked", !.key = k]
        OBVIOUS
      <3>2. /\ y \in TabStates /\ y.kept = tab[t].kept /\ ~y.own /\ y.step = "checked"
            /\ y.key = k
        BY <1>1, <3>1 DEF TabStates
      <3>3. tab' = [tab EXCEPT ![t] = y]
        BY <2>1, <3>1 DEF PlanningInv, DataInv, PlanningTypeOK
      <3> QED
        BY <3>2, <3>3
    <2>2. ASSUME NEW r \in Existing, tab' = [tab EXCEPT ![t].step = "polling", ![t].run = r]
          PROVE  \E y \in TabStates :
                     /\ tab' = [tab EXCEPT ![t] = y] /\ y.kept = tab[t].kept /\ ~y.own
                     /\ \/ y.step = "checked" /\ y.key = k
                        \/ y.step = "polling" /\ y.run \in Existing
      <3>1. PICK y : y = [tab[t] EXCEPT !.step = "polling", !.run = r]
        OBVIOUS
      <3>2. y \in TabStates /\ y.kept = tab[t].kept /\ ~y.own /\ y.step = "polling" /\ y.run = r
        BY <1>1, <3>1 DEF TabStates, Existing
      <3>3. tab' = [tab EXCEPT ![t] = y]
        BY <2>2, <3>1 DEF PlanningInv, DataInv, PlanningTypeOK
      <3> QED
        BY <3>2, <3>3
    <2> QED
      BY <2>1, <2>2 DEF AskPlanning
  <1>3. TabFits(y) /\ Unique(y.kept)
    BY <1>1, <1>2 DEF TabFits
  <1>4. FetchedNew
    BY <1>2 DEF FetchedNew, PlanningInv, DataInv, PlanningTypeOK
  <1> QED
    BY <1>1, <1>2, <1>3, <1>4, TabOnly

(* A tab that stops waiting. *)
LEMMA IdleStep ==
  ASSUME PlanningInv, NEW t \in Tabs, tab' = [tab EXCEPT ![t] = Idle(tab[t])],
         UNCHANGED <<run, worker, expired>>
  PROVE  PlanningInv' /\ AnnouncedStay /\ FetchedNew
  <1>1. tab[t] \in TabStates /\ Unique(tab[t].kept)
    BY DEF PlanningInv, DataInv, PlanningTypeOK, KeptOnce, Unique
  <1>2. PICK y : y = Idle(tab[t])
    OBVIOUS
  <1>3. y \in TabStates /\ y.kept = tab[t].kept /\ ~y.own /\ y.step = "idle"
    BY <1>1, <1>2 DEF Idle, TabStates
  <1>4. tab' = [tab EXCEPT ![t] = y]
    BY <1>2
  <1>5. TabFits(y)
    BY <1>3 DEF TabFits
  <1>6. FetchedNew
    BY <1>3, <1>4 DEF FetchedNew, PlanningInv, DataInv, PlanningTypeOK
  <1> QED
    BY <1>1, <1>3, <1>4, <1>5, <1>6, TabOnly

LEMMA PollStep ==
  ASSUME PlanningInv, NEW t \in Tabs, Poll(t)
  PROVE  PlanningInv' /\ AnnouncedStay /\ FetchedNew
  <1>1. CASE run[tab[t].run].status = "AWAITING_REVIEW"
    <2>1. /\ tab[t] \in TabStates /\ tab[t].step = "polling" /\ Unique(tab[t].kept)
          /\ TabFits(tab[t]) /\ UNCHANGED <<run, worker, expired>>
      BY DEF Poll, PlanningInv, DataInv, PlanningTypeOK, TabsHaveRuns, KeptOnce, Unique
    <2>2. PICK y : y = [tab[t] EXCEPT !.step = "fetching"]
      OBVIOUS
    <2>3. /\ y \in TabStates /\ y.kept = tab[t].kept /\ y.own = tab[t].own /\ y.run = tab[t].run
          /\ y.step = "fetching"
      BY <2>1, <2>2 DEF TabStates
    <2>4. tab' = [tab EXCEPT ![t] = y]
      BY <1>1, <2>2 DEF Poll
    <2>5. TabFits(y)
      BY <2>1, <2>3 DEF TabFits
    <2>6. FetchedNew
      BY <2>3, <2>4 DEF FetchedNew, PlanningInv, DataInv, PlanningTypeOK
    <2> QED
      BY <2>1, <2>3, <2>4, <2>5, <2>6, TabOnly
  <1>2. CASE run[tab[t].run].status # "AWAITING_REVIEW"
    BY <1>2, IdleStep DEF Poll
  <1> QED
    BY <1>1, <1>2

(* The run names what its tab keeps, and its candidate is none of what it names. *)
LEMMA FetchStep ==
  ASSUME PlanningInv, NEW t \in Tabs, Fetch(t)
  PROVE  PlanningInv' /\ AnnouncedStay /\ FetchedNew
  <1>1. PICK r : r = tab[t].run
    OBVIOUS
  <1>2. /\ tab[t] \in TabStates /\ r \in Existing /\ Unique(tab[t].kept)
        /\ tab[t].kept \in Seq(Candidates) /\ PlanningTypeOK
        /\ tab[t].own => run[r].prior = PriorOutlines(tab[t].kept)
        /\ UNCHANGED <<run, worker, expired>>
    BY <1>1 DEF Fetch, PlanningInv, DataInv, PlanningTypeOK, TabsHaveRuns, TabFits, KeptOnce,
       Unique, TabStates
  <1>3. PICK kept : kept = IF run[r].status = "AWAITING_REVIEW"
                           THEN Kept(tab[t].kept, run[r].output) ELSE tab[t].kept
    OBVIOUS
  <1>4. run[r].status = "AWAITING_REVIEW" =>
            run[r].output \in Candidates /\ run[r].output.outline \notin run[r].prior
    BY <1>2, RunRow DEF PlanningInv, DataInv, ReviewHasOwnCandidate
  <1>5. kept \in Seq(Candidates) /\ Unique(kept)
    BY <1>2, <1>3, <1>4, KeptOf
  <1>6. PICK y : y = [Idle(tab[t]) EXCEPT !.kept = kept]
    OBVIOUS
  <1>7. y \in TabStates /\ y.kept = kept /\ ~y.own /\ y.step = "idle"
    BY <1>2, <1>5, <1>6 DEF Idle, TabStates
  <1>8. tab' = [tab EXCEPT ![t] = y]
    BY <1>1, <1>3, <1>6 DEF Fetch
  <1>9. TabFits(y)
    BY <1>7 DEF TabFits
  <1>10. FetchedNew
    <2> SUFFICES ASSUME NEW u \in Tabs, tab'[u].kept # tab[u].kept, tab[u].own,
                        NEW i \in DOMAIN Latest(tab[u].kept, PriorLimit)
                 PROVE  Latest(tab[u].kept, PriorLimit)[i].outline
                            # run[tab[u].run].output.outline
      BY DEF FetchedNew
    <2>1. u = t /\ run[r].status = "AWAITING_REVIEW"
      BY <1>3, <1>7, <1>8 DEF PlanningInv, DataInv, PlanningTypeOK
    <2>2. Latest(tab[u].kept, PriorLimit)[i].outline \in PriorOutlines(tab[u].kept)
      BY <1>2, <2>1, PriorOf
    <2>3. run[r].output.outline \notin PriorOutlines(tab[u].kept)
      BY <1>2, <1>4, <2>1
    <2> QED
      BY <1>1, <2>1, <2>2, <2>3
  <1> QED
    BY <1>2, <1>5, <1>7, <1>8, <1>9, <1>10, TabOnly


(* A reload forgets what the tab waited for. *)
LEMMA ForgetStep ==
  ASSUME PlanningInv, NEW t \in Tabs, Forget(t)
  PROVE  PlanningInv' /\ AnnouncedStay /\ FetchedNew
  BY IdleStep DEF Forget

-------------------------------------------------------------------------------
(* A run is made, or reopened, and a process is started for it *)

LEMMA NewWorker ==
  ASSUME PlanningInv, NEW r \in Runs, NEW w \in Workers, Schedule(r, w)
  PROVE  \E y \in WorkerStates : /\ worker' = [worker EXCEPT ![w] = y] /\ WorkerSet(w, y)
                                 /\ y.phase = "scheduled" /\ y.run = r /\ ~y.late
  <1>1. PICK y : y = [NoWorker EXCEPT !.phase = "scheduled", !.run = r]
    OBVIOUS
  <1>2. y \in WorkerStates /\ y.phase = "scheduled" /\ y.run = r /\ ~y.late
    BY <1>1 DEF NoWorker, WorkerStates
  <1>3. worker' = [worker EXCEPT ![w] = y]
    BY <1>1 DEF Schedule
  <1>4. WorkerSet(w, y)
    BY <1>2, <1>3 DEF WorkerSet, PlanningInv, DataInv, PlanningTypeOK
  <1> QED
    BY <1>2, <1>3, <1>4

(* Nobody may own the run while its new worker has not claimed it. *)
LEMMA ScheduledClaims ==
  ASSUME PlanningInv, NEW r \in Runs, NEW x, RunSet(r, x), x.status = "PLANNED",
         x.owner = Nothing, NEW w \in Workers, NEW y, WorkerSet(w, y), worker[w].phase = "none",
         y.phase = "scheduled", y.run = r, ~y.late, expired' = expired,
         Existing' = Existing \cup {r},
         \A v \in Workers : (Live(v) /\ worker[v].run = r) => Overtaken(r)
  PROVE  ClaimInv'
  <1>1. LeasesOfWorkers /\ ClaimsHold /\ SettledRunRests /\ Nothing \notin Workers
    BY PlanningAssumption DEF PlanningInv, ClaimInv
  <1>2. w \notin expired /\ ~worker[w].late /\ \A q \in Existing : run[q].owner # w
    BY <1>1 DEF LeasesOfWorkers
  <1>3. \A q \in Runs : Overtaken(q)' <=> Overtaken(q)
    BY <1>2 DEF WorkerSet, Overtaken
  <1>4. \A q \in Existing' \ {r} : q \in Existing /\ q \in Runs /\ run'[q] = run[q]
    BY DEF RunSet, Existing
  <1>5. LeasesOfWorkers'
    <2>1. \A v \in Workers : worker'[v].late => v \in expired' /\ worker'[v].phase # "none"
      BY <1>1 DEF WorkerSet, LeasesOfWorkers
    <2>2. \A v \in expired' : \/ worker'[v].phase = "ended"
                              \/ worker'[v].phase = "calling" /\ worker'[v].late
      BY <1>1, <1>2 DEF WorkerSet, LeasesOfWorkers, PlanningInv, DataInv, PlanningTypeOK
    <2>3. \A q \in Existing', v \in Workers :
              run'[q].owner = v => worker'[v].phase \notin {"none", "scheduled"}
      <3> SUFFICES ASSUME NEW q \in Existing', NEW v \in Workers, run'[q].owner = v
                   PROVE  worker'[v].phase \notin {"none", "scheduled"}
        OBVIOUS
      <3>1. q # r
        BY <1>1 DEF RunSet
      <3>2. q \in Existing /\ run[q].owner = v
        BY <1>4, <3>1
      <3>3. v # w
        BY <1>2, <3>2
      <3> QED
        BY <1>1, <3>2, <3>3 DEF WorkerSet, LeasesOfWorkers
    <2> QED
      BY <2>1, <2>2, <2>3 DEF LeasesOfWorkers
  <1>6. ClaimsHold'
    <2> SUFFICES ASSUME NEW v \in Workers, Live(v)', ~Overtaken(worker[v].run)'
                 PROVE  run'[worker'[v].run].status = "RUNNING" /\ run'[worker'[v].run].owner = v
      BY DEF ClaimsHold
    <2>1. v # w /\ worker'[v] = worker[v] /\ Live(v)
      BY DEF WorkerSet, Live
    <2>2. worker[v].run \in Existing
      BY <2>1 DEF PlanningInv, DataInv, WorkersHaveRuns, Live
    <2>3. worker[v].run \in Runs
      BY <2>2 DEF Existing
    <2>4. ~Overtaken(worker[v].run)
      BY <1>2, <2>1 DEF Overtaken, WorkerSet
    <2>5. worker[v].run # r
      BY <2>1, <2>4
    <2> QED
      BY <1>1, <2>1, <2>3, <2>4, <2>5 DEF ClaimsHold, RunSet
  <1>7. SettledRunRests'
    <2> SUFFICES ASSUME NEW q \in Existing', run'[q].status \in {"AWAITING_REVIEW", "FAILED"},
                        ~Overtaken(q)', NEW s \in PlanningSteps
                 PROVE  run'[q].steps[s] # "RUNNING"
      BY DEF SettledRunRests
    <2>1. q # r
      BY DEF RunSet
    <2> QED
      BY <1>1, <1>3, <1>4, <2>1 DEF SettledRunRests
  <1> QED
    BY <1>5, <1>6, <1>7 DEF ClaimInv

LEMMA InsertPlanningStep ==
  ASSUME PlanningInv, NEW t \in Tabs, NEW r \in Runs, NEW w \in Workers, InsertPlanning(t, r, w)
  PROVE  PlanningInv' /\ AnnouncedStay /\ FetchedNew
  <1>1. /\ tab[t] \in TabStates /\ tab[t].key \in Keys /\ Unique(tab[t].kept)
        /\ tab[t].kept \in Seq(Candidates) /\ KeyFree(tab[t].key) /\ r \notin Existing
        /\ Schedule(r, w) /\ worker[w].phase = "none" /\ expired' = expired
    BY DEF InsertPlanning, Schedule, PlanningInv, DataInv, PlanningTypeOK, TabsHaveRuns, TabFits,
       KeptOnce, Unique, TabStates
  <1>2. PICK x : x = [key |-> tab[t].key, status |-> "PLANNED", owner |-> Nothing,
                      prior |-> PriorOutlines(tab[t].kept),
                      steps |-> [s \in PlanningSteps |-> "PENDING"], output |-> Nothing]
    OBVIOUS
  <1>3. /\ x.key = tab[t].key /\ x.status = "PLANNED" /\ x.owner = Nothing
        /\ x.prior = PriorOutlines(tab[t].kept) /\ \A s \in PlanningSteps : x.steps[s] = "PENDING"
    BY <1>2
  <1>4. x \in PlanningRows
    <2>1. PriorOutlines(tab[t].kept) \subseteq Outlines
      BY <1>1, PriorOf
    <2> QED
      BY <1>1, <1>2, <2>1 DEF PlanningRows, PlanningStatuses, StepStatuses
  <1>5. RunSet(r, x)
    BY <1>2, <1>4 DEF InsertPlanning, RunSet, PlanningInv, DataInv, PlanningTypeOK
  <1>6. Existing' = Existing \cup {r}
    <2>1. x # Nothing
      BY <1>4, PlanningRowAssumption
    <2> QED
      BY <1>5, <2>1 DEF RunSet, Existing
  <1>7. PICK y \in WorkerStates :
            /\ worker' = [worker EXCEPT ![w] = y] /\ WorkerSet(w, y)
            /\ y.phase = "scheduled" /\ y.run = r /\ ~y.late
    BY <1>1, NewWorker
  <1>8. PICK z : z = [tab[t] EXCEPT !.step = "polling", !.key = Nothing, !.run = r, !.own = TRUE]
    OBVIOUS
  <1>9. /\ z \in TabStates /\ z.kept = tab[t].kept /\ z.step = "polling" /\ z.run = r /\ z.own
    BY <1>1, <1>8 DEF TabStates
  <1>10. TabSet(t, z)
    BY <1>8, <1>9 DEF InsertPlanning, TabSet, PlanningInv, DataInv, PlanningTypeOK
  <1>11. PlanningTypeOK'
    BY <1>1, <1>5, <1>7, <1>10 DEF RunSet, WorkerSet, TabSet, PlanningInv, DataInv, PlanningTypeOK
  <1>12. WorkersHaveRuns'
    BY <1>6, <1>7 DEF WorkerSet, PlanningInv, DataInv, WorkersHaveRuns
  <1>13. TabsHaveRuns'
    <2>1. TabFits(z)'
      BY <1>3, <1>5, <1>6, <1>9 DEF RunSet, TabFits
    <2>2. ASSUME NEW u \in Tabs \ {t} PROVE TabFits(tab[u])'
      <3>1. tab'[u] = tab[u] /\ TabFits(tab[u])
        BY <1>10 DEF TabSet, PlanningInv, DataInv, TabsHaveRuns
      <3>2. \A q \in Existing : run'[q] = run[q]
        BY <1>1, <1>5 DEF RunSet, Existing
      <3> QED
        BY <1>6, <3>1, <3>2 DEF TabFits
    <2> QED
      BY <1>10, <2>1, <2>2 DEF TabsHaveRuns, TabSet, TabFits
  <1>14. KeptOnce'
    <2>1. \A u \in Tabs : tab'[u].kept = tab[u].kept
      BY <1>9, <1>10 DEF TabSet
    <2> QED
      BY <2>1 DEF PlanningInv, DataInv, KeptOnce
  <1>15. \A q \in Existing : q # r /\ run'[q] = run[q]
    BY <1>1, <1>5 DEF RunSet, Existing
  <1>16. OnePlanningPerKey'
    <2>1. \A q \in Existing : run'[q].key # x.key
      BY <1>1, <1>3, <1>15 DEF KeyFree
    <2> QED
      BY <1>5, <1>6, <1>15, <2>1 DEF RunSet, PlanningInv, DataInv, OnePlanningPerKey
  <1>17. ReviewHasOwnCandidate'
    BY <1>3, <1>5, <1>6, <1>15 DEF RunSet, PlanningInv, DataInv, ReviewHasOwnCandidate
  <1>18. OnlyTheCallRuns'
    BY <1>3, <1>5, <1>6, <1>15 DEF RunSet, PlanningInv, DataInv, OnlyTheCallRuns
  <1>19. ClaimInv'
    <2>1. \A v \in Workers : (Live(v) /\ worker[v].run = r) => Overtaken(r)
      BY <1>1 DEF PlanningInv, DataInv, WorkersHaveRuns, Live
    <2> QED
      BY <1>1, <1>3, <1>5, <1>6, <1>7, <2>1, ScheduledClaims
  <1>20. AnnouncedStay
    BY <1>15 DEF AnnouncedStay
  <1>21. FetchedNew
    BY <1>9, <1>10 DEF TabSet, FetchedNew
  <1> QED
    BY <1>11, <1>12, <1>13, <1>14, <1>16, <1>17, <1>18, <1>19, <1>20, <1>21
    DEF PlanningInv, DataInv

(* A run is reopened when it is not running, or when its owner's lease is over: a worker *)
(* of it that is still at work is then late.                                             *)
LEMMA ResumeStep ==
  ASSUME PlanningInv, NEW r \in Runs, NEW w \in Workers, Resume(r, w)
  PROVE  PlanningInv' /\ AnnouncedStay /\ FetchedNew
  <1>1. /\ r \in Existing /\ Recoverable(r) /\ Schedule(r, w) /\ worker[w].phase = "none"
        /\ expired' = expired /\ tab' = tab /\ run[r] \in PlanningRows
    BY RunRow DEF Resume, Schedule, PlanningInv, DataInv
  <1>2. PICK x : x = [run[r] EXCEPT !.status = "PLANNED", !.owner = Nothing]
    OBVIOUS
  <1>3. /\ x \in PlanningRows /\ x.status = "PLANNED" /\ x.owner = Nothing /\ x.key = run[r].key
        /\ x.prior = run[r].prior /\ x.steps = run[r].steps
    BY <1>1, <1>2 DEF PlanningRows, PlanningStatuses
  <1>4. run' = [run EXCEPT ![r] = x]
    BY <1>2 DEF Resume, PlanningInv, DataInv, PlanningTypeOK
  <1>5. RowFits(r, x)
    BY <1>1, <1>3 DEF RowFits, PlanningInv, DataInv, OnlyTheCallRuns
  <1>6. PICK y \in WorkerStates :
            /\ worker' = [worker EXCEPT ![w] = y] /\ WorkerSet(w, y)
            /\ y.phase = "scheduled" /\ y.run = r /\ ~y.late
    BY <1>1, NewWorker
  <1>7. RunSet(r, x) /\ Existing' = Existing
    <2>1. x # Nothing
      BY <1>3, PlanningRowAssumption
    <2> QED
      BY <1>1, <1>3, <1>4, <2>1 DEF RunSet, Existing, PlanningInv, DataInv, PlanningTypeOK
  <1>8. WorkersHaveRuns'
    BY <1>1, <1>6, <1>7 DEF WorkerSet, PlanningInv, DataInv, WorkersHaveRuns
  <1>9. DataInv' /\ FetchedNew
    <2>1. worker' \in [Workers -> WorkerStates] /\ expired' \subseteq Workers
      BY <1>1, <1>6 DEF WorkerSet, PlanningInv, DataInv, PlanningTypeOK
    <2> QED
      BY <1>1, <1>3, <1>4, <1>5, <1>8, <2>1, RunWritten DEF PlanningInv
  <1>10. \A v \in Workers : (Live(v) /\ worker[v].run = r) => Overtaken(r)
    <2> SUFFICES ASSUME NEW v \in Workers, Live(v), worker[v].run = r, ~Overtaken(r)
                 PROVE  FALSE
      OBVIOUS
    <2>1. run[r].status = "RUNNING" /\ run[r].owner = v
      BY DEF PlanningInv, ClaimInv, ClaimsHold
    <2>2. v \in expired
      BY <1>1, <2>1 DEF Recoverable
    <2>3. worker[v].late
      BY <2>2 DEF PlanningInv, ClaimInv, LeasesOfWorkers, Live
    <2> QED
      BY <2>3 DEF Overtaken
  <1>11. ClaimInv'
    <2>1. Existing' = Existing \cup {r}
      BY <1>1, <1>7
    <2> QED
      BY <1>1, <1>3, <1>6, <1>7, <1>10, <2>1, ScheduledClaims
  <1>12. AnnouncedStay
    BY <1>1, <1>7 DEF AnnouncedStay, RunSet, Recoverable, Existing
  <1> QED
    BY <1>9, <1>11, <1>12 DEF PlanningInv

-------------------------------------------------------------------------------
(* The worker *)

(* A worker goes on or ends, and writes its run or not. *)
LEMMA WorkerClaims ==
  ASSUME PlanningInv, NEW w \in Workers, NEW r \in Existing, r = worker[w].run,
         worker[w].phase \in {"scheduled", "claimed", "calling"}, NEW x, RunSet(r, x),
         NEW y, WorkerSet(w, y), y.run = r, y.late = worker[w].late,
         y.phase \in {"claimed", "calling", "ended"},
         y.phase \in {"claimed", "calling"} => w \notin expired,
         Existing' = Existing, expired' = expired, x.owner \in {Nothing, w, run[r].owner},
         (y.phase # "ended" /\ ~Overtaken(r)) => x.status = "RUNNING" /\ x.owner = w,
         (x.status = run[r].status /\ x.owner = run[r].owner)
             \/ \A v \in Workers \ {w} : (Live(v) /\ worker[v].run = r) => Overtaken(r),
         (x.status \in {"AWAITING_REVIEW", "FAILED"} /\ ~Overtaken(r)) =>
             \A s \in PlanningSteps : x.steps[s] # "RUNNING"
  PROVE  ClaimInv'
  <1>1. LeasesOfWorkers /\ ClaimsHold /\ SettledRunRests /\ Nothing \notin Workers /\ r \in Runs
    BY PlanningAssumption DEF PlanningInv, ClaimInv, Existing
  <1>2. \A v \in Workers : worker'[v].run = worker[v].run /\ worker'[v].late = worker[v].late
    BY DEF WorkerSet
  <1>3. \A q \in Runs : Overtaken(q)' <=> Overtaken(q)
    BY <1>2 DEF Overtaken
  <1>4. \A q \in Existing' \ {r} : q \in Existing /\ q \in Runs /\ run'[q] = run[q]
    BY DEF RunSet, Existing
  <1>5. LeasesOfWorkers'
    <2>1. \A v \in Workers : worker'[v].late => v \in expired' /\ worker'[v].phase # "none"
      BY <1>1, <1>2 DEF WorkerSet, LeasesOfWorkers
    <2>2. \A v \in expired' : \/ worker'[v].phase = "ended"
                              \/ worker'[v].phase = "calling" /\ worker'[v].late
      BY <1>1 DEF WorkerSet, LeasesOfWorkers, PlanningInv, DataInv, PlanningTypeOK
    <2>3. \A q \in Existing', v \in Workers :
              run'[q].owner = v => worker'[v].phase \notin {"none", "scheduled"}
      <3> SUFFICES ASSUME NEW q \in Existing', NEW v \in Workers, run'[q].owner = v
                   PROVE  worker'[v].phase \notin {"none", "scheduled"}
        OBVIOUS
      <3>1. CASE v = w
        BY <3>1 DEF WorkerSet
      <3>2. CASE v # w
        <4>1. run[q].owner = v
          BY <1>1, <1>4, <3>2 DEF RunSet
        <4> QED
          BY <1>1, <3>2, <4>1 DEF WorkerSet, LeasesOfWorkers
      <3> QED
        BY <3>1, <3>2
    <2> QED
      BY <2>1, <2>2, <2>3 DEF LeasesOfWorkers
  <1>6. ClaimsHold'
    <2> SUFFICES ASSUME NEW v \in Workers, Live(v)', ~Overtaken(worker[v].run)'
                 PROVE  run'[worker'[v].run].status = "RUNNING" /\ run'[worker'[v].run].owner = v
      BY DEF ClaimsHold
    <2>1. ~Overtaken(worker[v].run)
      BY <1>2 DEF Overtaken
    <2>2. CASE v = w
      BY <2>1, <2>2 DEF WorkerSet, RunSet, Live
    <2>3. CASE v # w
      <3>1. worker'[v] = worker[v] /\ Live(v)
        BY <2>3 DEF WorkerSet, Live
      <3>2. run[worker[v].run].status = "RUNNING" /\ run[worker[v].run].owner = v
        BY <1>1, <2>1, <3>1 DEF ClaimsHold
      <3>3. worker[v].run \in Runs
        BY <3>1 DEF PlanningInv, DataInv, WorkersHaveRuns, Live, Existing
      <3>4. CASE worker[v].run # r
        BY <3>1, <3>2, <3>3, <3>4 DEF RunSet
      <3>5. CASE worker[v].run = r
        <4>1. x.status = run[r].status /\ x.owner = run[r].owner
          BY <2>1, <2>3, <3>1, <3>5
        <4> QED
          BY <3>1, <3>2, <3>5, <4>1 DEF RunSet
      <3> QED
        BY <3>4, <3>5
    <2> QED
      BY <2>2, <2>3
  <1>7. SettledRunRests'
    <2> SUFFICES ASSUME NEW q \in Existing', run'[q].status \in {"AWAITING_REVIEW", "FAILED"},
                        ~Overtaken(q)', NEW s \in PlanningSteps
                 PROVE  run'[q].steps[s] # "RUNNING"
      BY DEF SettledRunRests
    <2>1. CASE q = r
      BY <1>1, <1>3, <2>1 DEF RunSet
    <2>2. CASE q # r
      BY <1>1, <1>3, <1>4, <2>2 DEF SettledRunRests
    <2> QED
      BY <2>1, <2>2
  <1> QED
    BY <1>5, <1>6, <1>7 DEF ClaimInv

(* A worker whose lease no other worker of the run has outlived is the only one with a *)
(* claim.                                                                              *)
LEMMA OneClaim ==
  ASSUME PlanningInv, NEW w \in Workers, Live(w), NEW r, r = worker[w].run
  PROVE  /\ ~Overtaken(r) => run[r].status = "RUNNING" /\ run[r].owner = w
         /\ \A v \in Workers \ {w} : (Live(v) /\ worker[v].run = r) => Overtaken(r)
  BY DEF PlanningInv, ClaimInv, ClaimsHold

(* A worker's run exists. *)
LEMMA WorkersRun ==
  ASSUME PlanningInv, NEW w \in Workers,
         worker[w].phase \in {"scheduled", "claimed", "calling"}, NEW r, r = worker[w].run
  PROVE  /\ r \in Existing /\ r \in Runs /\ run[r] \in PlanningRows
         /\ run[r].steps \in [PlanningSteps -> StepStatuses]
         /\ \A s \in PlanningSteps : run[r].steps[s] = "RUNNING" => s = "generate_work_plan"
  BY DEF PlanningInv, DataInv, WorkersHaveRuns, PlanningTypeOK, Existing, PlanningRows,
     OnlyTheCallRuns

(* The worker's own record after a step. *)
LEMMA WorkerMoves ==
  ASSUME PlanningInv, NEW w \in Workers, NEW p \in {"claimed", "calling", "ended"},
         worker[w].phase \in {"scheduled", "claimed", "calling"},
         worker' = [worker EXCEPT ![w].phase = p], Existing' = Existing
  PROVE  \E y \in WorkerStates : /\ WorkerSet(w, y) /\ y.run = worker[w].run
                                 /\ y.late = worker[w].late /\ y.phase = p /\ WorkersHaveRuns'
  <1>1. worker[w] \in WorkerStates /\ worker[w].run \in Existing
    BY DEF PlanningInv, DataInv, PlanningTypeOK, WorkersHaveRuns
  <1>2. PICK y : y = [worker[w] EXCEPT !.phase = p]
    OBVIOUS
  <1>3. /\ y \in WorkerStates /\ y.run = worker[w].run /\ y.late = worker[w].late /\ y.phase = p
    BY <1>1, <1>2 DEF WorkerStates
  <1>4. worker' = [worker EXCEPT ![w] = y]
    BY <1>2 DEF PlanningInv, DataInv, PlanningTypeOK
  <1>5. WorkerSet(w, y) /\ WorkersHaveRuns'
    BY <1>1, <1>3, <1>4, WorkerWritten DEF PlanningInv
  <1> QED
    BY <1>3, <1>5

(* A worker ends without a word. *)
LEMMA EndStep ==
  ASSUME PlanningInv, NEW w \in Workers, worker[w].phase \in {"scheduled", "claimed", "calling"},
         End(w), UNCHANGED <<run, expired, tab>>
  PROVE  PlanningInv' /\ AnnouncedStay /\ FetchedNew
  <1>1. PICK r : r = worker[w].run
    OBVIOUS
  <1>2. r \in Existing /\ run[r] \in PlanningRows /\ Existing' = Existing
    BY <1>1, WorkersRun DEF Existing
  <1>3. PICK y \in WorkerStates : /\ WorkerSet(w, y) /\ y.run = worker[w].run
                                  /\ y.late = worker[w].late /\ y.phase = "ended"
                                  /\ WorkersHaveRuns'
    BY <1>2, WorkerMoves DEF End
  <1>4. run' = [run EXCEPT ![r] = run[r]]
    BY DEF PlanningInv, DataInv, PlanningTypeOK
  <1>5. RowFits(r, run[r])
    BY <1>2 DEF RowFits, PlanningInv, DataInv, ReviewHasOwnCandidate, OnlyTheCallRuns
  <1>6. RunSet(r, run[r]) /\ DataInv' /\ FetchedNew
    <2>1. worker' \in [Workers -> WorkerStates] /\ expired' \subseteq Workers
      BY <1>3 DEF WorkerSet, PlanningInv, DataInv, PlanningTypeOK
    <2> QED
      BY <1>2, <1>3, <1>4, <1>5, <2>1, RunWritten DEF PlanningInv
  <1>7. (run[r].status \in {"AWAITING_REVIEW", "FAILED"} /\ ~Overtaken(r)) =>
            \A s \in PlanningSteps : run[r].steps[s] # "RUNNING"
    BY <1>2 DEF PlanningInv, ClaimInv, SettledRunRests
  <1>8. ClaimInv'
    BY <1>1, <1>2, <1>3, <1>6, <1>7, WorkerClaims
  <1>9. AnnouncedStay
    BY DEF AnnouncedStay
  <1> QED
    BY <1>6, <1>8, <1>9 DEF PlanningInv

LEMMA CrashStep ==
  ASSUME PlanningInv, NEW w \in Workers, Crash(w)
  PROVE  PlanningInv' /\ AnnouncedStay /\ FetchedNew
  BY EndStep DEF Crash

(* A worker's run is written, by a worker that keeps it or ends. *)
LEMMA WorkerStep ==
  ASSUME PlanningInv, NEW w \in Workers, NEW r, r = worker[w].run,
         NEW p \in {"claimed", "calling", "ended"}, NEW x \in PlanningRows, RowFits(r, x),
         worker[w].phase \in {"scheduled", "claimed", "calling"}, x.key = run[r].key,
         x.prior = run[r].prior, run' = [run EXCEPT ![r] = x], tab' = tab,
         worker' = [worker EXCEPT ![w].phase = p], expired' = expired,
         p \in {"claimed", "calling"} => w \notin expired,
         x.owner \in {Nothing, w, run[r].owner},
         (p # "ended" /\ ~Overtaken(r)) => x.status = "RUNNING" /\ x.owner = w,
         \A v \in Workers \ {w} : (Live(v) /\ worker[v].run = r) => Overtaken(r),
         (x.status \in {"AWAITING_REVIEW", "FAILED"} /\ ~Overtaken(r)) =>
             \A s \in PlanningSteps : x.steps[s] # "RUNNING",
         run[r].status = "AWAITING_REVIEW" => Overtaken(r)
  PROVE  PlanningInv' /\ AnnouncedStay /\ FetchedNew
  <1>1. r \in Existing /\ r \in Runs
    BY WorkersRun
  <1>2. Existing' = Existing
    <2>1. x # Nothing
      BY PlanningRowAssumption
    <2> QED
      BY <1>1, <2>1 DEF Existing, PlanningInv, DataInv, PlanningTypeOK
  <1>3. PICK y \in WorkerStates : /\ WorkerSet(w, y) /\ y.run = worker[w].run
                                  /\ y.late = worker[w].late /\ y.phase = p
                                  /\ WorkersHaveRuns'
    BY <1>2, WorkerMoves
  <1>4. RunSet(r, x) /\ DataInv' /\ FetchedNew
    <2>1. worker' \in [Workers -> WorkerStates] /\ expired' \subseteq Workers
      BY <1>3 DEF WorkerSet, PlanningInv, DataInv, PlanningTypeOK
    <2> QED
      BY <1>1, <1>3, <2>1, RunWritten DEF PlanningInv
  <1>5. ClaimInv'
    BY <1>1, <1>2, <1>3, <1>4, WorkerClaims
  <1>6. AnnouncedStay
    BY <1>4 DEF AnnouncedStay, RunSet, Existing
  <1> QED
    BY <1>4, <1>5, <1>6 DEF PlanningInv

(* A claim is taken of a run that nobody is at work on. *)
LEMMA ClaimStep ==
  ASSUME PlanningInv, NEW w \in Workers, Claim(w)
  PROVE  PlanningInv' /\ AnnouncedStay /\ FetchedNew
  <1>1. PICK r : r = worker[w].run
    OBVIOUS
  <1>2. worker[w].phase = "scheduled" /\ UNCHANGED <<expired, tab>>
    BY DEF Claim
  <1>3. CASE /\ run[r].status \in {"PLANNED", "FAILED"}
             /\ run' = [run EXCEPT ![r].status = "RUNNING", ![r].owner = w]
             /\ worker' = [worker EXCEPT ![w].phase = "claimed"]
    <2>1. /\ r \in Existing /\ run[r] \in PlanningRows
          /\ run[r].steps \in [PlanningSteps -> StepStatuses]
          /\ \A s \in PlanningSteps : run[r].steps[s] = "RUNNING" => s = "generate_work_plan"
      BY <1>1, <1>2, WorkersRun
    <2>2. PICK x : x = [run[r] EXCEPT !.status = "RUNNING", !.owner = w]
      OBVIOUS
    <2>3. /\ x \in PlanningRows /\ x.status = "RUNNING" /\ x.owner = w /\ x.key = run[r].key
          /\ x.prior = run[r].prior /\ x.steps = run[r].steps
      BY <2>1, <2>2 DEF PlanningRows, PlanningStatuses
    <2>4. run' = [run EXCEPT ![r] = x]
      BY <1>3, <2>2 DEF PlanningInv, DataInv, PlanningTypeOK
    <2>5. RowFits(r, x)
      BY <2>1, <2>3 DEF RowFits
    <2>6. \A v \in Workers \ {w} : (Live(v) /\ worker[v].run = r) => Overtaken(r)
      BY <1>3 DEF PlanningInv, ClaimInv, ClaimsHold
    <2>7. w \notin expired
      BY <1>2 DEF PlanningInv, ClaimInv, LeasesOfWorkers
    <2> QED
      BY <1>1, <1>2, <1>3, <2>3, <2>4, <2>5, <2>6, <2>7, WorkerStep
  <1>4. CASE End(w) /\ UNCHANGED run
    BY <1>2, <1>4, EndStep
  <1> QED
    BY <1>1, <1>3, <1>4 DEF Claim

LEMMA PrepareStep ==
  ASSUME PlanningInv, NEW w \in Workers, Prepare(w)
  PROVE  PlanningInv' /\ AnnouncedStay /\ FetchedNew
  <1>1. PICK r : r = worker[w].run
    OBVIOUS
  <1>2. /\ worker[w].phase = "claimed" /\ Live(w) /\ UNCHANGED <<expired, tab>>
        /\ worker' = [worker EXCEPT ![w].phase = "calling"]
    BY DEF Prepare, Live
  <1>3. /\ r \in Existing /\ run[r] \in PlanningRows
        /\ run[r].steps \in [PlanningSteps -> StepStatuses]
        /\ \A s \in PlanningSteps : run[r].steps[s] = "RUNNING" => s = "generate_work_plan"
    BY <1>1, <1>2, WorkersRun
  <1>4. PICK steps : steps = [run[r].steps EXCEPT !["compile_work_plan_context"] = "SUCCEEDED",
                                                  !["generate_work_plan"] = "RUNNING"]
    OBVIOUS
  <1>5. /\ steps \in [PlanningSteps -> StepStatuses]
        /\ \A s \in PlanningSteps : steps[s] = "RUNNING" => s = "generate_work_plan"
    BY <1>3, <1>4 DEF StepStatuses, PlanningSteps
  <1>6. PICK x : x = [run[r] EXCEPT !.steps = steps]
    OBVIOUS
  <1>7. /\ x \in PlanningRows /\ x.status = run[r].status /\ x.owner = run[r].owner
        /\ x.key = run[r].key /\ x.prior = run[r].prior /\ x.steps = steps
        /\ x.output = run[r].output
    BY <1>3, <1>5, <1>6 DEF PlanningRows
  <1>8. run' = [run EXCEPT ![r] = x]
    BY <1>1, <1>4, <1>6 DEF Prepare, PlanningInv, DataInv, PlanningTypeOK
  <1>9. RowFits(r, x)
    BY <1>3, <1>5, <1>7 DEF RowFits, PlanningInv, DataInv, ReviewHasOwnCandidate
  <1>10. /\ ~Overtaken(r) => run[r].status = "RUNNING" /\ run[r].owner = w
         /\ \A v \in Workers \ {w} : (Live(v) /\ worker[v].run = r) => Overtaken(r)
    BY <1>1, <1>2, OneClaim
  <1>11. w \notin expired
    BY <1>2 DEF PlanningInv, ClaimInv, LeasesOfWorkers
  <1>12. /\ (x.status \in {"AWAITING_REVIEW", "FAILED"} /\ ~Overtaken(r)) =>
                \A s \in PlanningSteps : x.steps[s] # "RUNNING"
         /\ run[r].status = "AWAITING_REVIEW" => Overtaken(r)
    BY <1>7, <1>10
  <1> QED
    BY <1>1, <1>2, <1>7, <1>8, <1>9, <1>10, <1>11, <1>12, WorkerStep

LEMMA FailPlanningStep ==
  ASSUME PlanningInv, NEW w \in Workers, FailPlanning(w)
  PROVE  PlanningInv' /\ AnnouncedStay /\ FetchedNew
  <1>1. PICK r : r = worker[w].run
    OBVIOUS
  <1>2. /\ worker[w].phase = "calling" /\ Live(w) /\ UNCHANGED <<expired, tab>>
        /\ worker' = [worker EXCEPT ![w].phase = "ended"]
    BY DEF FailPlanning, End, Live
  <1>3. /\ r \in Existing /\ run[r] \in PlanningRows
        /\ run[r].steps \in [PlanningSteps -> StepStatuses]
    BY <1>1, <1>2, WorkersRun
  <1>4. PICK steps : steps = StepsFailed(run[r].steps)
    OBVIOUS
  <1>5. /\ steps \in [PlanningSteps -> StepStatuses]
        /\ \A s \in PlanningSteps : steps[s] # "RUNNING"
    BY <1>3, <1>4 DEF StepStatuses, StepsFailed
  <1>6. PICK x : x = [run[r] EXCEPT !.status = "FAILED", !.owner = Nothing, !.steps = steps]
    OBVIOUS
  <1>7. /\ x \in PlanningRows /\ x.status = "FAILED" /\ x.owner = Nothing
        /\ x.key = run[r].key /\ x.prior = run[r].prior /\ x.steps = steps
    BY <1>3, <1>5, <1>6 DEF PlanningRows, PlanningStatuses
  <1>8. run' = [run EXCEPT ![r] = x]
    BY <1>1, <1>4, <1>6 DEF FailPlanning, PlanningInv, DataInv, PlanningTypeOK
  <1>9. RowFits(r, x)
    BY <1>5, <1>7 DEF RowFits
  <1>10. /\ ~Overtaken(r) => run[r].status = "RUNNING" /\ run[r].owner = w
         /\ \A v \in Workers \ {w} : (Live(v) /\ worker[v].run = r) => Overtaken(r)
    BY <1>1, <1>2, OneClaim
  <1>11. /\ (x.status \in {"AWAITING_REVIEW", "FAILED"} /\ ~Overtaken(r)) =>
                \A s \in PlanningSteps : x.steps[s] # "RUNNING"
         /\ run[r].status = "AWAITING_REVIEW" => Overtaken(r)
    BY <1>5, <1>7, <1>10
  <1> QED
    BY <1>1, <1>2, <1>7, <1>8, <1>9, <1>10, <1>11, WorkerStep

(* The answer is accepted against the run's own nonce and what the run names. *)
LEMMA StoreCandidateStep ==
  ASSUME PlanningInv, NEW w \in Workers, NEW answer \in Candidates, StoreCandidate(w, answer)
  PROVE  PlanningInv' /\ AnnouncedStay /\ FetchedNew
  <1>1. PICK r : r = worker[w].run
    OBVIOUS
  <1>2. /\ worker[w].phase = "calling" /\ Live(w) /\ UNCHANGED <<expired, tab>>
        /\ worker' = [worker EXCEPT ![w].phase = "ended"] /\ Accepted(r, answer)
    BY <1>1 DEF StoreCandidate, End, Live
  <1>3. /\ r \in Existing /\ run[r] \in PlanningRows
        /\ run[r].steps \in [PlanningSteps -> StepStatuses]
        /\ \A s \in PlanningSteps : run[r].steps[s] = "RUNNING" => s = "generate_work_plan"
    BY <1>1, <1>2, WorkersRun
  <1>4. PICK steps : steps = [run[r].steps EXCEPT !["generate_work_plan"] = "SUCCEEDED",
                                                  !["save_work_plan_candidate"] = "SUCCEEDED"]
    OBVIOUS
  <1>5. /\ steps \in [PlanningSteps -> StepStatuses]
        /\ \A s \in PlanningSteps : steps[s] # "RUNNING"
    BY <1>3, <1>4 DEF StepStatuses, PlanningSteps
  <1>6. PICK x : x = [run[r] EXCEPT !.status = "AWAITING_REVIEW", !.owner = Nothing,
                                    !.output = answer, !.steps = steps]
    OBVIOUS
  <1>7. /\ x \in PlanningRows /\ x.status = "AWAITING_REVIEW" /\ x.owner = Nothing
        /\ x.key = run[r].key /\ x.prior = run[r].prior /\ x.steps = steps /\ x.output = answer
    BY <1>3, <1>5, <1>6 DEF PlanningRows, PlanningStatuses
  <1>8. run' = [run EXCEPT ![r] = x]
    BY <1>1, <1>3, <1>4, <1>6 DEF StoreCandidate, ReviewStatus, PlanningRows
  <1>9. RowFits(r, x)
    BY <1>2, <1>5, <1>7, PlanningNullAssumption DEF RowFits, Accepted
  <1>10. /\ ~Overtaken(r) => run[r].status = "RUNNING" /\ run[r].owner = w
         /\ \A v \in Workers \ {w} : (Live(v) /\ worker[v].run = r) => Overtaken(r)
    BY <1>1, <1>2, OneClaim
  <1>11. /\ (x.status \in {"AWAITING_REVIEW", "FAILED"} /\ ~Overtaken(r)) =>
                \A s \in PlanningSteps : x.steps[s] # "RUNNING"
         /\ run[r].status = "AWAITING_REVIEW" => Overtaken(r)
    BY <1>5, <1>7, <1>10
  <1> QED
    BY <1>1, <1>2, <1>7, <1>8, <1>9, <1>10, <1>11, WorkerStep

(* The clock: a worker whose lease ends while it calls the model is late from then on. *)
LEMMA ExpireLeaseStep ==
  ASSUME PlanningInv, NEW w \in Workers, ExpireLease(w)
  PROVE  PlanningInv' /\ AnnouncedStay /\ FetchedNew
  <1>1. /\ w \notin expired /\ expired' = expired \cup {w} /\ UNCHANGED <<run, tab>>
        /\ worker[w] \in WorkerStates /\ ~worker[w].late
    BY DEF ExpireLease, PlanningInv, DataInv, ClaimInv, PlanningTypeOK, LeasesOfWorkers
  <1>2. PICK b \in BOOLEAN : b <=> Live(w)
    BY Zenon
  <1>3. PICK y : y = [worker[w] EXCEPT !.late = b]
    OBVIOUS
  <1>4. y \in WorkerStates /\ y.phase = worker[w].phase /\ y.run = worker[w].run /\ y.late = b
    BY <1>1, <1>2, <1>3 DEF WorkerStates
  <1>5. b = Live(w)
    <2>1. Live(w) \in BOOLEAN
      BY DEF Live
    <2> QED
      BY <1>2, <2>1
  <1>6. WorkerSet(w, y)
    BY <1>3, <1>4, <1>5 DEF ExpireLease, WorkerSet, PlanningInv, DataInv, PlanningTypeOK
  <1>7. Live(w) \/ worker[w].phase = "ended"
    BY DEF ExpireLease, PlanningInv, DataInv, ClaimInv, LeasesOfWorkers, PlanningTypeOK,
       WorkerStates, Live
  <1>8. Live(w) => worker[w].phase = "calling"
    BY DEF ExpireLease, Live
  <1>9. \A v \in Workers : /\ worker'[v].phase = worker[v].phase
                           /\ worker'[v].run = worker[v].run
                           /\ worker[v].late => worker'[v].late
    BY <1>1, <1>4, <1>6 DEF WorkerSet
  <1>10. \A q : Overtaken(q) => Overtaken(q)'
    BY <1>9 DEF Overtaken
  <1>11. DataInv'
    BY <1>1, <1>6, <1>9 DEF WorkerSet, PlanningInv, DataInv, PlanningTypeOK, WorkersHaveRuns,
       TabsHaveRuns, TabFits, KeptOnce, ReviewHasOwnCandidate, OnePlanningPerKey, OnlyTheCallRuns,
       Existing
  <1>12. LeasesOfWorkers'
    <2>1. \A v \in Workers : worker'[v].late => v \in expired' /\ worker'[v].phase # "none"
      BY <1>1, <1>2, <1>4, <1>6, <1>8 DEF WorkerSet, PlanningInv, ClaimInv, LeasesOfWorkers
    <2>2. \A v \in expired' : \/ worker'[v].phase = "ended"
                              \/ worker'[v].phase = "calling" /\ worker'[v].late
      BY <1>1, <1>2, <1>4, <1>6, <1>7, <1>8 DEF WorkerSet, PlanningInv, DataInv, ClaimInv,
         LeasesOfWorkers, PlanningTypeOK
    <2>3. \A r \in Existing', v \in Workers :
              run'[r].owner = v => worker'[v].phase \notin {"none", "scheduled"}
      BY <1>1, <1>9 DEF PlanningInv, ClaimInv, LeasesOfWorkers, Existing
    <2> QED
      BY <2>1, <2>2, <2>3 DEF LeasesOfWorkers
  <1>13. ClaimsHold'
    <2> SUFFICES ASSUME NEW v \in Workers, Live(v)', ~Overtaken(worker[v].run)'
                 PROVE  run'[worker'[v].run].status = "RUNNING" /\ run'[worker'[v].run].owner = v
      BY DEF ClaimsHold
    <2>1. Live(v) /\ ~Overtaken(worker[v].run) /\ worker'[v].run = worker[v].run
      BY <1>9 DEF Live, Overtaken
    <2> QED
      BY <1>1, <2>1 DEF PlanningInv, ClaimInv, ClaimsHold
  <1>14. SettledRunRests'
    BY <1>1, <1>10 DEF PlanningInv, ClaimInv, SettledRunRests, Existing
  <1>15. AnnouncedStay /\ FetchedNew
    BY <1>1 DEF AnnouncedStay, FetchedNew
  <1> QED
    BY <1>11, <1>12, <1>13, <1>14, <1>15 DEF PlanningInv, ClaimInv

-------------------------------------------------------------------------------
(* The theorems *)

LEMMA PlanningInitInv == PlanningInit => PlanningInv
  <1> SUFFICES ASSUME PlanningInit PROVE PlanningInv
    OBVIOUS
  <1>1. Existing = {} /\ expired = {}
    BY DEF PlanningInit, Existing
  <1>2. \A w \in Workers : worker[w] \in WorkerStates /\ worker[w].phase = "none"
                           /\ ~worker[w].late
    BY DEF PlanningInit, NoWorker, WorkerStates
  <1>3. \A t \in Tabs : /\ tab[t] \in TabStates /\ tab[t].step = "idle" /\ ~tab[t].own
                        /\ tab[t].kept = << >>
    BY DEF PlanningInit, TabStates
  <1>4. PlanningTypeOK
    BY <1>1, <1>2, <1>3 DEF PlanningInit, PlanningTypeOK
  <1>5. TabsHaveRuns
    BY <1>3 DEF TabsHaveRuns, TabFits
  <1>6. KeptOnce
    BY <1>3 DEF KeptOnce
  <1>7. WorkersHaveRuns /\ ReviewHasOwnCandidate /\ OnePlanningPerKey /\ OnlyTheCallRuns
    BY <1>1, <1>2 DEF WorkersHaveRuns, ReviewHasOwnCandidate, OnePlanningPerKey, OnlyTheCallRuns
  <1>8. ClaimInv
    BY <1>1, <1>2 DEF ClaimInv, LeasesOfWorkers, ClaimsHold, SettledRunRests, Live
  <1> QED
    BY <1>4, <1>5, <1>6, <1>7, <1>8 DEF PlanningInv, DataInv

LEMMA PlanningStep ==
  ASSUME PlanningInv, [PlanningNext]_planningVars
  PROVE  PlanningInv' /\ AnnouncedStay /\ FetchedNew
  <1>1. ASSUME NEW t \in Tabs, TabStep(t) PROVE PlanningInv' /\ AnnouncedStay /\ FetchedNew
    BY <1>1, AskPlanningStep, InsertPlanningStep, PollStep, FetchStep, ForgetStep DEF TabStep
  <1>2. ASSUME NEW w \in Workers, Work(w) PROVE PlanningInv' /\ AnnouncedStay /\ FetchedNew
    BY <1>2, ClaimStep, PrepareStep, FailPlanningStep, StoreCandidateStep DEF Work
  <1>3. CASE UNCHANGED planningVars
    <2>1. PlanningInv'
      BY <1>3 DEF planningVars, PlanningInv, DataInv, ClaimInv, PlanningTypeOK, WorkersHaveRuns,
         TabsHaveRuns, TabFits, KeptOnce, ReviewHasOwnCandidate, OnePlanningPerKey,
         OnlyTheCallRuns, LeasesOfWorkers, ClaimsHold, SettledRunRests, Overtaken, Live, Existing
    <2>2. AnnouncedStay /\ FetchedNew
      BY <1>3 DEF planningVars, AnnouncedStay, FetchedNew
    <2> QED
      BY <2>1, <2>2
  <1> QED
    BY <1>1, <1>2, <1>3, ResumeStep, CrashStep, ExpireLeaseStep DEF PlanningNext

(* Whatever the tabs, the web process, the workers and the clock do, in whatever order:  *)
(* the tables and tabs fit together, and a run none of whose workers has outlived its     *)
(* lease has one live worker at most, its owner (planning.py:108-316).                    *)
THEOREM PlanningInvariant == PlanningSpec => []PlanningInv
  BY PlanningInitInv, PlanningStep, PTL DEF PlanningSpec

(* Every row, process and tab has its type; a tab keeps a sequence of candidates. *)
THEOREM PlanningTypeCorrect == PlanningSpec => []PlanningTypeOK
  <1>1. PlanningInv => PlanningTypeOK
    BY DEF PlanningInv, DataInv
  <1> QED
    BY <1>1, PlanningInvariant, PTL

(* Requests under one key that meet between the query and the insertion make one run: *)
(* the unique index refuses the other (create_work_planning_run).                      *)
THEOREM PlanningKeysAreIdempotent == PlanningSpec => []OnePlanningPerKey
  <1>1. PlanningInv => OnePlanningPerKey
    BY DEF PlanningInv, DataInv
  <1> QED
    BY <1>1, PlanningInvariant, PTL

(* However many workers have written a run, and however late, what it shows for review *)
(* is an answer to its own request and none of the outlines that the request named      *)
(* (the checks of execute_work_planning_run).                                           *)
THEOREM CandidateAnswersItsRequest == PlanningSpec => []ReviewHasOwnCandidate
  <1>1. PlanningInv => ReviewHasOwnCandidate
    BY DEF PlanningInv, DataInv
  <1> QED
    BY <1>1, PlanningInvariant, PTL

(* Unless a worker of it has outlived its lease, a run that has failed or awaits review *)
(* shows no step at work (_fail_planning_run and the last transaction).                 *)
THEOREM SettledRunsRest == PlanningSpec => []SettledRunRests
  <1>1. PlanningInv => SettledRunRests
    BY DEF PlanningInv, ClaimInv
  <1> QED
    BY <1>1, PlanningInvariant, PTL

(* A tab lists no candidate twice, whatever it fetches again under an old key, for any *)
(* quota of its storage (cachePlanningCandidates).                                     *)
THEOREM TabsKeepCandidatesOnce == PlanningSpec => []KeptOnce
  <1>1. PlanningInv => KeptOnce
    BY DEF PlanningInv, DataInv
  <1> QED
    BY <1>1, PlanningInvariant, PTL

(* No step replaces, fails or reopens a candidate that waits for review, unless a worker *)
(* of its run has outlived its lease.                                                    *)
THEOREM CandidatesAwaitReview == PlanningSpec => AnnouncedCandidateStays
  <1>1. PlanningInv /\ [PlanningNext]_planningVars => [AnnouncedStay]_planningVars
    BY PlanningStep
  <1>2. PlanningSpec => [][AnnouncedStay]_planningVars
    BY <1>1, PlanningInvariant, PTL DEF PlanningSpec
  <1> QED
    BY <1>2 DEF AnnouncedCandidateStays, AnnouncedStay

(* What a tab gets for its own request is none of the newest PriorLimit outlines it     *)
(* keeps: what it keeps does not change between the request and the fetch.               *)
THEOREM RequestsBringNewOutlines == PlanningSpec => FetchedOutlineIsNew
  <1>1. PlanningInv /\ [PlanningNext]_planningVars => [FetchedNew]_planningVars
    BY PlanningStep
  <1>2. PlanningSpec => [][FetchedNew]_planningVars
    BY <1>1, PlanningInvariant, PTL DEF PlanningSpec
  <1> QED
    BY <1>2 DEF FetchedOutlineIsNew, FetchedNew
===============================================================================

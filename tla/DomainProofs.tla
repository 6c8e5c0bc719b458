----------------------------- MODULE DomainProofs -----------------------------
(***************************************************************************)
(* The three algorithms of the domain package, each for all its inputs:    *)
(* the work-list of find_invalidated_outputs, the projections of item      *)
(* transfers and the length policy.                                        *)
(***************************************************************************)
EXTENDS StaleOutputs, ItemProjection, ProseLength, TLAPS, FiniteSetTheorems

-------------------------------------------------------------------------------
(***************************************************************************)
(* The work-list of find_invalidated_outputs computes reachability, for    *)
(* any finite graph and any list of changes: what has been visited has all *)
(* its outputs invalidated, whatever is changed or invalidated has been    *)
(* visited or waits, and nothing is invalidated that some closed set would *)
(* leave out.                                                              *)
(***************************************************************************)

StaleTypeOK ==
    /\ dependencies \subseteq Hashes \X Hashes
    /\ changed \subseteq Hashes
    /\ queue \in Seq(Hashes)
    /\ visited \subseteq Hashes
    /\ invalidated \subseteq Hashes

Waiting == Listed(queue)

VisitedDone == \A h \in visited : Downstream(h) \subseteq invalidated

NothingForgotten == changed \cup invalidated \subseteq visited \cup Waiting

NothingExtra == \A C \in SUBSET Hashes : Closed(C) => invalidated \subseteq C

OnlyStaleWaits == visited \cup Waiting \subseteq changed \cup invalidated

StaleInv == /\ StaleTypeOK
            /\ VisitedDone
            /\ NothingForgotten
            /\ NothingExtra
            /\ OnlyStaleWaits

-------------------------------------------------------------------------------

(* What a queue with a head holds. *)
LEMMA HeadAndTail ==
    ASSUME NEW S, NEW s \in Seq(S), s # <<>>
    PROVE  /\ Head(s) \in S /\ Tail(s) \in Seq(S)
           /\ Listed(s) = {Head(s)} \cup Listed(Tail(s))
  <1>1. /\ Head(s) \in S /\ Tail(s) \in Seq(S)
        /\ Len(s) \in Nat \ {0} /\ DOMAIN s = 1 .. Len(s)
        /\ Head(s) = s[1]
        /\ Len(Tail(s)) = Len(s) - 1
        /\ DOMAIN Tail(s) = 1 .. Len(s) - 1
        /\ \A i \in 1 .. Len(s) - 1 : Tail(s)[i] = s[i + 1]
    OBVIOUS
  <1>2. \A i \in DOMAIN s : i = 1 \/ i - 1 \in 1 .. Len(s) - 1
    BY <1>1
  <1>3. \A i \in DOMAIN s : i # 1 => s[i] = Tail(s)[i - 1]
    BY <1>1, <1>2
  <1>4. Listed(s) \subseteq {Head(s)} \cup Listed(Tail(s))
    BY <1>1, <1>2, <1>3 DEF Listed
  <1>5. {Head(s)} \cup Listed(Tail(s)) \subseteq Listed(s)
    <2>1. Head(s) \in Listed(s)
      BY <1>1 DEF Listed
    <2>2. \A i \in DOMAIN Tail(s) : i + 1 \in DOMAIN s /\ Tail(s)[i] = s[i + 1]
      BY <1>1
    <2> QED
      BY <2>1, <2>2 DEF Listed
  <1> QED
    BY <1>1, <1>4, <1>5

(* What a concatenation holds. *)
LEMMA ListedConcat ==
    ASSUME NEW S, NEW s \in Seq(S), NEW u \in Seq(S)
    PROVE  s \o u \in Seq(S) /\ Listed(s \o u) = Listed(s) \cup Listed(u)
  <1>1. /\ s \o u \in Seq(S)
        /\ Len(s) \in Nat /\ Len(u) \in Nat
        /\ DOMAIN s = 1 .. Len(s) /\ DOMAIN u = 1 .. Len(u)
        /\ DOMAIN (s \o u) = 1 .. Len(s) + Len(u)
        /\ \A i \in 1 .. Len(s) : (s \o u)[i] = s[i]
        /\ \A i \in 1 .. Len(u) : (s \o u)[Len(s) + i] = u[i]
    OBVIOUS
  <1>2. Listed(s) \subseteq Listed(s \o u)
    BY <1>1 DEF Listed
  <1>3. Listed(u) \subseteq Listed(s \o u)
    <2>1. \A i \in DOMAIN u : Len(s) + i \in DOMAIN (s \o u)
      BY <1>1
    <2> QED
      BY <1>1, <2>1 DEF Listed
  <1>4. Listed(s \o u) \subseteq Listed(s) \cup Listed(u)
    <2> SUFFICES ASSUME NEW i \in DOMAIN (s \o u)
                 PROVE  (s \o u)[i] \in Listed(s) \cup Listed(u)
      BY DEF Listed
    <2>1. CASE i <= Len(s)
      BY <1>1, <2>1 DEF Listed
    <2>2. CASE ~(i <= Len(s))
      <3>1. i - Len(s) \in 1 .. Len(u) /\ i = Len(s) + (i - Len(s))
        BY <1>1, <2>2
      <3>2. (s \o u)[i] = u[i - Len(s)]
        BY <1>1, <3>1
      <3> QED
        BY <1>1, <3>1, <3>2 DEF Listed
    <2> QED
      BY <2>1, <2>2
  <1> QED
    BY <1>1, <1>2, <1>3, <1>4

(* An order of a set of hashes is a sequence of hashes. *)
LEMMA OrderIsList ==
    ASSUME NEW T \in SUBSET Hashes, NEW s \in Orders(T)
    PROVE  s \in Seq(Hashes) /\ Listed(s) = T
  <1>1. Cardinality(T) \in Nat
    BY HashesAssumption, FS_Subset, FS_CardinalityType
  <1>2. s \in [1 .. Cardinality(T) -> Hashes]
    BY DEF Orders
  <1>3. s \in Seq(Hashes)
    BY <1>1, <1>2
  <1> QED
    BY <1>3 DEF Orders

LEMMA StaleInitInv == StaleInit => StaleInv
  BY HashesAssumption DEF StaleInit, StaleInv, StaleTypeOK, VisitedDone, NothingForgotten,
     NothingExtra, OnlyStaleWaits, Waiting, Listed

(* Skipping takes a visited input off the queue and changes nothing else. *)
LEMMA SkipStep == StaleInv /\ SkipVisited => StaleInv'
  <1> SUFFICES ASSUME StaleInv, SkipVisited PROVE StaleInv'
    OBVIOUS
  <1>1. /\ queue \in Seq(Hashes) /\ queue # <<>>
        /\ Head(queue) \in visited
        /\ queue' = Tail(queue)
        /\ UNCHANGED <<dependencies, changed, visited, invalidated>>
    BY DEF StaleInv, StaleTypeOK, SkipVisited, inputVars
  <1>2. /\ queue' \in Seq(Hashes)
        /\ Waiting = {Head(queue)} \cup Waiting'
    BY <1>1, HeadAndTail DEF Waiting
  <1>3. StaleTypeOK'
    BY <1>1, <1>2 DEF StaleInv, StaleTypeOK
  <1>4. VisitedDone' /\ NothingExtra'
    BY <1>1 DEF StaleInv, VisitedDone, NothingExtra, Downstream, Closed
  <1>5. NothingForgotten' /\ OnlyStaleWaits'
    BY <1>1, <1>2 DEF StaleInv, NothingForgotten, OnlyStaleWaits
  <1> QED
    BY <1>3, <1>4, <1>5 DEF StaleInv

(* Visiting moves the head to the visited inputs and its new outputs to the queue. *)
LEMMA VisitStep == StaleInv /\ VisitInput => StaleInv'
  <1> SUFFICES ASSUME StaleInv, VisitInput PROVE StaleInv'
    OBVIOUS
  <1> DEFINE h == Head(queue)
  <1>1. PICK s \in Orders(New(h)) : queue' = Tail(queue) \o s
    BY DEF VisitInput
  <1>2. /\ queue \in Seq(Hashes) /\ queue # <<>>
        /\ visited' = visited \cup {h}
        /\ invalidated' = invalidated \cup New(h)
        /\ UNCHANGED <<dependencies, changed>>
    BY DEF StaleInv, StaleTypeOK, VisitInput, inputVars
  <1>3. /\ h \in Hashes /\ Tail(queue) \in Seq(Hashes)
        /\ Waiting = {h} \cup Listed(Tail(queue))
    BY <1>2, HeadAndTail DEF Waiting
  <1>4. New(h) \in SUBSET Hashes
    BY DEF New, Downstream
  <1>5. s \in Seq(Hashes) /\ Listed(s) = New(h)
    BY <1>1, <1>4, OrderIsList
  <1>6. queue' \in Seq(Hashes) /\ Waiting' = Listed(Tail(queue)) \cup New(h)
    <2>1. /\ Tail(queue) \o s \in Seq(Hashes)
          /\ Listed(Tail(queue) \o s) = Listed(Tail(queue)) \cup Listed(s)
      BY <1>3, <1>5, ListedConcat
    <2>2. Waiting' = Listed(queue')
      BY DEF Waiting
    <2> QED
      BY <1>1, <1>5, <2>1, <2>2
  <1>7. StaleTypeOK'
    BY <1>2, <1>3, <1>4, <1>6 DEF StaleInv, StaleTypeOK
  <1>8. VisitedDone'
    <2>1. Downstream(h) \subseteq invalidated'
      BY <1>2 DEF New
    <2>2. \A g \in visited : Downstream(g) \subseteq invalidated'
      BY <1>2 DEF StaleInv, VisitedDone
    <2>3. \A g \in Hashes : Downstream(g)' = Downstream(g)
      BY <1>2 DEF Downstream
    <2> QED
      BY <1>2, <1>3, <2>1, <2>2, <2>3 DEF VisitedDone, StaleInv, StaleTypeOK
  <1>9. NothingForgotten'
    BY <1>2, <1>3, <1>6 DEF StaleInv, NothingForgotten
  <1>10. NothingExtra'
    <2> SUFFICES ASSUME NEW C \in SUBSET Hashes, Closed(C) PROVE invalidated' \subseteq C
      BY <1>2 DEF NothingExtra, Closed
    <2>1. invalidated \subseteq C
      BY DEF StaleInv, NothingExtra
    <2>2. h \in changed \cup C
      BY <1>3, <2>1 DEF StaleInv, OnlyStaleWaits
    <2>3. Downstream(h) \subseteq C
      <3> SUFFICES ASSUME NEW g \in Hashes, <<h, g>> \in dependencies PROVE g \in C
        BY DEF Downstream
      <3>1. <<h, g>>[1] = h /\ <<h, g>>[2] = g
        OBVIOUS
      <3> QED
        BY <2>2, <3>1 DEF Closed
    <2> QED
      BY <1>2, <2>1, <2>3 DEF New
  <1>11. OnlyStaleWaits'
    BY <1>2, <1>3, <1>6 DEF StaleInv, OnlyStaleWaits
  <1> QED
    BY <1>7, <1>8, <1>9, <1>10, <1>11 DEF StaleInv

(* With an empty queue the invalidated outputs are themselves closed, and the least such set. *)
LEMMA InvExact == StaleInv => ExactlyStale
  <1> SUFFICES ASSUME StaleInv, queue = <<>> PROVE invalidated = DirectAndTransitive
    BY DEF ExactlyStale
  <1>1. changed \cup invalidated \subseteq visited
    BY DEF StaleInv, NothingForgotten, Waiting, Listed
  <1>2. Closed(invalidated)
    <2> SUFFICES ASSUME NEW d \in dependencies, d[1] \in changed \cup invalidated
                 PROVE  d[2] \in invalidated
      BY DEF Closed
    <2>1. d \in Hashes \X Hashes
      BY DEF StaleInv, StaleTypeOK
    <2>2. d[2] \in Downstream(d[1])
      BY <2>1 DEF Downstream
    <2> QED
      BY <1>1, <2>2 DEF StaleInv, VisitedDone
  <1>3. invalidated \in SUBSET Hashes
    BY DEF StaleInv, StaleTypeOK
  <1>4. DirectAndTransitive \subseteq invalidated
    BY <1>2, <1>3 DEF DirectAndTransitive
  <1>5. invalidated \subseteq DirectAndTransitive
    BY <1>3 DEF DirectAndTransitive, StaleInv, NothingExtra
  <1> QED
    BY <1>4, <1>5

(* Whenever the work-list is empty, what find_invalidated_outputs returns is exactly the  *)
(* set of direct and transitive outputs of the changes (workflows.py:94-115).             *)
THEOREM WorkListIsReachability == StaleSpec => []ExactlyStale
  <1>1. StaleInv /\ [StaleNext]_staleVars => StaleInv'
    <2> SUFFICES ASSUME StaleInv, [StaleNext]_staleVars PROVE StaleInv'
      OBVIOUS
    <2>1. CASE UNCHANGED staleVars
      BY <2>1 DEF staleVars, StaleInv, StaleTypeOK, VisitedDone, NothingForgotten, NothingExtra,
         OnlyStaleWaits, Waiting, Downstream, Closed
    <2> QED
      BY <2>1, SkipStep, VisitStep DEF StaleNext
  <1> QED
    BY <1>1, StaleInitInv, InvExact, PTL DEF StaleSpec

-------------------------------------------------------------------------------
(***************************************************************************)
(* Projections of item transfers, for any items, owners, projectors and    *)
(* sequence numbers.  The owner in a projection is where the newest        *)
(* projected transfer of the item went; together with the uniqueness of    *)
(* the numbers this determines a projection by its last number alone.      *)
(***************************************************************************)

ProjectionTypeOK ==
    /\ events \subseteq Transfers
    /\ projection \in [Projectors -> ItemOwnershipStates]

(* A number names one event. *)
NumbersUnique == \A e, f \in events : e.sequence = f.sequence => e = f

(* Every number a projector has passed is taken. *)
NoGapBehind ==
    \A q \in Projectors : \A n \in 1 .. projection[q].last :
        \E e \in events : e.sequence = n

(* The transfers of item i up to number n. *)
Passed(i, n) == {e \in events : e.item = i /\ e.sequence <= n}

(* o is nobody before the first transfer, and then where the newest one went. *)
OwnerAt(i, n, o) ==
    \/ Passed(i, n) = {} /\ o = Nobody
    \/ \E e \in Passed(i, n) :
           o = e.to /\ \A f \in Passed(i, n) : f.sequence <= e.sequence

OwnerIsNewest ==
    \A q \in Projectors, i \in Items :
        OwnerAt(i, projection[q].last, projection[q].owner[i])

ProjectionInv == /\ ProjectionTypeOK
                 /\ NumbersUnique
                 /\ NoGapBehind
                 /\ OwnerIsNewest
                 /\ OwnersChain

-------------------------------------------------------------------------------

LEMMA TransferFields ==
    ASSUME NEW e \in Transfers
    PROVE  /\ e.item \in Items /\ e.to \in Owners
           /\ e.sequence \in Nat /\ e.sequence >= 1
  BY DEF Transfers

LEMMA StateFields ==
    ASSUME ProjectionTypeOK, NEW q \in Projectors
    PROVE  /\ projection[q].last \in Nat
           /\ projection[q].owner \in Ownerships
  BY DEF ProjectionTypeOK, ItemOwnershipStates

LEMMA ProjectionInitInv == ProjectionInit => ProjectionInv
  <1> SUFFICES ASSUME ProjectionInit PROVE ProjectionInv
    OBVIOUS
  <1>1. ProjectionTypeOK
    BY DEF ProjectionInit, ProjectionTypeOK, NoOwnership, ItemOwnershipStates, Ownerships
  <1>2. NumbersUnique /\ OwnersChain
    BY DEF ProjectionInit, NumbersUnique, OwnersChain
  <1>3. NoGapBehind
    BY DEF ProjectionInit, NoGapBehind, NoOwnership
  <1>4. OwnerIsNewest
    BY DEF ProjectionInit, OwnerIsNewest, OwnerAt, Passed, NoOwnership
  <1> QED
    BY <1>1, <1>2, <1>3, <1>4 DEF ProjectionInv

(* A number that is free lies ahead of every projector, so what they have passed stays. *)
LEMMA RecordStep ==
    ASSUME ProjectionInv, NEW e \in Transfers, RecordTransfer(e)
    PROVE  ProjectionInv'
  <1>1. \A q \in Projectors : e.sequence > projection[q].last
    <2> SUFFICES ASSUME NEW q \in Projectors, e.sequence <= projection[q].last PROVE FALSE
      BY TransferFields, StateFields DEF ProjectionInv
    <2>1. e.sequence \in 1 .. projection[q].last
      BY TransferFields, StateFields DEF ProjectionInv
    <2> QED
      BY <2>1 DEF ProjectionInv, NoGapBehind, RecordTransfer, SequenceFree
  <1>2. \A q \in Projectors, i \in Items :
            Passed(i, projection[q].last)' = Passed(i, projection[q].last)
    BY <1>1, TransferFields, StateFields DEF RecordTransfer, Passed, ProjectionInv
  <1>3. ProjectionTypeOK'
    BY DEF ProjectionInv, ProjectionTypeOK, RecordTransfer
  <1>4. NumbersUnique'
    BY DEF ProjectionInv, NumbersUnique, RecordTransfer, SequenceFree
  <1>5. NoGapBehind'
    BY DEF ProjectionInv, NoGapBehind, RecordTransfer
  <1>6. OwnerIsNewest'
    <2> SUFFICES ASSUME NEW q \in Projectors, NEW i \in Items
                 PROVE  OwnerAt(i, projection[q].last, projection[q].owner[i])'
      BY DEF OwnerIsNewest
    <2>1. projection' = projection
      BY DEF RecordTransfer
    <2>2. OwnerAt(i, projection[q].last, projection[q].owner[i])
      BY DEF ProjectionInv, OwnerIsNewest
    <2> QED
      BY <1>2, <2>1, <2>2 DEF OwnerAt
  <1>7. OwnersChain'
    <2> SUFFICES ASSUME NEW q \in Projectors,
                        NEW x \in events', x.sequence <= projection[q].last,
                        NEW y \in events', y.sequence <= projection[q].last,
                        x.item = y.item, x.sequence < y.sequence,
                        ~ \E g \in events' : /\ g.item = x.item
                                             /\ x.sequence < g.sequence
                                             /\ g.sequence < y.sequence
                 PROVE  y.from = x.to
      BY DEF OwnersChain, RecordTransfer
    <2>1. x # e /\ y # e
      BY <1>1, TransferFields, StateFields DEF ProjectionInv
    <2>2. x \in events /\ y \in events
      BY <2>1 DEF RecordTransfer
    <2>3. ~ \E g \in events : /\ g.item = x.item
                              /\ x.sequence < g.sequence /\ g.sequence < y.sequence
      BY DEF RecordTransfer
    <2> QED
      BY <2>2, <2>3 DEF ProjectionInv, OwnersChain
  <1> QED
    BY <1>3, <1>4, <1>5, <1>6, <1>7 DEF ProjectionInv

(* A projector that starts again has passed nothing. *)
LEMMA RebuildStep ==
    ASSUME ProjectionInv, NEW q \in Projectors, Rebuild(q)
    PROVE  ProjectionInv'
  <1>1. /\ projection'[q] = NoOwnership
        /\ \A p \in Projectors : p # q => projection'[p] = projection[p]
        /\ events' = events
    BY DEF Rebuild, ProjectionInv, ProjectionTypeOK
  <1>2. \A i \in Items : Passed(i, 0) = {}
    BY TransferFields DEF ProjectionInv, ProjectionTypeOK, Passed
  <1>3. ProjectionTypeOK'
    BY DEF ProjectionInv, ProjectionTypeOK, Rebuild, NoOwnership, ItemOwnershipStates, Ownerships
  <1>4. NumbersUnique'
    BY <1>1 DEF ProjectionInv, NumbersUnique
  <1>5. NoGapBehind'
    <2> SUFFICES ASSUME NEW p \in Projectors, NEW n \in 1 .. projection'[p].last
                 PROVE  \E e \in events : e.sequence = n
      BY <1>1 DEF NoGapBehind
    <2>1. CASE p = q
      BY <1>1, <2>1 DEF NoOwnership
    <2>2. CASE p # q
      BY <1>1, <2>2 DEF ProjectionInv, NoGapBehind
    <2> QED
      BY <2>1, <2>2
  <1>6. OwnerIsNewest'
    <2> SUFFICES ASSUME NEW p \in Projectors, NEW i \in Items
                 PROVE  OwnerAt(i, projection'[p].last, projection'[p].owner[i])
      BY <1>1 DEF OwnerIsNewest, OwnerAt, Passed
    <2>1. CASE p = q
      BY <1>1, <1>2, <2>1 DEF OwnerAt, NoOwnership
    <2>2. CASE p # q
      BY <1>1, <2>2 DEF ProjectionInv, OwnerIsNewest
    <2> QED
      BY <2>1, <2>2
  <1>7. OwnersChain'
    <2>1. \A e \in events : ~(e.sequence <= 0)
      BY TransferFields DEF ProjectionInv, ProjectionTypeOK
    <2>2. projection'[q].last = 0
      BY <1>1 DEF NoOwnership
    <2> QED
      BY <1>1, <2>1, <2>2 DEF ProjectionInv, OwnersChain
  <1> QED
    BY <1>3, <1>4, <1>5, <1>6, <1>7 DEF ProjectionInv

(* The next transfer becomes the newest of its item, and its old owner was the newest. *)
LEMMA ProjectStep ==
    ASSUME ProjectionInv, NEW q \in Projectors, NEW e \in events, Project(q, e)
    PROVE  ProjectionInv'
  <1> DEFINE n == projection[q].last
  <1>0. e \in Transfers /\ n \in Nat /\ projection[q].owner \in Ownerships
    BY StateFields DEF ProjectionInv, ProjectionTypeOK
  <1>1. /\ events' = events
        /\ projection'[q].last = n + 1
        /\ projection'[q].owner = [projection[q].owner EXCEPT ![e.item] = e.to]
        /\ \A p \in Projectors : p # q => projection'[p] = projection[p]
        /\ e.sequence = n + 1
        /\ projection[q].owner[e.item] = e.from
    BY <1>0 DEF Project, Projected, NextInSequence, OwnerMatches, ProjectionInv, ProjectionTypeOK
  <1>2. \A f \in events : f.sequence \in Nat /\ (f.sequence <= n + 1 => f.sequence <= n \/ f = e)
    BY <1>0, <1>1, TransferFields DEF ProjectionInv, ProjectionTypeOK, NumbersUnique
  <1>3. ProjectionTypeOK'
    <2>1. projection' = [projection EXCEPT ![q] = Projected(@, e)]
      BY DEF Project
    <2>2. Projected(projection[q], e) \in ItemOwnershipStates
      BY <1>0, TransferFields DEF Projected, ItemOwnershipStates, Ownerships
    <2> QED
      BY <1>1, <2>1, <2>2 DEF ProjectionInv, ProjectionTypeOK
  <1>4. NumbersUnique'
    BY <1>1 DEF ProjectionInv, NumbersUnique
  <1>5. NoGapBehind'
    <2> SUFFICES ASSUME NEW p \in Projectors, NEW k \in 1 .. projection'[p].last
                 PROVE  \E f \in events : f.sequence = k
      BY <1>1 DEF NoGapBehind
    <2>1. CASE p = q /\ k = n + 1
      BY <1>1, <2>1
    <2>2. CASE p = q /\ k # n + 1
      <3>1. k \in 1 .. n
        BY <1>0, <1>1, <2>2
      <3> QED
        BY <2>2, <3>1 DEF ProjectionInv, NoGapBehind
    <2>3. CASE p # q
      BY <1>1, <2>3 DEF ProjectionInv, NoGapBehind
    <2> QED
      BY <2>1, <2>2, <2>3
  <1>6. OwnerIsNewest'
    <2> SUFFICES ASSUME NEW p \in Projectors, NEW i \in Items
                 PROVE  OwnerAt(i, projection'[p].last, projection'[p].owner[i])
      BY <1>1 DEF OwnerIsNewest, OwnerAt, Passed
    <2>1. CASE p = q /\ i = e.item
      <3>1. e \in Passed(i, n + 1)
        BY <1>0, <1>1, <2>1 DEF Passed
      <3>2. \A f \in Passed(i, n + 1) : f.sequence <= e.sequence
        BY <1>1 DEF Passed
      <3>3. projection'[p].owner[i] = e.to
        BY <1>0, <1>1, <2>1, TransferFields DEF Ownerships
      <3> QED
        BY <1>1, <2>1, <3>1, <3>2, <3>3 DEF OwnerAt
    <2>2. CASE p = q /\ i # e.item
      <3>1. Passed(i, n + 1) = Passed(i, n)
        BY <1>0, <1>2, <2>2 DEF Passed
      <3>2. projection'[p].owner[i] = projection[q].owner[i]
        BY <1>0, <1>1, <2>2 DEF Ownerships
      <3>3. OwnerAt(i, n, projection[q].owner[i])
        BY DEF ProjectionInv, OwnerIsNewest
      <3> QED
        BY <1>1, <2>2, <3>1, <3>2, <3>3 DEF OwnerAt
    <2>3. CASE p # q
      BY <1>1, <2>3 DEF ProjectionInv, OwnerIsNewest
    <2> QED
      BY <2>1, <2>2, <2>3
  <1>7. OwnersChain'
    <2> SUFFICES ASSUME NEW p \in Projectors,
                        NEW x \in events, x.sequence <= projection'[p].last,
                        NEW y \in events, y.sequence <= projection'[p].last,
                        x.item = y.item, x.sequence < y.sequence,
                        ~ \E g \in events : /\ g.item = x.item
                                            /\ x.sequence < g.sequence
                                            /\ g.sequence < y.sequence
                 PROVE  y.from = x.to
      BY <1>1 DEF OwnersChain
    <2>1. CASE p # q
      BY <1>1, <2>1 DEF ProjectionInv, OwnersChain
    <2>2. CASE p = q /\ y # e
      <3>1. y.sequence <= n /\ x.sequence <= n
        BY <1>0, <1>1, <1>2, <2>2
      <3> QED
        BY <3>1 DEF ProjectionInv, OwnersChain
    <2>3. CASE p = q /\ y = e
      <3>1. x \in Passed(e.item, n)
        BY <1>0, <1>1, <1>2, <2>3 DEF Passed
      <3>2. e.item \in Items
        BY <1>0, TransferFields
      <3>3. PICK f \in Passed(e.item, n) :
                /\ projection[q].owner[e.item] = f.to
                /\ \A g \in Passed(e.item, n) : g.sequence <= f.sequence
        BY <3>1, <3>2 DEF ProjectionInv, OwnerIsNewest, OwnerAt
      <3>4. f \in events /\ f.item = e.item /\ f.sequence <= n
        BY DEF Passed
      <3>5. ~(x.sequence < f.sequence)
        BY <1>0, <1>1, <1>2, <2>3, <3>4
      <3>6. x.sequence = f.sequence
        BY <1>2, <3>1, <3>3, <3>4, <3>5
      <3>7. x = f
        BY <3>4, <3>6 DEF ProjectionInv, NumbersUnique
      <3> QED
        BY <1>1, <2>3, <3>3, <3>7
    <2> QED
      BY <2>1, <2>2, <2>3
  <1> QED
    BY <1>3, <1>4, <1>5, <1>6, <1>7 DEF ProjectionInv

LEMMA ProjectionNextInv == ProjectionInv /\ [ProjectionNext]_projectionVars => ProjectionInv'
  <1> SUFFICES ASSUME ProjectionInv, [ProjectionNext]_projectionVars PROVE ProjectionInv'
    OBVIOUS
  <1>1. CASE UNCHANGED projectionVars
    BY <1>1 DEF projectionVars, ProjectionInv, ProjectionTypeOK, NumbersUnique, NoGapBehind,
       OwnerIsNewest, OwnerAt, Passed, OwnersChain
  <1>2. CASE \E e \in Transfers : RecordTransfer(e)
    BY <1>2, RecordStep
  <1>3. CASE \E q \in Projectors : Rebuild(q)
    BY <1>3, RebuildStep
  <1>4. CASE \E q \in Projectors : \E e \in events : Project(q, e)
    BY <1>4, ProjectStep
  <1> QED
    BY <1>1, <1>2, <1>3, <1>4 DEF ProjectionNext

(* Two newest transfers of an item up to one number are one. *)
LEMMA OwnerDetermined ==
    ASSUME ProjectionInv, NEW i \in Items, NEW n \in Nat, NEW o, NEW u,
           OwnerAt(i, n, o), OwnerAt(i, n, u)
    PROVE  o = u
  <1>1. CASE Passed(i, n) = {}
    BY <1>1 DEF OwnerAt
  <1>2. CASE Passed(i, n) # {}
    <2>1. PICK e \in Passed(i, n) : o = e.to /\ \A f \in Passed(i, n) : f.sequence <= e.sequence
      BY <1>2 DEF OwnerAt
    <2>2. PICK f \in Passed(i, n) : u = f.to /\ \A g \in Passed(i, n) : g.sequence <= f.sequence
      BY <1>2 DEF OwnerAt
    <2>3. e \in events /\ f \in events /\ e.sequence \in Nat /\ f.sequence \in Nat
      BY TransferFields DEF Passed, ProjectionInv, ProjectionTypeOK
    <2>4. e.sequence = f.sequence
      BY <2>1, <2>2, <2>3
    <2> QED
      BY <2>1, <2>2, <2>3, <2>4 DEF ProjectionInv, NumbersUnique
  <1> QED
    BY <1>1, <1>2

LEMMA InvAgree == ProjectionInv => ProjectorsAgree
  <1> SUFFICES ASSUME ProjectionInv, NEW p \in Projectors, NEW q \in Projectors,
                      projection[p].last = projection[q].last
               PROVE  projection[p].owner = projection[q].owner
    BY DEF ProjectorsAgree
  <1>1. projection[p].owner \in Ownerships /\ projection[q].owner \in Ownerships
    BY StateFields DEF ProjectionInv
  <1>2. \A i \in Items : projection[p].owner[i] = projection[q].owner[i]
    <2> TAKE i \in Items
    <2>1. projection[p].last \in Nat
      BY StateFields DEF ProjectionInv
    <2>2. /\ OwnerAt(i, projection[p].last, projection[p].owner[i])
          /\ OwnerAt(i, projection[p].last, projection[q].owner[i])
      BY DEF ProjectionInv, OwnerIsNewest
    <2> QED
      BY <2>1, <2>2, OwnerDetermined
  <1> QED
    BY <1>1, <1>2 DEF Ownerships

-------------------------------------------------------------------------------

LEMMA ProjectionInvariant == ProjectionSpec => []ProjectionInv
  <1>1. ProjectionInit => ProjectionInv
    BY ProjectionInitInv
  <1>2. ProjectionInv /\ [ProjectionNext]_projectionVars => ProjectionInv'
    BY ProjectionNextInv
  <1> QED
    BY <1>1, <1>2, PTL DEF ProjectionSpec

(* project_item_transfer (events.py:33-49) is deterministic: whatever order, repetition *)
(* and restarts a projector has seen, its last number determines the owner of every item. *)
THEOREM ProjectionsAreDetermined == ProjectionSpec => []ProjectorsAgree
  <1>1. ProjectionInv => ProjectorsAgree
    BY InvAgree
  <1> QED
    BY <1>1, ProjectionInvariant, PTL

(* Because the owner is compared (events.py:41), every projected transfer of an item    *)
(* starts where the one before it ended, also for the events recorded late.             *)
THEOREM TransfersChain == ProjectionSpec => []OwnersChain
  <1>1. ProjectionInv => OwnersChain
    BY DEF ProjectionInv
  <1> QED
    BY <1>1, ProjectionInvariant, PTL

-------------------------------------------------------------------------------
(***************************************************************************)
(* The length policy agrees with itself after rounding for every target    *)
(* from 100 up and every length.  Rounding moves a quotient by a half at   *)
(* most, and the exact limits of such a target lie at least one apart.     *)
(***************************************************************************)

(* Rounding moves a quotient by a half at most. *)
LEMMA RoundedWithinHalf ==
    ASSUME NEW n \in Nat, NEW d \in Nat \ {0}
    PROVE  /\ RoundedQuotient(n, d) \in Nat
           /\ 2 * (d * RoundedQuotient(n, d)) <= 2 * n + d
           /\ 2 * n <= 2 * (d * RoundedQuotient(n, d)) + d
  <1> DEFINE q == n \div d  r == n % d
  <1>1. q \in Nat /\ r \in 0 .. d - 1 /\ n = d * q + r
    OBVIOUS
  <1>2. CASE RoundedQuotient(n, d) = q /\ 2 * r <= d
    BY <1>1, <1>2
  <1>3. CASE RoundedQuotient(n, d) = q + 1 /\ 2 * r >= d
    <2>1. d * (q + 1) = d * q + d
      BY <1>1
    <2> QED
      BY <1>1, <1>3, <2>1
  <1>4. \/ RoundedQuotient(n, d) = q /\ 2 * r <= d
        \/ RoundedQuotient(n, d) = q + 1 /\ 2 * r >= d
    BY <1>1 DEF RoundedQuotient
  <1> QED
    BY <1>2, <1>3, <1>4

(* The five limits of a target in order, around the target. *)
LEMMA LimitsOrdered ==
    ASSUME NEW t \in Nat, t >= 100
    PROVE  /\ HardMinimum(t) \in Nat /\ ExpansionTrigger(t) \in Nat
           /\ PreferredMinimum(t) \in Nat /\ PreferredMaximum(t) \in Nat
           /\ HardMaximum(t) \in Nat
           /\ HardMinimum(t) < ExpansionTrigger(t)
           /\ ExpansionTrigger(t) < PreferredMinimum(t)
           /\ PreferredMinimum(t) < t
           /\ t < PreferredMaximum(t)
           /\ PreferredMaximum(t) < HardMaximum(t)
  <1>1. /\ HardMinimum(t) \in Nat
        /\ 2 * (2 * HardMinimum(t)) <= 2 * t + 2
    BY RoundedWithinHalf DEF HardMinimum
  <1>2. /\ ExpansionTrigger(t) \in Nat
        /\ 2 * (4 * ExpansionTrigger(t)) <= 2 * (3 * t) + 4
        /\ 2 * (3 * t) <= 2 * (4 * ExpansionTrigger(t)) + 4
    BY RoundedWithinHalf DEF ExpansionTrigger
  <1>3. /\ PreferredMinimum(t) \in Nat
        /\ 2 * (20 * PreferredMinimum(t)) <= 2 * (17 * t) + 20
        /\ 2 * (17 * t) <= 2 * (20 * PreferredMinimum(t)) + 20
    BY RoundedWithinHalf DEF PreferredMinimum
  <1>4. /\ PreferredMaximum(t) \in Nat
        /\ 2 * (5 * PreferredMaximum(t)) <= 2 * (6 * t) + 5
        /\ 2 * (6 * t) <= 2 * (5 * PreferredMaximum(t)) + 5
    BY RoundedWithinHalf DEF PreferredMaximum
  <1>5. /\ HardMaximum(t) \in Nat
        /\ 2 * (17 * t) <= 2 * (10 * HardMaximum(t)) + 10
    BY RoundedWithinHalf DEF HardMaximum
  <1> QED
    BY <1>1, <1>2, <1>3, <1>4, <1>5

LengthInv == draft \in Drafts /\ LengthPolicyAgrees

LEMMA LengthInitInv == LengthInit => LengthInv
  BY LengthAssumption DEF LengthInit, Draft, Drafts, Directions, LengthInv, LengthPolicyAgrees

(* A draft that is sent to a repair is on one side of every limit that matters. *)
LEMMA AskLengthRepairStep == LengthInv /\ AskLengthRepair => LengthInv'
  <1> SUFFICES ASSUME LengthInv, AskLengthRepair PROVE LengthInv'
    OBVIOUS
  <1> DEFINE t == draft.target  n == draft.length
  <1>1. t \in Nat /\ t >= 100 /\ n \in Nat
    BY LengthAssumption DEF LengthInv, Drafts
  <1>2. n < ExpansionTrigger(t) \/ n > HardMaximum(t)
    BY <1>1, LimitsOrdered DEF AskLengthRepair, ShouldExpand, IsSane
  <1>3. ~(PreferredMinimum(t) <= n /\ n <= PreferredMaximum(t))
    BY <1>1, <1>2, LimitsOrdered
  <1>4. n < t <=> n < ExpansionTrigger(t)
    BY <1>1, <1>2, LimitsOrdered
  <1>5. ~(n < t) <=> n > HardMaximum(t)
    BY <1>1, <1>2, LimitsOrdered
  <1>6. draft' = [target |-> t, length |-> n, step |-> "repairing",
                  direction |-> IF n < t THEN "EXPAND" ELSE "TRIM"]
    BY DEF AskLengthRepair, LengthInv, Drafts
  <1>7. draft' \in Drafts
    BY <1>6 DEF LengthInv, Drafts, Directions
  <1>8. LengthPolicyAgrees'
    BY <1>3, <1>4, <1>5, <1>6 DEF LengthPolicyAgrees
  <1> QED
    BY <1>7, <1>8 DEF LengthInv

LEMMA ReceiveRepairStep == LengthInv /\ ReceiveRepair => LengthInv'
  BY DEF ReceiveRepair, LengthInv, Drafts, LengthPolicyAgrees

(* A text in the preferred range is within the hard limits. *)
LEMMA JudgeLengthStep == LengthInv /\ JudgeLength => LengthInv'
  <1> SUFFICES ASSUME LengthInv, JudgeLength PROVE LengthInv'
    OBVIOUS
  <1> DEFINE t == draft.target  n == draft.length
  <1>1. t \in Nat /\ t >= 100 /\ n \in Nat
    BY LengthAssumption DEF LengthInv, Drafts
  <1>2. (PreferredMinimum(t) <= n /\ n <= PreferredMaximum(t)) => IsSane(t, n)
    BY <1>1, LimitsOrdered DEF IsSane
  <1>3. draft' = [target |-> t, length |-> n, direction |-> draft.direction,
                  step |-> IF IsSane(t, n) THEN "saved" ELSE "refused"]
    BY DEF JudgeLength, LengthInv, Drafts
  <1>4. draft' \in Drafts
    BY <1>3 DEF LengthInv, Drafts
  <1>5. LengthPolicyAgrees'
    BY <1>2, <1>3 DEF LengthPolicyAgrees
  <1> QED
    BY <1>4, <1>5 DEF LengthInv

(* For every target the API admits, rounding the five limits separately never makes     *)
(* them contradict each other or the direction of a repair (prose_length.py:17-41).      *)
THEOREM LengthPolicySound == LengthSpec => []LengthPolicyAgrees
  <1>1. LengthInv /\ [LengthNext]_draft => LengthInv'
    <2> SUFFICES ASSUME LengthInv, [LengthNext]_draft PROVE LengthInv'
      OBVIOUS
    <2>1. CASE draft' = draft
      BY <2>1 DEF LengthInv, LengthPolicyAgrees
    <2> QED
      BY <2>1, AskLengthRepairStep, ReceiveRepairStep, JudgeLengthStep DEF LengthNext
  <1>2. LengthInv => LengthPolicyAgrees
    BY DEF LengthInv
  <1> QED
    BY <1>1, <1>2, LengthInitInv, PTL DEF LengthSpec

===============================================================================

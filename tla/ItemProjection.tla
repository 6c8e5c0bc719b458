---------------------------- MODULE ItemProjection -----------------------------
(***************************************************************************)
(* The projection of item transfers (project_item_transfer of              *)
(* domain/events.py) over the events of one work.  A work's events carry   *)
(* sequence numbers that the table story_events keeps unique; which events *)
(* are recorded, and when, is up to a writer the repository does not have  *)
(* yet, so any transfer may be recorded under any free number.  Projectors *)
(* get the events of the work in any order, any number of times, and may   *)
(* be started again from the empty state.                                  *)
(***************************************************************************)
EXTENDS Naturals

CONSTANTS
    Items,
    Owners,
    Nobody,         \* None, the owner of an item that nobody has yet
    Projectors,     \* states that are projected from the events
    MaxSequence     \* bound: the highest sequence number

ASSUME ProjectionAssumption == Nobody \notin Owners /\ MaxSequence \in Nat

VARIABLES
    events,         \* the recorded ItemTransferred events
    projection      \* projection[q]: the ItemOwnershipState of projector q

projectionVars == <<events, projection>>

-------------------------------------------------------------------------------
(* State *)

(* What __post_init__ lets pass: a number from 1 up and a change of owner. *)
Transfers == {e \in [item : Items, from : Owners \cup {Nobody}, to : Owners,
                     sequence : 1 .. MaxSequence] : e.from # e.to}

Ownerships == [Items -> Owners \cup {Nobody}]

ItemOwnershipStates == [owner : Ownerships, last : Nat]

NoOwnership == [owner |-> [i \in Items |-> Nobody], last |-> 0]

(* Fault: the unique constraint below is missing. *)
SequenceUnchecked(n) == TRUE

(* The unique constraint on (work_id, sequence). *)
SequenceFree(n) == \A e \in events : e.sequence # n

-------------------------------------------------------------------------------
(* Actions *)

RecordTransfer(e) ==
    /\ SequenceFree(e.sequence)
    /\ events' = events \cup {e}
    /\ UNCHANGED projection

(* Fault: the owner is not compared. *)
AnyOwner(state, e) == TRUE

(* The number expected next, and the owner the event expects. *)
NextInSequence(state, e) == e.sequence = state.last + 1
OwnerMatches(state, e) == state.owner[e.item] = e.from

(* The new state; the prior one is not changed. *)
Projected(state, e) == [owner |-> [state.owner EXCEPT ![e.item] = e.to], last |-> e.sequence]

(* project_item_transfer; an event out of sequence or of another owner raises and leaves *)
(* the state as it is.                                                                    *)
Project(q, e) ==
    /\ NextInSequence(projection[q], e)
    /\ OwnerMatches(projection[q], e)
    /\ projection' = [projection EXCEPT ![q] = Projected(@, e)]
    /\ UNCHANGED events

(* A projector starts from ItemOwnershipState() and the first event again. *)
Rebuild(q) ==
    /\ projection' = [projection EXCEPT ![q] = NoOwnership]
    /\ UNCHANGED events

ProjectionInit ==
    /\ events = {}
    /\ projection = [q \in Projectors |-> NoOwnership]

ProjectionNext ==
    \/ \E e \in Transfers : RecordTransfer(e)
    \/ \E q \in Projectors : Rebuild(q) \/ \E e \in events : Project(q, e)

ProjectionSpec == ProjectionInit /\ [][ProjectionNext]_projectionVars

-------------------------------------------------------------------------------
(* Properties *)

(* Two projectors that have come to the same number have the same owners, in whatever   *)
(* order and how often each has seen the events (events.py:33-49, "deterministic and    *)
(* non-mutating" in tests/domain/test_events.py:13).                                     *)
ProjectorsAgree ==
    \A p, q \in Projectors :
        projection[p].last = projection[q].last => projection[p].owner = projection[q].owner

(* No transfer in a projection comes from somebody who did not own the item then: of two *)
(* projected transfers of an item with none between them the second starts where the     *)
(* first ended (docs/CORE_DATA_MODEL.md:1065).                                            *)
OwnersChain ==
    \A q \in Projectors : \A e, f \in {g \in events : g.sequence <= projection[q].last} :
        (/\ e.item = f.item /\ e.sequence < f.sequence
         /\ ~ \E g \in events : /\ g.item = e.item
                                /\ e.sequence < g.sequence /\ g.sequence < f.sequence)
            => f.from = e.to
===============================================================================

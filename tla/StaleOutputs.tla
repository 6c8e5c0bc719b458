----------------------------- MODULE StaleOutputs ------------------------------
(***************************************************************************)
(* find_invalidated_outputs of domain/workflows.py: the outputs that       *)
(* changed inputs make stale, directly and through other outputs, found    *)
(* with a queue.  The sets of the code are iterated in any order, so what  *)
(* one input makes stale joins the queue in any order.  Dependencies and   *)
(* changes are chosen in the initial state: any graph, cycles included,    *)
(* and any list of changes, repetitions included.                          *)
(***************************************************************************)
EXTENDS Naturals, Sequences, FiniteSets

CONSTANTS
    Hashes,         \* hashes of artifacts
    ChangeLists     \* the lists of changed hashes a caller passes

ASSUME HashesAssumption == /\ IsFiniteSet(Hashes)
                           /\ ChangeLists \subseteq Seq(Hashes)

VARIABLES
    dependencies,   \* the ArtifactDependency pairs <<input_hash, output_hash>>
    changed,        \* changed_hashes, as a set
    queue,          \* queue
    visited,        \* visited_inputs
    invalidated     \* invalidated

inputVars == <<dependencies, changed>>
staleVars == <<dependencies, changed, queue, visited, invalidated>>

Listed(s) == {s[i] : i \in DOMAIN s}

(* downstream[h]. *)
Downstream(h) == {g \in Hashes : <<h, g>> \in dependencies}

StaleInit ==
    /\ dependencies \in SUBSET (Hashes \X Hashes)
    /\ queue \in ChangeLists
    /\ changed = Listed(queue)
    /\ visited = {}
    /\ invalidated = {}

-------------------------------------------------------------------------------
(* The work-list *)

(* Orders of a finite set. *)
Orders(S) == {s \in [1 .. Cardinality(S) -> S] : Listed(s) = S}

(* Fault: an output that has changed itself is taken for one that has been found. *)
NewUnlessChanged(h) == Downstream(h) \ (invalidated \cup changed)

(* The outputs of h that are not known to be stale yet. *)
New(h) == Downstream(h) \ invalidated

(* An input that was visited before is skipped ... *)
SkipVisited ==
    /\ queue # <<>>
    /\ Head(queue) \in visited
    /\ queue' = Tail(queue)
    /\ UNCHANGED <<inputVars, visited, invalidated>>

(* ... and the outputs of another one join the queue. *)
VisitInput ==
    /\ queue # <<>>
    /\ Head(queue) \notin visited
    /\ visited' = visited \cup {Head(queue)}
    /\ invalidated' = invalidated \cup New(Head(queue))
    /\ \E s \in Orders(New(Head(queue))) : queue' = Tail(queue) \o s
    /\ UNCHANGED inputVars

StaleNext == SkipVisited \/ VisitInput

StaleSpec == StaleInit /\ [][StaleNext]_staleVars

-------------------------------------------------------------------------------
(* Properties *)

(* C holds every output of a changed input and of each of its own members. *)
Closed(C) == \A d \in dependencies : d[1] \in changed \cup C => d[2] \in C

(* The reference definition: the least closed set, what can be reached from a change. *)
DirectAndTransitive == {h \in Hashes : \A C \in SUBSET Hashes : Closed(C) => h \in C}

(* When the queue is empty, exactly the direct and transitive outputs of the changes are *)
(* stale: none is missed on a cycle, behind a repeated change or when a change is itself *)
(* an output (workflows.py:94-115, "all direct and transitive outputs").                 *)
ExactlyStale == queue = <<>> => invalidated = DirectAndTransitive
===============================================================================

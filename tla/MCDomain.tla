------------------------------- MODULE MCDomain --------------------------------
(* The three algorithms of the domain package, each in behaviours of its own: where one  *)
(* of them has an input, the others have none.                                            *)
EXTENDS StaleOutputs, ItemProjection, ProseLength

VARIABLE algorithm

const_ChangeLists == UNION {[1 .. k -> Hashes] : k \in 0 .. 2}

(* Targets modulo 20 decide every rounding. *)
const_Targets == 100 .. 119
const_Lengths == 0 .. 205

domainVars == <<staleVars, projectionVars, draft, algorithm>>

StaleIdle == dependencies = {} /\ changed = {} /\ queue = <<>> /\ visited = {} /\ invalidated = {}
LengthIdle == draft = Draft(100, 100, "NONE", "saved")

DomainInit ==
    \/ algorithm = "stale" /\ StaleInit /\ ProjectionInit /\ LengthIdle
    \/ algorithm = "items" /\ StaleIdle /\ ProjectionInit /\ LengthIdle
    \/ algorithm = "length" /\ StaleIdle /\ ProjectionInit /\ LengthInit

DomainNext ==
    \/ algorithm = "stale" /\ StaleNext /\ UNCHANGED <<projectionVars, draft, algorithm>>
    \/ algorithm = "items" /\ ProjectionNext /\ UNCHANGED <<staleVars, draft, algorithm>>
    \/ algorithm = "length" /\ LengthNext /\ UNCHANGED <<staleVars, projectionVars, algorithm>>

DomainSpec == DomainInit /\ [][DomainNext]_domainVars
===============================================================================

\* Every graph of three hashes with every list of up to two changes; two projectors of two items;
\* twenty targets. The algorithms end, so the system may stop.
CONSTANTS
    Hashes = {h1, h2, h3}
    ChangeLists <- const_ChangeLists
    Items = {i1, i2}
    Owners = {o1, o2}
    Nobody = Nobody
    Projectors = {q1, q2}
    MaxSequence = 4
    Targets <- const_Targets
    Lengths <- const_Lengths
SPECIFICATION DomainSpec
INVARIANTS ExactlyStale ProjectorsAgree OwnersChain LengthPolicyAgrees
CHECK_DEADLOCK FALSE

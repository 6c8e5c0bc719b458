\* Two workers of one run; the second model call may outlive the lease.
CONSTANTS
    Chapters = {c1}
    Pages = {}
    Runs = {r1}
    Texts = {t1}
    CleanTexts = {t1}
    Briefs = {}
    Nothing = Nothing
    MaxRevisions = 2
    MaxVersion = 3
    Callers = {a1, a2}
    Workers = {w1, w2, w3}
    Keys = {k1}
SPECIFICATION GenerationSpec
INVARIANTS NoSecondStart
CHECK_DEADLOCK FALSE

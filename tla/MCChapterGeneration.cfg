\* A page edits and publishes while two runs are generated; any live worker
\* may outlive its lease.
CONSTANTS
    Chapters = {c1}
    Pages = {p1}
    Runs = {r1, r2}
    Texts = {t1}
    CleanTexts = {t1}
    Briefs = {}
    Nothing = Nothing
    MaxRevisions = 2
    MaxVersion = 4
    Callers = {a1}
    Workers = {w1, w2}
    Keys = {k1, k2}
SPECIFICATION GenerationSpec
INVARIANTS GenerationTypeOK ExclusiveClaim OneCandidatePerRun StepsAgreeWithRun
           NoFakeSuccess GeneratingHasRun
PROPERTIES LedgerSpec RunFollowsTable
SYMMETRY Symmetry

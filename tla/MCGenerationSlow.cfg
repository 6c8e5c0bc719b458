\* Two callers race; a live worker may outlive its lease in every phase.
\* A run that awaits review and asks nothing more is a legitimate end.
CONSTANTS
    Chapters = {c1}
    Pages = {}
    Runs = {r1, r2}
    Texts = {t1}
    CleanTexts = {t1}
    Briefs = {b1}
    Nothing = Nothing
    MaxRevisions = 2
    MaxVersion = 2
    Callers = {a1, a2}
    Workers = {w1, w2}
    Keys = {k1, k2}
SPECIFICATION FairGenerationSpec
INVARIANTS OneRunPerKey
PROPERTIES EveryRunEndsOrCanResume
CHECK_DEADLOCK FALSE

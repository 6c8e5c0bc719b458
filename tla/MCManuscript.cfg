\* Two pages on the two chapters of one work: older revisions are published again,
\* numbers are taken.  Both texts pass the gate; MCManuscriptLive has one that does not.
CONSTANTS
    Chapters = {c1, c2}
    Pages = {p1, p2}
    Runs = {}
    Texts = {t1, t2}
    CleanTexts = {t1, t2}
    Briefs = {b1}
    Nothing = Nothing
    MaxRevisions = 3
    MaxVersion = 5
SPECIFICATION Spec
INVARIANTS TypeOK LockedRowsAreCurrent CommitLedger CanonicalRevision
PROPERTIES VersionCountsChanges  LedgerSpec
SYMMETRY Symmetry

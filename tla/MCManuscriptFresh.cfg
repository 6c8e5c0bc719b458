\* A page publishes an older revision, then a page with the current row saves.
CONSTANTS
    Chapters = {c1}
    Pages = {p1, p2}
    Runs = {}
    Texts = {t1, t2}
    CleanTexts = {t1}
    Briefs = {b1}
    Nothing = Nothing
    MaxRevisions = 3
    MaxVersion = 5
SPECIFICATION Spec
INVARIANTS FreshPageCanSave

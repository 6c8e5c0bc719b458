\* Fair requests, without symmetry.
CONSTANTS
    Chapters = {c1, c2}
    Pages = {p1, p2}
    Runs = {}
    Texts = {t1, t2}
    CleanTexts = {t1}
    Briefs = {b1}
    Nothing = Nothing
    MaxRevisions = 2
    MaxVersion = 3
SPECIFICATION FairSpec
PROPERTIES EveryRequestEnds

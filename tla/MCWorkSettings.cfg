\* Two pages save settings while two chapters are created and one is published.
CONSTANTS
    Pages = {p1, p2}
    Creators = {a1, a2}
    Plans = {s1, s2}
    NewWorkPlan = s1
    Nothing = Nothing
    Named = {2}
    MaxChapters = 2
    MaxVersion = 3
SPECIFICATION WorkSpec
INVARIANTS WorkTypeOK ChapterNumbersUnique
PROPERTIES AcceptedSaveKnewPlan
SYMMETRY Symmetry
CHECK_DEADLOCK FALSE

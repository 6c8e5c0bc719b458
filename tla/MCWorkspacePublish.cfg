\* One chapter: the answer of a save is read after another page's save.
SPECIFICATION WorkspaceSpec
CONSTANTS
    c1 = c1
    c2 = c2
    h1 = h1
    h2 = h2
    NoChapter = NoChapter
    Chapters <- const_OneChapter
    Handlers <- const_Handlers
    MaxRevisions = 2
    MaxChanges = 3
INVARIANTS
    PublishedTextWasShown
CHECK_DEADLOCK FALSE

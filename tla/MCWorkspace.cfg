\* Two chapters, so that answers arrive after the author has turned to the other one.
\* The bounds stop the service and the author, so the system may stop.
SPECIFICATION WorkspaceSpec
CONSTANTS
    c1 = c1
    c2 = c2
    h1 = h1
    h2 = h2
    NoChapter = NoChapter
    Chapters <- const_Chapters
    Handlers <- const_Handlers
    MaxRevisions = 2
    MaxChanges = 2
SYMMETRY const_Symmetry
INVARIANTS
    WorkspaceTypeOK
    TextStaysInItsChapter
PROPERTIES
    UnsavedNotDropped
CHECK_DEADLOCK FALSE

----------------------------- MODULE MCWorkspace -----------------------------
EXTENDS Workspace, TLC

CONSTANTS c1, c2, h1, h2

const_Chapters == {c1, c2}
const_OneChapter == {c1}
const_Handlers == {h1, h2}

const_Symmetry == Permutations(const_Chapters) \cup Permutations(const_Handlers)
===============================================================================

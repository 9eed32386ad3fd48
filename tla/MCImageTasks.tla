---------------------------- MODULE MCImageTasks ----------------------------
EXTENDS ImageTasks, TLC

CONSTANTS k1, k2, p1, p2, j1, j2, j3

MCKey == {k1, k2}
MCPrompt == {p1, p2}
MCPrompt1 == {p1}
MCJob == {j1, j2, j3}
MCSymmetry == Permutations(MCKey) \cup Permutations(MCPrompt) \cup Permutations(MCJob)
=============================================================================

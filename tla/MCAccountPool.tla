--------------------------- MODULE MCAccountPool ---------------------------
EXTENDS AccountPool, TLC

CONSTANTS t1, t2, t3, r1, r2, r3

MCTokens == {t1, t2, t3}
MCOne == {t1}
MCTwo == {t1, t2}
MCRequests == {r1, r2}
MCRequests3 == {r1, r2, r3}
MCSymmetry == Permutations({r1, r2, r3})
MCNone == {}
MCPaired == {"result", "retry", "invalid"}
MCProgress == {"result", "progress"}
MCAll == {"result", "progress", "invalid"}
MCPlain == {"result", "error"}
=============================================================================

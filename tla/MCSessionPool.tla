--------------------------- MODULE MCSessionPool ---------------------------
EXTENDS SessionPool, TLC

CONSTANTS k1, k2, s1, s2, s3, u1, u2, u3

MCKey == {k1, k2}
MCKey1 == {k1}
MCSession == {s1, s2, s3}
MCUser == {u1, u2, u3}
MCUser2 == {u1, u2}
MCSymmetry == Permutations(MCSession) \cup Permutations(MCUser) \cup Permutations(Key)
=============================================================================

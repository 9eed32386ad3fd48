----------------------- MODULE MCChatCompletionCache -----------------------
EXTENDS ChatCompletionCache, TLC

CONSTANTS r1, r2, r3, r4, k1, k2, w1, w2

MCRequest == {r1, r2, r3}
MCRequest4 == {r1, r2, r3, r4}
MCNone == {}
MCKey == {k1, k2}
MCKeyOf == [r \in Request |-> IF r \in {r3} THEN k2 ELSE k1]
MCThread == {w1, w2}
MCSymmetry == Permutations(MCThread)
=============================================================================

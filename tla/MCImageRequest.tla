---------------------------- MODULE MCImageRequest ----------------------------
EXTENDS ImageRequest, TLC

CONSTANTS a1, a2, f1, f2

MCAccount == {a1, a2}
MCFile == {f1}
MCFile2 == {f1, f2}
MCSymmetry == Permutations({a1, a2}) \cup Permutations({f1, f2})
=============================================================================

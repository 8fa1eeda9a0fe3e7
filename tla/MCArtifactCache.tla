--------------------------- MODULE MCArtifactCache ---------------------------
EXTENDS ArtifactCache, TLC

CacheSymmetry == Permutations(Procs) \cup Permutations(Digests)
=============================================================================

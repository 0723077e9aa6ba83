----------------------------- MODULE MCPayload -----------------------------
EXTENDS Payload, TLC

\* Two versions of the patches, which nothing tells apart but their names.
CONSTANTS v1, v2
MCVersions == {v1, v2}
Symmetry == Permutations(MCVersions)
=============================================================================

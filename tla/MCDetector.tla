----------------------------- MODULE MCDetector -----------------------------
\* The detector on a small instance: targets are interchangeable.
EXTENDS OutageReport

Symmetry == Permutations(Target)
=============================================================================

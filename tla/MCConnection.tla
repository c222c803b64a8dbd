---------------------------- MODULE MCConnection ----------------------------
\* Instances of Connection for TLC.
EXTENDS Connection, TLC

\* Requests are interchangeable: safety runs only.
RequestSymmetry == Permutations(Requests)
=============================================================================

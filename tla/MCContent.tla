----------------------------- MODULE MCContent ------------------------------
\* A small instance of Content for TLC.
EXTENDS Content, TLC

Symmetry == Permutations(Requests) \cup Permutations(Ids)
=============================================================================

---------------------------- MODULE MCSettings -----------------------------
\* A small instance of Settings for TLC.
EXTENDS Settings, TLC

Symmetry == Permutations(Requests)
=============================================================================

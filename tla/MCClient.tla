------------------------------ MODULE MCClient ------------------------------
\* A small instance of Client for TLC.  No symmetry: the run checks liveness.
EXTENDS Client
=============================================================================

------------------------------ MODULE MCSync -------------------------------
\* Small instances of Sync for TLC.
EXTENDS Sync, TLC

CONSTANTS u1, u2, s1, s2

OneUser == [s \in Sids |-> u1]
TwoUsers == [s \in Sids |-> IF s = s1 THEN u1 ELSE u2]

Symmetry == Permutations(Conns) \cup Permutations(Tickets) \cup Permutations(Vaults)
=============================================================================

-------------------------- MODULE MCEditionVersions --------------------------
\* Requests of every kind, each called twice, at once or one call after the other.
EXTENDS EditionVersions, TLC

Symmetry == Permutations(Requests) \cup Permutations(Attempts)
===============================================================================

---------------------------- MODULE MCUrlRegistry ----------------------------
\* The records of one edition, its addresses renamed by two editors at a time.
EXTENDS UrlRegistry, TLC

Symmetry == Permutations(Paths) \cup Permutations(Renames)
===============================================================================

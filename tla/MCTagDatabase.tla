---------------------------- MODULE MCTagDatabase ----------------------------
EXTENDS TagDatabase, TLC

Symmetric == Permutations(Thread) \cup Permutations(Name)
=============================================================================

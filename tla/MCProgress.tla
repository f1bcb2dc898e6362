------------------------------ MODULE MCProgress ------------------------------
\* Users are alike, and so are delegates.
EXTENDS Progress, TLC

Alike == Permutations(Users) \cup Permutations(Delegates)
=============================================================================

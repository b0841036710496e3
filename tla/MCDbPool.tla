------------------------------- MODULE MCDbPool -------------------------------
\* The pool for TLC: the threads of the process are interchangeable.
EXTENDS DbPool, TLC
Perms == Permutations(Threads)
=============================================================================

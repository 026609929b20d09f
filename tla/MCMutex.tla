------------------------------ MODULE MCMutex -------------------------------
EXTENDS MutexRefinement
Symmetry == Permutations(Coros) \cup Permutations(Syncs)
=============================================================================

------------------------- MODULE MCThreadSemaphore -------------------------
(* Model-checking instance of ThreadSemaphore: two threads.               *)
EXTENDS ThreadSemaphore, TLC

CONSTANTS t1, t2

MCThreads == {t1, t2}
ThreadSymmetry == Permutations(MCThreads)
=============================================================================

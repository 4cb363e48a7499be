---------------------------- MODULE MCSemaphore ----------------------------
(* Model-checking instance of Semaphore: threads as model values.         *)
EXTENDS Semaphore, TLC

CONSTANTS t1, t2, t3

MCThreads == {t1, t2, t3}

\* Two threads: a waiter and a signaller, for the liveness runs.
MCThreads2 == {t1, t2}

\* Threads are interchangeable: every action is quantified over Threads.
\* Used only by the safety runs (symmetry is unsound for liveness).
ThreadSymmetry == Permutations(MCThreads)
=============================================================================

------------------------------ MODULE MCGroup ------------------------------
(* Model-checking instance of Group: three threads, two or three nodes.   *)
EXTENDS Group, TLC

CONSTANTS t1, t2, t3, n1, n2, n3

MCThreads == {t1, t2, t3}
MCNodes2 == {n1, n2}
MCNodes3 == {n1, n2, n3}
MCNoNodes == {}
MCThreads2 == {t1, t2}

\* Threads are interchangeable (safety runs only).
ThreadSymmetry == Permutations(MCThreads)
=============================================================================

--------------------------- MODULE MCMainThreadFind ---------------------------
(* Model-checking instance of MainThreadFind: two thread ids.             *)
EXTENDS MainThreadFind

MCTids == {1, 2}
=============================================================================

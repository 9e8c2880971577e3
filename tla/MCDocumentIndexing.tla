------------------------- MODULE MCDocumentIndexing -------------------------
(* DocumentIndexing with interchangeable jobs for TLC.                     *)
EXTENDS DocumentIndexing, TLC

Symmetry == Permutations(Job)
=============================================================================

------------------------ MODULE MCKnowledgeDocuments ------------------------
(* KnowledgeDocuments with interchangeable requests for TLC.               *)
EXTENDS KnowledgeDocuments, TLC

Symmetry == Permutations(Task)
=============================================================================

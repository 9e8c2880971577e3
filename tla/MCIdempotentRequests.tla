------------------------ MODULE MCIdempotentRequests ------------------------
(* IdempotentRequests on small instances.                                  *)
EXTENDS IdempotentRequests, TLC
=============================================================================

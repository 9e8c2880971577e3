------------------------- MODULE MCAuthSessions -------------------------
(* Two requests at a time of one client; an address typed in two ways and  *)
(* a password typed with white space around it.                            *)
EXTENDS AuthSessions, TLC

CONSTANTS r1, r2, lower, mixed, pw, padded, n1, n2

MCFold == (lower :> lower) @@ (mixed :> lower)
MCStrip == (pw :> pw) @@ (padded :> pw)
Symmetry == Permutations(Requests)
=============================================================================

----------------------------- MODULE RedisStore -----------------------------
(***************************************************************************)
(* One Redis key as RedisClient (services/cache/redis.py) uses it.  An     *)
(* entry is a value and the ticks it has to live; every operator gives the *)
(* entry a command leaves behind, and a command is atomic (a single SET or *)
(* one Lua script).                                                        *)
(***************************************************************************)
EXTENDS Naturals

CONSTANT NoValue

Missing == [value |-> NoValue, left |-> 0]

Present(e) == e.left > 0

\* SET EX, SET EX NX.
SetText(v, ttl)        == [value |-> v, left |-> ttl]
SetIfAbsent(e, v, ttl) == IF Present(e) THEN e ELSE SetText(v, ttl)

\* The compare-and-delete and compare-and-extend scripts.
DeleteIfValue(e, v)      == IF e.value = v THEN Missing ELSE e
ExtendIfValue(e, v, ttl) == IF e.value = v THEN [e EXCEPT !.left = ttl] ELSE e

\* Mutant: every increment sets the expiration.
IncrementRenewing(e, ttl, cap) ==
    SetText(IF e.value < cap THEN e.value + 1 ELSE cap, ttl)

\* The increment script: only the increment that creates the counter sets its
\* expiration.  Counts above cap are not told apart.
IncrementWithTtl(e, ttl, cap) ==
    IF Present(e) THEN [e EXCEPT !.value = IF @ < cap THEN @ + 1 ELSE cap]
    ELSE SetText(1, ttl)

\* A RedisError says nothing about whether the command was applied.
Attempted(before, after) == {before, after}

\* Mutant: an entry outlives its last tick.
ElapsedLate(e) == IF e.left = 0 THEN Missing ELSE [e EXCEPT !.left = @ - 1]

\* A tick passes.
Elapsed(e) == IF e.left <= 1 THEN Missing ELSE [e EXCEPT !.left = @ - 1]
=============================================================================

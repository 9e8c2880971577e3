------------------------- MODULE IdempotentRequests -------------------------
(***************************************************************************)
(* POST /research-runs and /research-runs/jobs (api/research.py) in front  *)
(* of IdempotentResearchExecutionService (services/research/idempotency.py)*)
(* and the tenant's rate limiter: Redis holds the completed record and the *)
(* coordination lock of every Idempotency-Key and the tenant's counter.    *)
(*                                                                         *)
(* pc names the await a request is about to perform.  One tenant: every    *)
(* key of these stores begins with the tenant (cache/keys.py).  A lock's   *)
(* owner token is fresh in the code (uuid4); here it is the request        *)
(* itself, which never acquires while an older lock of its own is left.    *)
(***************************************************************************)
EXTENDS Naturals

CONSTANTS
    Request,      \* HTTP requests in progress at once
    Key,          \* Idempotency-Key values
    Payload,      \* what is asked: query, provider, user, document_ids
    RunId,        \* research_runs ids; one that nothing refers to is fresh
    LockTTL,      \* redis_research_idempotency_lock_ttl_seconds, in ticks
    RecordTTL,    \* redis_research_idempotency_ttl_seconds, in ticks
    Window,       \* redis_research_rate_limit_window_seconds, in ticks
    Allowance,    \* redis_research_rate_limit_requests
    None,         \* no value, no response
    Fault         \* which of AnyFault the environment may do

AnyFault == {"redis",   \* a Redis command raises RedisError
             "slow",    \* a request or its heartbeat is later than the lock's TTL
             "work",    \* the execution raises an exception
             "crash"}   \* the process serving a request dies

NoKey == "no key"

ASSUME RequestsAssumption == /\ LockTTL \in Nat \ {0}
                             /\ RecordTTL \in Nat \ {0}
                             /\ Window \in Nat \ {0}
                             /\ Allowance \in Nat \ {0}
                             /\ None \notin Request /\ NoKey \notin Key
                             /\ Fault \subseteq AnyFault

\* Whatever runs the records and the requests refer to, a uuid4 is left.
ASSUME FreshRunAssumption ==
    \A f \in [Key -> RunId \cup {None}], g \in [Request -> RunId \cup {None}] :
        \E run \in RunId : (\A k \in Key : f[k] # run) /\ (\A i \in Request : g[i] # run)

VARIABLES
    record,    \* key -> entry: the completed response
    lock,      \* key -> entry: the request that acquired it
    window,    \* entry: the tenant's request counter
    admitted,  \* history: requests let through while the counter lives
    overrun,   \* history: key -> a lock ran out under the request holding it
    request    \* what each request is doing

vars == <<record, lock, window, admitted, overrun, request>>

Redis   == INSTANCE RedisStore WITH NoValue <- None
Counter == INSTANCE RedisStore WITH NoValue <- 0

-----------------------------------------------------------------------------
(* Requests and responses.                                                 *)

\* CreateResearchRunResponse: the run, what it was asked, and whether the
\* outcome of its citation audit and its reflection is in it.
Response == [run : RunId, payload : Payload, reviewed : BOOLEAN]

\* The response of a 200.  Refusals (409, 429, 503, 4xx) are not told apart.
Reply == [replayed : BOOLEAN, response : Response] \cup {None}

Locked == {"recheck", "executing", "store"}       \* between acquire and release

Idle == [pc |-> "idle", key |-> NoKey, payload |-> None, beat |-> FALSE,
         cancel |-> FALSE, reply |-> None]

At(i, pc) == request[i].pc = pc /\ ~request[i].cancel
Active(i) == request[i].pc # "idle"

\* create_research_request_fingerprint.
Fingerprint(i) == request[i].payload

\* The record and the lock of the request's key, and the counter, before and
\* after the commands that write them.
Entry(i)    == record[request[i].key]
Stored(i)   == Redis!SetText(request[i].reply.response, RecordTTL)
LockOf(i)   == lock[request[i].key]
Acquired(i) == Redis!SetIfAbsent(LockOf(i), i, LockTTL)
Renewed(i)  == Redis!ExtendIfValue(LockOf(i), i, LockTTL)
Released(i) == Redis!DeleteIfValue(LockOf(i), i)
Counted     == Counter!IncrementWithTtl(window, Window, Allowance + 1)

SetRecord(i, e) == record' = [record EXCEPT ![request[i].key] = e]
SetLock(i, e)   == lock' = [lock EXCEPT ![request[i].key] = e]

\* The request awaits pc next, and will answer what it has come to.
Goto(i, pc) == request' = [request EXCEPT ![i].pc = pc]

Succeeded(i) == request[i].reply # None

\* Before the lock is acquired, and after it is released, a request ends at once;
\* inside the try block it releases the lock first.
Done(i) == request' = [request EXCEPT ![i] = Idle]
Answer(i, reply) ==
    request' = [request EXCEPT ![i] = [@ EXCEPT !.pc = "respond", !.reply = reply]]
Leave(i, reply) ==
    request' = [request EXCEPT ![i] =
                  [@ EXCEPT !.pc = "release", !.reply = reply,
                            !.beat = FALSE, !.cancel = FALSE]]

\* _restore_result: the state it rebuilds has no reflection and no audit.
Restored(response) ==
    [replayed |-> TRUE, response |-> [response EXCEPT !.reviewed = FALSE]]

\* Mutant: the fingerprint is not compared.
OwnWhateverPayload(i) == Redis!Present(Entry(i))

\* Its record is there and has the request's fingerprint.
Own(i) == /\ Redis!Present(Entry(i))
          /\ Entry(i).value.payload = Fingerprint(i)

\* No response refers to the run yet.
Fresh(run) ==
    /\ \A k \in Key : Redis!Present(record[k]) => record[k].value.run # run
    /\ \A i \in Request : Succeeded(i) => request[i].reply.response.run # run

\* A completed run.
Executed(i) ==
    [replayed |-> FALSE,
     response |-> [run |-> CHOOSE run \in RunId : Fresh(run),
                   payload |-> Fingerprint(i), reviewed |-> TRUE]]

Init == /\ record = [k \in Key |-> Redis!Missing]
        /\ lock = [k \in Key |-> Redis!Missing]
        /\ window = Counter!Missing
        /\ admitted = 0
        /\ overrun = [k \in Key |-> FALSE]
        /\ request = [i \in Request |-> Idle]

-----------------------------------------------------------------------------
(* api/research.py.                                                        *)

Begin(i, k, payload) ==
    /\ ~Active(i)
    /\ request' = [request EXCEPT ![i] =
                     [Idle EXCEPT !.pc = "limit", !.key = k, !.payload = payload]]
    /\ UNCHANGED <<record, lock, window, admitted, overrun>>

\* Mutant: the count is compared before it is incremented.
AllowsOneMore(count) == count <= Allowance + 1

Allows(count) == count <= Allowance

\* _enforce_rate_limit: 429 above the allowance, 503 without Redis.
Limit(i) ==
    /\ At(i, "limit")
    /\ \/ /\ window' = Counted
          /\ admitted' = IF Allows(Counted.value) THEN admitted + 1 ELSE admitted
          /\ IF Allows(Counted.value) THEN Goto(i, "documents") ELSE Done(i)
       \/ /\ "redis" \in Fault
          /\ window' \in Counter!Attempted(window, Counted)
          /\ Done(i) /\ UNCHANGED admitted
    /\ UNCHANGED <<record, lock, overrun>>

\* _resolve_document_ids: 404 and 422, or on to the service.
Resolve(i) ==
    /\ At(i, "documents")
    /\ \/ Done(i)
       \/ request[i].key = NoKey /\ Goto(i, "executing")
       \/ request[i].key # NoKey /\ Goto(i, "lookup")
    /\ UNCHANGED <<record, lock, window, admitted, overrun>>

\* The request was one to /research-runs/jobs: a job is submitted (202).
AcceptJob(i) ==
    /\ At(i, "documents")
    /\ request[i].key = NoKey
    /\ Done(i)
    /\ UNCHANGED <<record, lock, window, admitted, overrun>>

(* IdempotentResearchExecutionService.execute.                             *)

Lookup(i) ==
    /\ At(i, "lookup")
    /\ \/ ~Redis!Present(Entry(i)) /\ Goto(i, "acquire")
       \/ Own(i) /\ Answer(i, Restored(Entry(i).value))
       \/ Redis!Present(Entry(i)) /\ ~Own(i) /\ Done(i)
       \/ "redis" \in Fault /\ Done(i)
    /\ UNCHANGED <<record, lock, window, admitted, overrun>>

\* Mutant: a refused acquire extends the lock that is there.
AcquireRefreshing(i) ==
    /\ At(i, "acquire")
    /\ SetLock(i, Redis!SetText(IF Redis!Present(LockOf(i)) THEN LockOf(i).value ELSE i,
                                LockTTL))
    /\ IF Redis!Present(LockOf(i)) THEN Done(i) ELSE Goto(i, "recheck")
    /\ UNCHANGED <<record, window, admitted, overrun>>

\* Mutant: SET without NX.
AcquireAlways(i) ==
    /\ At(i, "acquire")
    /\ SetLock(i, Redis!SetText(i, LockTTL))
    /\ Goto(i, "recheck")
    /\ UNCHANGED <<record, window, admitted, overrun>>

\* 409 while the lock is held.
Acquire(i) ==
    /\ At(i, "acquire")
    /\ \/ ~Redis!Present(LockOf(i)) /\ SetLock(i, Acquired(i)) /\ Goto(i, "recheck")
       \/ Redis!Present(LockOf(i)) /\ Done(i) /\ UNCHANGED lock
       \/ /\ "redis" \in Fault
          /\ \E e \in Redis!Attempted(LockOf(i), Acquired(i)) : SetLock(i, e)
          /\ Done(i)
    /\ UNCHANGED <<record, window, admitted, overrun>>

\* Mutant: the record is not read again under the lock.
RecheckSkipped(i) ==
    /\ At(i, "recheck")
    /\ request' = [request EXCEPT ![i] = [@ EXCEPT !.pc = "executing", !.beat = TRUE]]
    /\ UNCHANGED <<record, lock, window, admitted, overrun>>

\* The record again, now under the lock.  The heartbeat starts with the
\* execution.
Recheck(i) ==
    /\ At(i, "recheck")
    /\ \/ /\ ~Redis!Present(Entry(i))
          /\ request' = [request EXCEPT ![i] =
                           [@ EXCEPT !.pc = "executing", !.beat = TRUE]]
       \/ Own(i) /\ Leave(i, Restored(Entry(i).value))
       \/ Redis!Present(Entry(i)) /\ ~Own(i) /\ Leave(i, None)
       \/ "redis" \in Fault /\ Leave(i, None)
    /\ UNCHANGED <<record, lock, window, admitted, overrun>>

\* The executor returns a completed run; without a key that is the answer.
Return(i) ==
    /\ At(i, "executing")
    /\ request' = [request EXCEPT ![i] =
          [@ EXCEPT !.pc = IF request[i].key = NoKey THEN "respond" ELSE "store",
                    !.beat = FALSE, !.reply = Executed(i)]]
    /\ UNCHANGED <<record, lock, window, admitted, overrun>>

Raise(i) ==
    /\ "work" \in Fault
    /\ At(i, "executing")
    /\ IF request[i].key = NoKey THEN Done(i)
       ELSE Leave(i, None)
    /\ UNCHANGED <<record, lock, window, admitted, overrun>>

\* A record that cannot be stored turns the completed run into a 503.
Store(i) ==
    /\ At(i, "store")
    /\ \/ SetRecord(i, Stored(i)) /\ Leave(i, request[i].reply)
       \/ /\ "redis" \in Fault
          /\ \E e \in Redis!Attempted(Entry(i), Stored(i)) : SetRecord(i, e)
          /\ Leave(i, None)
    /\ UNCHANGED <<lock, window, admitted, overrun>>

\* Mutant: the release does not compare the owner token.
ReleaseBlindly(i) ==
    /\ At(i, "release")
    /\ SetLock(i, Redis!Missing)
    /\ IF Succeeded(i) THEN Goto(i, "respond") ELSE Done(i)
    /\ UNCHANGED <<record, window, admitted, overrun>>

\* The finally block.  A failure is only logged: the TTL cleans up.
Release(i) ==
    /\ At(i, "release")
    /\ \/ SetLock(i, Released(i))
       \/ /\ "redis" \in Fault
          /\ \E e \in Redis!Attempted(LockOf(i), Released(i)) : SetLock(i, e)
    /\ IF Succeeded(i) THEN Goto(i, "respond") ELSE Done(i)
    /\ UNCHANGED <<record, window, admitted, overrun>>

-----------------------------------------------------------------------------
(* _renew_lease_periodically.                                              *)

\* Mutant: a renewal that finds the lock lost goes on.
RenewIgnoringLoss(i) ==
    /\ request[i].beat
    /\ LockOf(i).value = i
    /\ SetLock(i, Renewed(i))
    /\ UNCHANGED <<record, window, admitted, overrun, request>>

\* Redis answers: the lock is extended, or the execution is cancelled.
Renew(i) ==
    /\ request[i].beat
    /\ \/ LockOf(i).value = i /\ SetLock(i, Renewed(i)) /\ UNCHANGED request
       \/ /\ LockOf(i).value # i
          /\ request' = [request EXCEPT ![i] =
                           [@ EXCEPT !.cancel = TRUE, !.beat = FALSE]]
          /\ UNCHANGED lock
    /\ UNCHANGED <<record, window, admitted, overrun>>

\* It does not: the execution goes on, and an interval later it is tried again.
RenewUnanswered(i) ==
    /\ "redis" \in Fault
    /\ request[i].beat
    /\ \E e \in Redis!Attempted(LockOf(i), Renewed(i)) : SetLock(i, e)
    /\ UNCHANGED <<record, window, admitted, overrun, request>>

\* CancelledError leaves through the finally blocks; nobody is answered.
Interrupt(i) ==
    /\ request[i].cancel
    /\ Leave(i, None)
    /\ UNCHANGED <<record, lock, window, admitted, overrun>>

Respond(i) ==
    /\ At(i, "respond")
    /\ Done(i)
    /\ UNCHANGED <<record, lock, window, admitted, overrun>>

Crash(i) ==
    /\ "crash" \in Fault
    /\ Active(i)
    /\ request' = [request EXCEPT ![i] = Idle]
    /\ UNCHANGED <<record, lock, window, admitted, overrun>>

\* Inside the try block, and not about to be cancelled.
Owner(i) == request[i].key # NoKey /\ request[i].pc \in Locked /\ ~request[i].cancel

\* The lock of k is about to expire while its owner counts on it.
Expiring(k) ==
    lock[k].left = 1 /\ \E i \in Request :
        Owner(i) /\ request[i].key = k /\ lock[k].value = i

\* The renewal interval is shorter than the TTL: unless something is slow, or
\* Redis does not answer, the next renewal comes first.
Tick ==
    /\ \/ Counter!Present(window)
       \/ \E k \in Key : Redis!Present(lock[k]) \/ Redis!Present(record[k])
    /\ Fault \cap {"slow", "redis"} = {} => \A k \in Key : ~Expiring(k)
    /\ record' = [k \in Key |-> Redis!Elapsed(record[k])]
    /\ lock' = [k \in Key |-> Redis!Elapsed(lock[k])]
    /\ window' = Counter!Elapsed(window)
    /\ admitted' = IF window.left <= 1 THEN 0 ELSE admitted
    /\ overrun' = [k \in Key |-> overrun[k] \/ Expiring(k)]
    /\ UNCHANGED request

\* What the event loop does on its own.
Step(i) == \/ Limit(i) \/ Resolve(i) \/ AcceptJob(i) \/ Lookup(i) \/ Acquire(i) \/ Recheck(i)
           \/ Store(i) \/ Release(i) \/ Interrupt(i) \/ Respond(i)

Next == \/ \E i \in Request :
              \/ \E k \in Key \cup {NoKey}, payload \in Payload : Begin(i, k, payload)
              \/ Step(i) \/ Return(i) \/ Raise(i) \/ Crash(i)
              \/ Renew(i) \/ RenewUnanswered(i)
        \/ Tick

\* What is ready runs, and time passes.  Nothing obliges an execution to return,
\* nor Redis to answer a renewal.
Spec == /\ Init /\ [][Next]_vars
        /\ \A i \in Request : WF_vars(Step(i))
        /\ WF_vars(Tick)

-----------------------------------------------------------------------------
(* Properties.                                                             *)

Value(V) == [value : V, left : Nat \ {0}] \cup {Redis!Missing}

TypeOK ==
    /\ record \in [Key -> Value(Response)]
    /\ lock \in [Key -> Value(Request)]
    /\ window \in [value : 0 .. Allowance + 1, left : 0 .. Window]
    /\ admitted \in Nat
    /\ overrun \in [Key -> BOOLEAN]
    /\ request \in [Request ->
          [pc : {"idle", "limit", "documents", "lookup", "acquire", "release", "respond"} \cup Locked,
           key : Key \cup {NoKey}, payload : Payload \cup {None},
           beat : BOOLEAN, cancel : BOOLEAN, reply : Reply]]

\* As long as no lock of the key ran out under its owner, the request that
\* acquired it holds it until it releases it, and nothing is recorded while it
\* executes.
OwnerHoldsLock ==
    \A i \in Request : Owner(i) /\ ~overrun[request[i].key] =>
        /\ LockOf(i).value = i
        /\ request[i].pc # "recheck" => ~Redis!Present(Entry(i))

\* At most one request at a time executes for an Idempotency-Key, whatever lost
\* answers, late releases, crashes and failed executions do
\* (docs/architecture.md:146).  Once a lock of the key has run out under its
\* owner (overrun), the code promises no more than LostLockStopsExecution.
OneExecutionPerKey ==
    \A i, j \in Request :
        /\ Owner(i) /\ Owner(j) /\ request[i].key = request[j].key
        /\ ~overrun[request[i].key]
        => i = j

\* A completed record is never replaced by another one while it lives: a retry
\* cannot find a different run (docs/architecture.md:155).  Again up to an
\* overrun of the key: after it two executions may both store theirs.
RecordIsFinal ==
    [][\A k \in Key :
          Redis!Present(record[k]) /\ Redis!Present(record[k])' /\ ~overrun[k]
             => record'[k].value = record[k].value]_vars

\* A client that gets a 200 gets the run of the request it made, however keys
\* are reused.
AnswersItsOwnPayload ==
    \A i \in Request :
        Succeeded(i) => request[i].reply.response.payload = request[i].payload

\* The tenant's allowance bounds the requests let through in a window, also
\* when increments fail after they were applied.
AllowanceHolds == admitted <= Allowance

\* Acquired by a request that is gone, or never learned of it.
Orphaned(k) ==
    \E i \in Request : /\ lock[k].value = i
                      /\ ~(request[i].key = k /\ request[i].pc \in Locked \cup {"release"})

\* A lock that nobody will release expires (idempotency.py:333): its key's
\* clients are not refused for ever.
OrphanLockExpires == \A k \in Key : Orphaned(k) ~> ~Orphaned(k)

\* An execution whose lock is lost does not go on for ever: it stops, if Redis
\* answers its renewals again, even when the key has a new owner by then
\* (idempotency.py:231).  A process that stays cut off from Redis goes on.
LostLockStopsExecution ==
    \A i \in Request :
        WF_vars(Renew(i)) =>
            ((request[i].beat /\ LockOf(i).value # i) ~> ~request[i].beat)

\* A tenant that has used up its allowance is let through again: its counter
\* expires, however often it is incremented meanwhile and whatever answers are
\* lost (redis.py:347).
WindowEnds == Counter!Present(window) ~> ~Counter!Present(window)
=============================================================================

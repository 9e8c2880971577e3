---------------------- MODULE IdempotentRequestsProofs ----------------------
(***************************************************************************)
(* What the lock, the record and the counter of IdempotentRequests promise *)
(* for every number of requests and keys, every lifetime and allowance and *)
(* every set of faults.                                                    *)
(***************************************************************************)
EXTENDS IdempotentRequests, TLAPS

-----------------------------------------------------------------------------
(* The inductive invariant.                                                *)

Await == {"idle", "limit", "documents", "lookup", "acquire", "release", "respond"}
           \cup Locked

Progress ==
    [pc : Await,
     key : Key \cup {NoKey}, payload : Payload \cup {None},
     beat : BOOLEAN, cancel : BOOLEAN, reply : Reply]

\* Only a request with a key goes near the record and the lock.
KeyedAtTheStore ==
    \A i \in Request :
        \/ request[i].pc \in {"lookup", "acquire", "recheck", "store", "release"}
        \/ request[i].beat \/ request[i].cancel
        => request[i].key \in Key

\* What is to be recorded is there, and a request in progress has asked something.
StoresAReply ==
    \A i \in Request :
        /\ request[i].pc = "store" => request[i].reply.response \in Response
        /\ Active(i) \/ request[i].beat \/ request[i].cancel
              => request[i].payload \in Payload

\* A counter that is gone counts nothing, one that is there at least the
\* requests it let through.
CounterCounts ==
    /\ window.left = 0 => window.value = 0
    /\ admitted <= window.value

RequestsInv ==
    /\ TypeOK
    /\ KeyedAtTheStore
    /\ StoresAReply
    /\ CounterCounts
    /\ OwnerHoldsLock
    /\ AnswersItsOwnPayload
    /\ AllowanceHolds

-----------------------------------------------------------------------------
(* Entries.                                                                *)

\* A missing entry of records or locks holds nothing, one that is there a value.
LEMMA EntryShape ==
    ASSUME NEW V, NEW e \in Value(V)
    PROVE  /\ e.left \in Nat
           /\ Redis!Present(e) => e.value \in V /\ e.left > 0
           /\ ~Redis!Present(e) => e.value = None /\ e.left = 0 /\ e = Redis!Missing
  BY DEF Value, Redis!Present, Redis!Missing

\* Every command leaves an entry of the same kind behind.
LEMMA CommandsKeepShape ==
    ASSUME NEW V, NEW e \in Value(V), NEW v \in V, NEW ttl \in Nat \ {0}
    PROVE  /\ Redis!Missing \in Value(V)
           /\ Redis!SetText(v, ttl) \in Value(V)
           /\ Redis!SetIfAbsent(e, v, ttl) \in Value(V)
           /\ None \notin V => Redis!ExtendIfValue(e, v, ttl) \in Value(V)
           /\ Redis!DeleteIfValue(e, v) \in Value(V)
  BY DEF Value, Redis!SetText, Redis!SetIfAbsent, Redis!ExtendIfValue,
         Redis!DeleteIfValue, Redis!Missing

\* A tick keeps the value of what it does not remove.
LEMMA TickKeepsShape ==
    ASSUME NEW V, NEW e \in Value(V)
    PROVE  /\ Redis!Elapsed(e) \in Value(V)
           /\ Redis!Present(Redis!Elapsed(e)) => /\ Redis!Elapsed(e).value = e.value
                                                /\ Redis!Present(e)
           /\ Redis!Present(e) /\ e.left # 1 => Redis!Elapsed(e).value = e.value
  BY DEF Value, Redis!Elapsed, Redis!Missing, Redis!Present

\* A failed command was applied or it was not.
LEMMA AttemptIsEither ==
    ASSUME NEW e, NEW f, NEW g \in Redis!Attempted(e, f)
    PROVE  g = e \/ g = f
  BY DEF Redis!Attempted

-----------------------------------------------------------------------------
(* Types.                                                                  *)

LEMMA TypeOfRequests == TypeOK => request \in [Request -> Progress]
  BY DEF TypeOK, Progress, Await

\* The records a request may become.
LEMMA RequestMoves ==
    ASSUME request \in [Request -> Progress], NEW i \in Request, NEW r \in Progress,
           request' = [request EXCEPT ![i] = r]
    PROVE  /\ request' \in [Request -> Progress]
           /\ request'[i] = r
           /\ \A j \in Request : j # i => request'[j] = request[j]
  OBVIOUS

\* A fresh run is a run.
LEMMA FreshRunExists ==
    ASSUME TypeOK
    PROVE  (CHOOSE run \in RunId : Fresh(run)) \in RunId
  <1> DEFINE f == [k \in Key |-> IF Redis!Present(record[k]) THEN record[k].value.run ELSE None]
  <1> DEFINE g == [i \in Request |-> IF Succeeded(i) THEN request[i].reply.response.run ELSE None]
  <1>1. f \in [Key -> RunId \cup {None}]
    <2> SUFFICES ASSUME NEW k \in Key, Redis!Present(record[k])
                 PROVE  record[k].value.run \in RunId
      OBVIOUS
    <2>1. record[k] \in Value(Response)
      BY DEF TypeOK
    <2>2. record[k].value \in Response
      BY <2>1, EntryShape
    <2> QED
      BY <2>2 DEF Response
  <1>2. g \in [Request -> RunId \cup {None}]
    <2> SUFFICES ASSUME NEW i \in Request, Succeeded(i)
                 PROVE  request[i].reply.response.run \in RunId
      OBVIOUS
    <2>1. request[i].reply \in Reply \ {None}
      BY TypeOfRequests DEF Progress, Succeeded
    <2>2. request[i].reply.response \in Response
      BY <2>1 DEF Reply
    <2> QED
      BY <2>2 DEF Response
  <1>3. \E run \in RunId : (\A k \in Key : f[k] # run) /\ (\A i \in Request : g[i] # run)
    <2> HIDE DEF f, g
    <2> QED
      BY <1>1, <1>2, FreshRunAssumption
  <1>4. \E run \in RunId : Fresh(run)
    BY <1>3 DEF Fresh
  <1> QED
    BY <1>4


\* However a request goes on or ends, it is a request.
LEMMA RequestsStayTyped ==
    ASSUME request \in [Request -> Progress], NEW i \in Request
    PROVE  /\ Done(i) => request' \in [Request -> Progress]
           /\ \A pc \in Await : Goto(i, pc) => request' \in [Request -> Progress]
           /\ \A reply \in Reply :
                 Answer(i, reply) \/ Leave(i, reply) => request' \in [Request -> Progress]
  <1>1. ASSUME Done(i) PROVE request' \in [Request -> Progress]
    <2>1. Idle \in Progress
      BY DEF Idle, Progress, Await, Reply
    <2> QED
      BY <1>1, <2>1 DEF Done
  <1>2. ASSUME NEW pc \in Await, Goto(i, pc) PROVE request' \in [Request -> Progress]
    BY <1>2 DEF Goto, Progress
  <1>3. ASSUME NEW reply \in Reply, Answer(i, reply)
        PROVE  request' \in [Request -> Progress]
    <2>1. [request[i] EXCEPT !.pc = "respond", !.reply = reply] \in Progress
      BY DEF Progress, Await
    <2> QED
      BY <1>3, <2>1 DEF Answer
  <1>4. ASSUME NEW reply \in Reply, Leave(i, reply)
        PROVE  request' \in [Request -> Progress]
    <2>1. [request[i] EXCEPT !.pc = "release", !.reply = reply, !.beat = FALSE,
                             !.cancel = FALSE] \in Progress
      BY DEF Progress, Await
    <2> QED
      BY <1>4, <2>1 DEF Leave
  <1> QED
    BY <1>1, <1>2, <1>3, <1>4

\* What a request answers is a reply.
LEMMA RepliesAreTyped ==
    ASSUME TypeOK, NEW i \in Request, StoresAReply
    PROVE  /\ None \in Reply /\ request[i].reply \in Reply
           /\ request[i].key \in Key /\ Redis!Present(Entry(i)) =>
                /\ Entry(i).value \in Response
                /\ Restored(Entry(i).value) \in Reply
           /\ Active(i) => Executed(i) \in Reply /\ Executed(i).response \in Response
  <1>1. None \in Reply /\ request[i].reply \in Reply
    BY TypeOfRequests DEF Reply, Progress
  <1>2. ASSUME request[i].key \in Key, Redis!Present(Entry(i))
        PROVE  /\ Entry(i).value \in Response
               /\ Restored(Entry(i).value) \in Reply
    <2>1. Entry(i) \in Value(Response)
      BY <1>2 DEF Entry, TypeOK
    <2>2. Entry(i).value \in Response
      BY <1>2, <2>1, EntryShape
    <2>3. [Entry(i).value EXCEPT !.reviewed = FALSE] \in Response
      BY <2>2 DEF Response
    <2> QED
      BY <2>2, <2>3 DEF Restored, Reply
  <1>3. ASSUME Active(i)
        PROVE  Executed(i) \in Reply /\ Executed(i).response \in Response
    <2>1. request[i].payload \in Payload
      BY <1>3 DEF StoresAReply
    <2> DEFINE run == CHOOSE run \in RunId : Fresh(run)
    <2>2. run \in RunId
      BY FreshRunExists
    <2> HIDE DEF run
    <2>3. [run |-> run, payload |-> Fingerprint(i), reviewed |-> TRUE] \in Response
      BY <2>1, <2>2 DEF Response, Fingerprint
    <2> QED
      BY <2>3 DEF Executed, Reply, run
  <1> QED
    BY <1>1, <1>2, <1>3

-----------------------------------------------------------------------------
(* The stores.                                                             *)

\* Only Store writes records, and time removes them.
LEMMA RecordStep ==
    ASSUME [Next]_vars
    PROVE  \/ UNCHANGED record
           \/ \E i \in Request : Store(i)
           \/ Tick
  BY DEF Next, Step, vars, Begin, Limit, Resolve, AcceptJob, Lookup, Acquire, Recheck,
         Return, Raise, Release, Renew, RenewUnanswered, Interrupt, Respond, Crash

\* Only acquiring, releasing and renewing touch locks, and time removes them.
LEMMA LockStep ==
    ASSUME [Next]_vars
    PROVE  \/ UNCHANGED <<lock, overrun>>
           \/ \E i \in Request : Acquire(i) \/ Release(i) \/ Renew(i) \/ RenewUnanswered(i)
           \/ Tick
  BY DEF Next, Step, vars, Begin, Limit, Resolve, AcceptJob, Lookup, Recheck, Store,
         Return, Raise, Interrupt, Respond, Crash

\* What the commands of a request leave of its record and its lock.
LEMMA EntriesOf ==
    ASSUME TypeOK, NEW i \in Request, request[i].key \in Key
    PROVE  /\ Entry(i) \in Value(Response)
           /\ StoresAReply /\ request[i].pc = "store" => Stored(i) \in Value(Response)
           /\ LockOf(i) \in Value(Request)
           /\ Acquired(i) \in Value(Request)
           /\ Renewed(i) \in Value(Request)
           /\ Released(i) \in Value(Request)
  <1> USE RequestsAssumption
  <1>1. Entry(i) \in Value(Response) /\ LockOf(i) \in Value(Request)
    BY DEF TypeOK, Entry, LockOf
  <1>2. ASSUME StoresAReply, request[i].pc = "store" PROVE Stored(i) \in Value(Response)
    BY <1>1, <1>2, CommandsKeepShape DEF Stored, StoresAReply
  <1>3. /\ Acquired(i) \in Value(Request)
        /\ Renewed(i) \in Value(Request)
        /\ Released(i) \in Value(Request)
    BY <1>1, CommandsKeepShape DEF Acquired, Renewed, Released
  <1> QED
    BY <1>1, <1>2, <1>3

LEMMA RecordPreserved ==
    ASSUME RequestsInv, [Next]_vars
    PROVE  record' \in [Key -> Value(Response)]
  <1> USE DEF RequestsInv
  <1>0. record \in [Key -> Value(Response)]
    BY DEF TypeOK
  <1>1. ASSUME NEW i \in Request, Store(i)
        PROVE  record' \in [Key -> Value(Response)]
    <2>1. request[i].key \in Key /\ request[i].pc = "store"
      BY <1>1 DEF Store, At, KeyedAtTheStore
    <2>2. Entry(i) \in Value(Response) /\ Stored(i) \in Value(Response)
      BY <2>1, EntriesOf
    <2>3. PICK e \in Value(Response) : SetRecord(i, e)
      BY <1>1, <2>2, AttemptIsEither DEF Store
    <2> QED
      BY <1>0, <2>3 DEF SetRecord
  <1>2. ASSUME Tick PROVE record' \in [Key -> Value(Response)]
    <2>1. \A k \in Key : Redis!Elapsed(record[k]) \in Value(Response)
      BY <1>0, TickKeepsShape
    <2> QED
      BY <1>2, <2>1 DEF Tick
  <1> QED
    BY <1>0, <1>1, <1>2, RecordStep

LEMMA LockPreserved ==
    ASSUME RequestsInv, [Next]_vars
    PROVE  /\ lock' \in [Key -> Value(Request)]
           /\ overrun' \in [Key -> BOOLEAN]
  <1> USE DEF RequestsInv
  <1>0. lock \in [Key -> Value(Request)] /\ overrun \in [Key -> BOOLEAN]
    BY DEF TypeOK
  <1>1. ASSUME NEW i \in Request, Acquire(i) \/ Release(i)
        PROVE  /\ lock' \in [Key -> Value(Request)]
               /\ UNCHANGED overrun
    <2>1. request[i].key \in Key
      BY <1>1 DEF Acquire, Release, At, KeyedAtTheStore
    <2>2. \/ UNCHANGED lock
          \/ \E e \in Value(Request) : SetLock(i, e)
      BY <1>1, <2>1, EntriesOf, AttemptIsEither DEF Acquire, Release
    <2> QED
      BY <1>0, <1>1, <2>2 DEF SetLock, Acquire, Release
  <1>2. ASSUME NEW i \in Request, Renew(i) \/ RenewUnanswered(i)
        PROVE  /\ lock' \in [Key -> Value(Request)]
               /\ UNCHANGED overrun
    <2>1. \/ UNCHANGED lock
          \/ SetLock(i, Renewed(i))
          \/ SetLock(i, LockOf(i))
      BY <1>2, AttemptIsEither DEF Renew, RenewUnanswered
    <2>2. CASE request[i].key \in Key
      BY <1>0, <1>2, <2>1, <2>2, EntriesOf DEF SetLock, Renew, RenewUnanswered
    <2>3. CASE request[i].key \notin Key
      BY <1>0, <1>2, <2>1, <2>3 DEF SetLock, Renew, RenewUnanswered
    <2> QED
      BY <2>2, <2>3
  <1>3. ASSUME Tick
        PROVE  /\ lock' \in [Key -> Value(Request)]
               /\ overrun' \in [Key -> BOOLEAN]
    <2>1. \A k \in Key : Redis!Elapsed(lock[k]) \in Value(Request)
      BY <1>0, TickKeepsShape
    <2>2. \A k \in Key : Expiring(k) \in BOOLEAN
      BY DEF Expiring
    <2> QED
      BY <1>0, <1>3, <2>1, <2>2 DEF Tick
  <1> QED
    BY <1>0, <1>1, <1>2, <1>3, LockStep

\* The counter of a window counts every request it lets through, and is never
\* renewed while it lives.
LEMMA CounterPreserved ==
    ASSUME RequestsInv, [Next]_vars
    PROVE  /\ window' \in [value : 0 .. Allowance + 1, left : 0 .. Window]
           /\ admitted' \in Nat
           /\ CounterCounts'
           /\ AllowanceHolds'
  <1> USE RequestsAssumption
  <1>0. /\ window \in [value : 0 .. Allowance + 1, left : 0 .. Window]
        /\ admitted \in Nat /\ CounterCounts /\ AllowanceHolds
    BY DEF TypeOK, RequestsInv
  <1>1. CASE UNCHANGED <<window, admitted>>
    BY <1>0, <1>1 DEF CounterCounts, AllowanceHolds
  <1>2. ASSUME NEW i \in Request, Limit(i)
        PROVE  /\ window' \in [value : 0 .. Allowance + 1, left : 0 .. Window]
               /\ admitted' \in Nat
               /\ CounterCounts'
               /\ AllowanceHolds'
    <2>1. /\ Counted \in [value : 0 .. Allowance + 1, left : 0 .. Window]
          /\ Counted.left # 0
          /\ window.value <= Counted.value
          /\ Counted.value <= Allowance => window.value + 1 <= Counted.value
      BY <1>0 DEF Counted, Counter!IncrementWithTtl, Counter!Present, Counter!SetText,
                  CounterCounts
    <2>2. \/ window' = Counted /\ admitted' = IF Allows(Counted.value) THEN admitted + 1
                                                                       ELSE admitted
          \/ window' \in {window, Counted} /\ UNCHANGED admitted
      BY <1>2 DEF Limit, Counter!Attempted
    <2> QED
      BY <1>0, <2>1, <2>2 DEF CounterCounts, AllowanceHolds, Allows
  <1>3. ASSUME Tick
        PROVE  /\ window' \in [value : 0 .. Allowance + 1, left : 0 .. Window]
               /\ admitted' \in Nat
               /\ CounterCounts'
               /\ AllowanceHolds'
    BY <1>0, <1>3 DEF Tick, Counter!Elapsed, Counter!Missing, CounterCounts,
                      AllowanceHolds
  <1>4. \/ UNCHANGED <<window, admitted>>
        \/ \E i \in Request : Limit(i)
        \/ Tick
    BY DEF Next, Step, vars, Begin, Resolve, AcceptJob, Lookup, Acquire, Recheck, Store,
           Release, Return, Raise, Renew, RenewUnanswered, Interrupt, Respond, Crash
  <1> QED
    BY <1>1, <1>2, <1>3, <1>4

-----------------------------------------------------------------------------
(* The requests.                                                           *)

\* Whatever a request does, it stays one.
LEMMA RequestsPreserved ==
    ASSUME RequestsInv, [Next]_vars
    PROVE  request' \in [Request -> Progress]
  <1>0. request \in [Request -> Progress] /\ StoresAReply /\ KeyedAtTheStore /\ TypeOK
    BY TypeOfRequests DEF RequestsInv
  <1>1. ASSUME NEW i \in Request, NEW k \in Key \cup {NoKey}, NEW payload \in Payload,
               Begin(i, k, payload)
        PROVE  request' \in [Request -> Progress]
    <2>1. [Idle EXCEPT !.pc = "limit", !.key = k, !.payload = payload] \in Progress
      BY DEF Idle, Progress, Await, Reply
    <2> QED
      BY <1>0, <1>1, <2>1 DEF Begin
  <1>2. ASSUME NEW i \in Request,
               \/ Limit(i) \/ Resolve(i) \/ AcceptJob(i) \/ Acquire(i) \/ Respond(i)
        PROVE  request' \in [Request -> Progress]
    <2>1. Done(i) \/ \E pc \in Await : Goto(i, pc)
      BY <1>2 DEF Limit, Resolve, AcceptJob, Acquire, Respond, Await, Locked
    <2> QED
      BY <1>0, <2>1, RequestsStayTyped
  <1>3. ASSUME NEW i \in Request, Lookup(i)
        PROVE  request' \in [Request -> Progress]
    <2>1. request[i].key \in Key
      BY <1>0, <1>3 DEF Lookup, At, KeyedAtTheStore
    <2>2. Done(i) \/ Goto(i, "acquire") \/ \E reply \in Reply : Answer(i, reply)
      BY <1>0, <1>3, <2>1, RepliesAreTyped DEF Lookup, Own
    <2> QED
      BY <1>0, <2>2, RequestsStayTyped DEF Await
  <1>4. ASSUME NEW i \in Request, Recheck(i)
        PROVE  request' \in [Request -> Progress]
    <2>1. request[i].key \in Key
      BY <1>0, <1>4 DEF Recheck, At, KeyedAtTheStore
    <2>2. \/ \E reply \in Reply : Leave(i, reply)
          \/ request' = [request EXCEPT ![i] = [@ EXCEPT !.pc = "executing", !.beat = TRUE]]
      BY <1>0, <1>4, <2>1, RepliesAreTyped DEF Recheck, Own
    <2>3. [request[i] EXCEPT !.pc = "executing", !.beat = TRUE] \in Progress
      BY <1>0 DEF Progress, Await, Locked
    <2> QED
      BY <1>0, <2>2, <2>3, RequestsStayTyped
  <1>5. ASSUME NEW i \in Request, Return(i)
        PROVE  request' \in [Request -> Progress]
    <2>1. Executed(i) \in Reply
      BY <1>0, <1>5, RepliesAreTyped DEF Return, At, Active
    <2>2. [request[i] EXCEPT !.pc = IF request[i].key = NoKey THEN "respond" ELSE "store",
                             !.beat = FALSE, !.reply = Executed(i)] \in Progress
      <3> HIDE DEF Executed
      <3> QED
        BY <1>0, <2>1 DEF Progress, Await, Locked
    <2> QED
      BY <1>0, <1>5, <2>2 DEF Return
  <1>6. ASSUME NEW i \in Request, Raise(i) \/ Store(i) \/ Interrupt(i)
        PROVE  request' \in [Request -> Progress]
    <2>1. None \in Reply /\ request[i].reply \in Reply
      BY <1>0, RepliesAreTyped
    <2>2. Done(i) \/ \E reply \in Reply : Leave(i, reply)
      BY <1>6, <2>1 DEF Raise, Store, Interrupt
    <2> QED
      BY <1>0, <2>2, RequestsStayTyped
  <1>7. ASSUME NEW i \in Request, Release(i)
        PROVE  request' \in [Request -> Progress]
    BY <1>0, <1>7, RequestsStayTyped DEF Release, Await
  <1>8. ASSUME NEW i \in Request, Renew(i) \/ RenewUnanswered(i)
        PROVE  request' \in [Request -> Progress]
    <2>1. [request[i] EXCEPT !.cancel = TRUE, !.beat = FALSE] \in Progress
      BY <1>0 DEF Progress
    <2> QED
      BY <1>0, <1>8, <2>1 DEF Renew, RenewUnanswered
  <1>9. ASSUME NEW i \in Request, Crash(i)
        PROVE  request' \in [Request -> Progress]
    <2>1. Done(i)
      BY <1>9 DEF Crash, Done
    <2> QED
      BY <1>0, <2>1, RequestsStayTyped
  <1>10. CASE UNCHANGED request
    BY <1>0, <1>10
  <1> QED
    BY <1>1, <1>2, <1>3, <1>4, <1>5, <1>6, <1>7, <1>8, <1>9, <1>10
    DEF Next, Step, Tick, vars

\* A reply always answers the payload of its request; what a request needs at
\* the store it has.
LEMMA AnswersPreserved ==
    ASSUME RequestsInv, [Next]_vars
    PROVE  KeyedAtTheStore' /\ StoresAReply' /\ AnswersItsOwnPayload'
  <1>0. /\ request \in [Request -> Progress] /\ TypeOK
        /\ KeyedAtTheStore /\ StoresAReply /\ AnswersItsOwnPayload
    BY TypeOfRequests DEF RequestsInv
  <1> DEFINE Fine(r) ==
        /\ r.pc \in {"lookup", "acquire", "recheck", "store", "release"} => r.key \in Key
        /\ r.beat \/ r.cancel => r.key \in Key
        /\ r.pc = "store" => r.reply.response \in Response
        /\ r.pc # "idle" \/ r.beat \/ r.cancel => r.payload \in Payload
        /\ r.reply # None => r.reply.response.payload = r.payload
  <1>1. \A i \in Request : Fine(request[i])
    BY <1>0 DEF KeyedAtTheStore, StoresAReply, AnswersItsOwnPayload, Succeeded, Active
  <1>2. SUFFICES \A i \in Request : Fine(request'[i])
    BY DEF KeyedAtTheStore, StoresAReply, AnswersItsOwnPayload, Succeeded, Active
  <1>3. ASSUME NEW i \in Request, NEW r, Fine(r), request' = [request EXCEPT ![i] = r]
        PROVE  \A j \in Request : Fine(request'[j])
    <2> HIDE DEF Fine
    <2> QED
      BY <1>0, <1>1, <1>3
  <1>4. Fine(Idle)
    BY DEF Idle
  <1>5. ASSUME NEW i \in Request, Done(i) PROVE \A j \in Request : Fine(request'[j])
    <2> HIDE DEF Fine
    <2> QED
      BY <1>3, <1>4, <1>5 DEF Done
  <1>6. ASSUME NEW i \in Request, NEW pc \in {"documents", "acquire", "recheck", "respond"},
               Goto(i, pc), request[i].pc # "idle",
               pc \in {"acquire", "recheck"} => request[i].key \in Key
        PROVE  \A j \in Request : Fine(request'[j])
    <2>1. Fine([request[i] EXCEPT !.pc = pc])
      BY <1>0, <1>1, <1>6 DEF Progress
    <2>2. request' = [request EXCEPT ![i] = [request[i] EXCEPT !.pc = pc]]
      BY <1>0, <1>6 DEF Goto
    <2> HIDE DEF Fine
    <2> QED
      BY <1>3, <2>1, <2>2
  <1>7. ASSUME NEW i \in Request, NEW reply, Answer(i, reply) \/ Leave(i, reply),
               request[i].payload \in Payload, request[i].key \in Key,
               reply # None => reply.response.payload = request[i].payload
        PROVE  \A j \in Request : Fine(request'[j])
    <2>1. /\ Fine([request[i] EXCEPT !.pc = "respond", !.reply = reply])
          /\ Fine([request[i] EXCEPT !.pc = "release", !.reply = reply,
                                     !.beat = FALSE, !.cancel = FALSE])
      BY <1>0, <1>1, <1>7 DEF Progress
    <2> HIDE DEF Fine
    <2> QED
      BY <1>3, <1>7, <2>1 DEF Answer, Leave
  <1>8. ASSUME NEW i \in Request, request[i].key \in Key, Own(i)
        PROVE  Restored(Entry(i).value).response.payload = request[i].payload
    <2>1. Entry(i) \in Value(Response) /\ Redis!Present(Entry(i))
      BY <1>0, <1>8, EntriesOf DEF Own
    <2>2. Entry(i).value \in Response
      BY <2>1, EntryShape
    <2> QED
      BY <1>8, <2>2 DEF Own, Restored, Response, Fingerprint
  <1> QED
    <2>1. ASSUME NEW i \in Request, NEW k \in Key \cup {NoKey}, NEW payload \in Payload,
                 Begin(i, k, payload)
          PROVE  \A j \in Request : Fine(request'[j])
      <3>1. Fine([Idle EXCEPT !.pc = "limit", !.key = k, !.payload = payload])
        BY DEF Idle
      <3> HIDE DEF Fine
      <3> QED
        BY <1>3, <2>1, <3>1 DEF Begin
    <2>2. ASSUME NEW i \in Request, Limit(i) \/ AcceptJob(i) \/ Respond(i) \/ Crash(i)
          PROVE  \A j \in Request : Fine(request'[j])
      <3>1. Limit(i) => Done(i) \/ (Goto(i, "documents") /\ request[i].pc # "idle")
        BY DEF Limit, At
      <3>2. AcceptJob(i) \/ Respond(i) \/ Crash(i) => Done(i)
        BY DEF AcceptJob, Respond, Crash, Done
      <3> HIDE DEF Fine
      <3> QED
        BY <1>5, <1>6, <2>2, <3>1, <3>2
    <2>3. ASSUME NEW i \in Request, Resolve(i)
          PROVE  \A j \in Request : Fine(request'[j])
      <3>1. request[i].pc = "documents" /\ request[i].key \in Key \cup {NoKey}
        BY <1>0, <2>3 DEF Resolve, At, Progress
      <3>2. /\ Fine([request[i] EXCEPT !.pc = "executing"])
            /\ request[i].key # NoKey => Fine([request[i] EXCEPT !.pc = "lookup"])
        BY <1>0, <1>1, <3>1 DEF Progress
      <3>3. \/ Done(i)
            \/ request' = [request EXCEPT ![i] = [request[i] EXCEPT !.pc = "executing"]]
            \/ /\ request[i].key # NoKey
               /\ request' = [request EXCEPT ![i] = [request[i] EXCEPT !.pc = "lookup"]]
        BY <1>0, <2>3 DEF Resolve, Goto
      <3> HIDE DEF Fine
      <3> QED
        BY <1>3, <1>5, <3>2, <3>3
    <2>4. ASSUME NEW i \in Request, Lookup(i) \/ Acquire(i)
          PROVE  \A j \in Request : Fine(request'[j])
      <3>1. /\ request[i].pc # "idle" /\ request[i].payload \in Payload
            /\ request[i].key \in Key
        BY <1>0, <2>4 DEF Lookup, Acquire, At, KeyedAtTheStore, StoresAReply, Active
      <3>2. \/ Done(i) \/ Goto(i, "acquire") \/ Goto(i, "recheck")
            \/ Own(i) /\ Answer(i, Restored(Entry(i).value))
        BY <2>4 DEF Lookup, Acquire
      <3> HIDE DEF Fine
      <3> QED
        BY <1>5, <1>6, <1>7, <1>8, <3>1, <3>2
    <2>5. ASSUME NEW i \in Request, Recheck(i)
          PROVE  \A j \in Request : Fine(request'[j])
      <3>1. /\ request[i].pc # "idle" /\ request[i].payload \in Payload
            /\ request[i].key \in Key
        BY <1>0, <2>5 DEF Recheck, At, KeyedAtTheStore, StoresAReply, Active
      <3>2. Fine([request[i] EXCEPT !.pc = "executing", !.beat = TRUE])
        BY <1>0, <1>1, <3>1 DEF Progress
      <3>3. \/ request' = [request EXCEPT ![i] =
                             [request[i] EXCEPT !.pc = "executing", !.beat = TRUE]]
            \/ Own(i) /\ Leave(i, Restored(Entry(i).value))
            \/ Leave(i, None)
        BY <1>0, <2>5 DEF Recheck
      <3> HIDE DEF Fine
      <3> QED
        BY <1>3, <1>7, <1>8, <3>1, <3>2, <3>3
    <2>6. ASSUME NEW i \in Request, Return(i)
          PROVE  \A j \in Request : Fine(request'[j])
      <3>1. /\ Executed(i) # None => Executed(i).response.payload = request[i].payload
            /\ request[i].pc = "executing" /\ request[i].key \in Key \cup {NoKey}
        BY <1>0, <2>6 DEF Executed, Fingerprint, Return, At, Progress
      <3>2. Executed(i).response \in Response
        BY <1>0, <2>6, RepliesAreTyped DEF Return, At, Active
      <3> DEFINE r == [request[i] EXCEPT
                         !.pc = IF request[i].key = NoKey THEN "respond" ELSE "store",
                         !.beat = FALSE, !.reply = Executed(i)]
      <3>3. Fine(r)
        BY <1>0, <1>1, <3>1, <3>2 DEF Progress
      <3>4. request' = [request EXCEPT ![i] = r]
        BY <1>0, <2>6 DEF Return
      <3> HIDE DEF Fine, r
      <3> QED
        BY <1>3, <3>3, <3>4
    <2>7. ASSUME NEW i \in Request, Raise(i) \/ Interrupt(i) \/ Store(i)
          PROVE  \A j \in Request : Fine(request'[j])
      <3>1. request[i].key \in Key \cup {NoKey} /\ request[i].payload \in Payload
        BY <1>0, <2>7 DEF Raise, Interrupt, Store, At, StoresAReply, Active, Progress
      <3>2. \/ Done(i)
            \/ /\ Leave(i, None) \/ Leave(i, request[i].reply)
               /\ request[i].key \in Key
        BY <1>0, <2>7, <3>1 DEF Raise, Interrupt, Store, At, KeyedAtTheStore
      <3>3. request[i].reply # None
              => request[i].reply.response.payload = request[i].payload
        BY <1>1
      <3> HIDE DEF Fine
      <3> QED
        BY <1>5, <1>7, <3>1, <3>2, <3>3
    <2>8. ASSUME NEW i \in Request, Release(i)
          PROVE  \A j \in Request : Fine(request'[j])
      <3>1. Done(i) \/ (Goto(i, "respond") /\ request[i].pc # "idle")
        BY <2>8 DEF Release, At
      <3> HIDE DEF Fine
      <3> QED
        BY <1>5, <1>6, <3>1
    <2>9. ASSUME NEW i \in Request, Renew(i) \/ RenewUnanswered(i)
          PROVE  \A j \in Request : Fine(request'[j])
      <3>1. Fine([request[i] EXCEPT !.cancel = TRUE, !.beat = FALSE])
        BY <1>0, <1>1, <2>9 DEF Progress, Renew, RenewUnanswered
      <3> HIDE DEF Fine
      <3> QED
        BY <1>1, <1>3, <2>9, <3>1 DEF Renew, RenewUnanswered
    <2>10. CASE UNCHANGED request
      BY <1>1, <2>10
    <2> HIDE DEF Fine
    <2> QED
      BY <2>1, <2>2, <2>3, <2>4, <2>5, <2>6, <2>7, <2>8, <2>9, <2>10
      DEF Next, Step, Tick, vars

-----------------------------------------------------------------------------
(* The lock.                                                               *)

\* A request becomes an owner by acquiring, and goes on to execute only when it
\* has found no record.
LEMMA BecomingAnOwner ==
    ASSUME RequestsInv, [Next]_vars, NEW j \in Request, Owner(j)'
    PROVE  /\ request'[j].key = request[j].key
           /\ request[j].key \in Key
           /\ \/ Acquire(j) /\ request'[j].pc = "recheck" /\ SetLock(j, Acquired(j))
                  /\ ~Redis!Present(LockOf(j))
              \/ /\ Owner(j)
                 /\ \/ request'[j].pc = "recheck"
                    \/ request[j].pc # "recheck"
                    \/ ~Redis!Present(Entry(j)) /\ UNCHANGED record
  <1>0. request \in [Request -> Progress] /\ KeyedAtTheStore /\ NoKey \notin Key
    BY TypeOfRequests, RequestsAssumption DEF RequestsInv
  <1>1. request'[j].pc \in Locked /\ ~request'[j].cancel /\ request'[j].key # NoKey
    BY DEF Owner
  <1>2. ASSUME NEW i \in Request, i # j, NEW r, request' = [request EXCEPT ![i] = r]
        PROVE  request'[j] = request[j]
    BY <1>0, <1>2
  <1>3. CASE request'[j] = request[j]
    BY <1>0, <1>1, <1>3 DEF Owner, Progress
  <1>4. ASSUME NEW k \in Key \cup {NoKey}, NEW payload \in Payload, Begin(j, k, payload)
        PROVE  FALSE
    BY <1>0, <1>1, <1>4 DEF Begin, Idle, Locked
  <1>5. ASSUME Done(j) PROVE FALSE
    BY <1>0, <1>1, <1>5 DEF Done, Idle, Locked
  <1>6. ASSUME NEW reply, Answer(j, reply) \/ Leave(j, reply) PROVE FALSE
    BY <1>0, <1>1, <1>6 DEF Answer, Leave, Locked, Progress
  <1>7. ASSUME NEW pc, Goto(j, pc)
        PROVE  request'[j].pc = pc /\ request'[j].key = request[j].key
    BY <1>0, <1>7 DEF Goto, Progress
  <1>8. CASE Limit(j) \/ Resolve(j) \/ AcceptJob(j) \/ Lookup(j) \/ Release(j) \/ Respond(j)
    <2>1. \/ Done(j) \/ \E reply : Answer(j, reply)
          \/ Goto(j, "documents") \/ Goto(j, "lookup") \/ Goto(j, "acquire")
          \/ Goto(j, "respond")
          \/ Goto(j, "executing") /\ request[j].key = NoKey
      BY <1>8 DEF Limit, Resolve, AcceptJob, Lookup, Release, Respond
    <2> QED
      BY <1>1, <1>5, <1>6, <1>7, <2>1 DEF Locked
  <1>9. CASE Acquire(j)
    <2>1. request[j].key \in Key
      BY <1>0, <1>9 DEF Acquire, At, KeyedAtTheStore
    <2>2. ~Redis!Present(LockOf(j)) /\ SetLock(j, Acquired(j)) /\ Goto(j, "recheck")
      BY <1>5, <1>9 DEF Acquire
    <2> QED
      BY <1>7, <1>9, <2>1, <2>2
  <1>10. CASE Recheck(j)
    <2>1. request[j].key \in Key /\ request[j].pc = "recheck" /\ ~request[j].cancel
      BY <1>0, <1>10 DEF Recheck, At, KeyedAtTheStore
    <2>2. /\ ~Redis!Present(Entry(j)) /\ UNCHANGED record
          /\ request' = [request EXCEPT ![j] =
                           [request[j] EXCEPT !.pc = "executing", !.beat = TRUE]]
      BY <1>6, <1>10 DEF Recheck
    <2>3. request'[j].key = request[j].key
      BY <1>0, <2>2 DEF Progress
    <2> QED
      BY <1>0, <2>1, <2>2, <2>3 DEF Owner, Locked
  <1>11. CASE Return(j)
    <2>1. request[j].pc = "executing" /\ ~request[j].cancel
      BY <1>11 DEF Return, At
    <2>2. request'[j].key = request[j].key
      BY <1>0, <1>11 DEF Return, Progress
    <2> QED
      BY <1>0, <1>1, <2>1, <2>2 DEF Owner, Locked, Progress
  <1>12. CASE Raise(j) \/ Store(j) \/ Interrupt(j)
    <2>1. Done(j) \/ \E reply : Leave(j, reply)
      BY <1>12 DEF Raise, Store, Interrupt
    <2> QED
      BY <1>5, <1>6, <2>1
  <1>13. CASE Renew(j) \/ RenewUnanswered(j)
    BY <1>0, <1>1, <1>3, <1>13 DEF Renew, RenewUnanswered, Progress
  <1>14. CASE Crash(j)
    BY <1>5, <1>14 DEF Crash, Done
  <1>15. CASE \E i \in Request \ {j} :
                 \/ \E k \in Key \cup {NoKey}, payload \in Payload : Begin(i, k, payload)
                 \/ Step(i) \/ Return(i) \/ Raise(i) \/ Renew(i)
                   \/ RenewUnanswered(i) \/ Crash(i)
    <2>1. PICK i \in Request \ {j} :
                 \/ \E k \in Key \cup {NoKey}, payload \in Payload : Begin(i, k, payload)
                 \/ Step(i) \/ Return(i) \/ Raise(i) \/ Renew(i)
                   \/ RenewUnanswered(i) \/ Crash(i)
      BY <1>15
    <2>2. UNCHANGED request \/ \E r : request' = [request EXCEPT ![i] = r]
      <3>1. ASSUME Done(i) \/ (\E pc : Goto(i, pc))
                    \/ (\E reply : Answer(i, reply) \/ Leave(i, reply))
            PROVE  \E r : request' = [request EXCEPT ![i] = r]
        BY <3>1 DEF Done, Goto, Answer, Leave
      <3>2. CASE \E k \in Key \cup {NoKey}, payload \in Payload : Begin(i, k, payload)
        BY <3>2 DEF Begin
      <3>3. CASE Step(i)
        <4>1. CASE \/ Limit(i) \/ Resolve(i) \/ AcceptJob(i) \/ Lookup(i) \/ Acquire(i)
                   \/ Store(i) \/ Release(i) \/ Interrupt(i) \/ Respond(i)
          BY <3>1, <4>1 DEF Limit, Resolve, AcceptJob, Lookup, Acquire, Store, Release,
                            Interrupt, Respond
        <4>2. CASE Recheck(i)
          BY <3>1, <4>2 DEF Recheck
        <4> QED
          BY <3>3, <4>1, <4>2 DEF Step
      <3>4. CASE Return(i) \/ Raise(i)
        BY <3>1, <3>4 DEF Return, Raise
      <3>5. CASE Renew(i) \/ RenewUnanswered(i) \/ Crash(i)
        BY <3>5 DEF Renew, RenewUnanswered, Crash
      <3> QED
        BY <2>1, <3>2, <3>3, <3>4, <3>5
    <2> QED
      BY <1>2, <1>3, <2>2
  <1>16. CASE Tick \/ UNCHANGED vars
    BY <1>3, <1>16 DEF Tick, vars
  <1> QED
    BY <1>4, <1>8, <1>9, <1>10, <1>11, <1>12, <1>13, <1>14, <1>15, <1>16 DEF Next, Step

\* Nobody else takes an owner's lock away while it lives.
LEMMA LockStaysHeld ==
    ASSUME RequestsInv, [Next]_vars, NEW j \in Request, Owner(j), Owner(j)',
           request[j].key \in Key, request'[j].key = request[j].key,
           LockOf(j).value = j, ~overrun'[request[j].key]
    PROVE  lock'[request[j].key].value = j
  <1> DEFINE k == request[j].key
  <1>0. /\ lock \in [Key -> Value(Request)] /\ overrun \in [Key -> BOOLEAN]
        /\ KeyedAtTheStore /\ j # None /\ k \in Key /\ lock[k].value = j
        /\ TypeOK
    BY RequestsAssumption DEF TypeOK, RequestsInv, LockOf
  <1>1. Redis!Present(lock[k])
    BY <1>0, EntryShape
  <1>2. ASSUME NEW i \in Request, NEW e, request[i].key \in Key, SetLock(i, e),
               request[i].key = k => e.value = j
        PROVE  lock'[k].value = j
    BY <1>0, <1>2 DEF SetLock
  <1>3. ASSUME NEW i \in Request, Acquire(i) PROVE lock'[k].value = j
    <2>1. request[i].key \in Key
      BY <1>0, <1>3 DEF Acquire, At, KeyedAtTheStore
    <2>2. request[i].key = k => Acquired(i) = lock[k] /\ LockOf(i) = lock[k]
      BY <1>1 DEF Acquired, Redis!SetIfAbsent, LockOf
    <2>3. \/ UNCHANGED lock \/ SetLock(i, LockOf(i)) \/ SetLock(i, Acquired(i))
      BY <1>3, AttemptIsEither DEF Acquire
    <2> QED
      BY <1>0, <1>2, <2>1, <2>2, <2>3
  <1>4. ASSUME NEW i \in Request, Release(i) PROVE lock'[k].value = j
    <2>1. request[i].key \in Key /\ i # j
      BY <1>0, <1>4 DEF Release, At, KeyedAtTheStore, Owner, Locked
    <2>2. request[i].key = k => Released(i) = lock[k] /\ LockOf(i) = lock[k]
      BY <1>0, <2>1 DEF Released, Redis!DeleteIfValue, LockOf
    <2>3. SetLock(i, LockOf(i)) \/ SetLock(i, Released(i))
      BY <1>4, AttemptIsEither DEF Release
    <2> QED
      BY <1>0, <1>2, <2>1, <2>2, <2>3
  <1>5. ASSUME NEW i \in Request, Renew(i) \/ RenewUnanswered(i) PROVE lock'[k].value = j
    <2>1. request[i].key \in Key
      BY <1>0, <1>5 DEF Renew, RenewUnanswered, KeyedAtTheStore
    <2>2. request[i].key = k => Renewed(i).value = j /\ LockOf(i).value = j
      BY <1>0 DEF Renewed, Redis!ExtendIfValue, LockOf, Value, Redis!Missing
    <2>3. UNCHANGED lock \/ SetLock(i, LockOf(i)) \/ SetLock(i, Renewed(i))
      BY <1>5, AttemptIsEither DEF Renew, RenewUnanswered
    <2> QED
      BY <1>0, <1>2, <2>1, <2>2, <2>3
  <1>6. ASSUME Tick PROVE lock'[k].value = j
    <2>1. ~Expiring(k)
      BY <1>0, <1>6 DEF Tick
    <2>2. lock[k].left # 1
      BY <1>0, <2>1 DEF Expiring
    <2>3. Redis!Elapsed(lock[k]).value = j
      BY <1>0, <1>1, <2>2, TickKeepsShape
    <2> QED
      BY <1>0, <1>6, <2>3 DEF Tick
  <1> QED
    BY <1>0, <1>3, <1>4, <1>5, <1>6, LockStep

\* Nothing is recorded for a key but by the owner of its lock.
LEMMA OnlyTheOwnerRecords ==
    ASSUME RequestsInv, NEW i \in Request, Store(i), ~overrun[request[i].key],
           NEW j \in Request, Owner(j), request[j].key = request[i].key
    PROVE  i = j
  <1>1. request[i].key \in Key /\ NoKey \notin Key /\ request[i].pc = "store"
    BY RequestsAssumption DEF Store, At, RequestsInv, KeyedAtTheStore
  <1>2. Owner(i)
    BY <1>1 DEF Owner, Store, At, Locked
  <1> QED
    BY <1>2 DEF RequestsInv, OwnerHoldsLock, LockOf

LEMMA OwnershipPreserved ==
    ASSUME RequestsInv, [Next]_vars
    PROVE  OwnerHoldsLock'
  <1> SUFFICES ASSUME NEW j \in Request, Owner(j)', ~overrun'[request'[j].key]
               PROVE  /\ lock'[request'[j].key].value = j
                      /\ request'[j].pc # "recheck" => ~Redis!Present(record'[request'[j].key])
    BY DEF OwnerHoldsLock, LockOf, Entry
  <1> DEFINE k == request[j].key
  <1>0. /\ request'[j].key = k /\ k \in Key
        /\ record \in [Key -> Value(Response)] /\ lock \in [Key -> Value(Request)]
        /\ overrun \in [Key -> BOOLEAN]
    BY BecomingAnOwner DEF RequestsInv, TypeOK
  <1>1. CASE /\ Acquire(j) /\ request'[j].pc = "recheck" /\ SetLock(j, Acquired(j))
             /\ ~Redis!Present(LockOf(j))
    <2>1. Acquired(j).value = j
      BY <1>1 DEF Acquired, Redis!SetIfAbsent, Redis!SetText
    <2> QED
      BY <1>0, <1>1, <2>1 DEF SetLock
  <1>2. CASE /\ Owner(j)
             /\ \/ request'[j].pc = "recheck"
                \/ request[j].pc # "recheck"
                \/ ~Redis!Present(Entry(j)) /\ UNCHANGED record
    <2>1. ~overrun[k]
      BY <1>0, LockStep DEF Tick, Acquire, Release, Renew, RenewUnanswered
    <2>2. LockOf(j).value = j /\ request[j].pc # "recheck" => ~Redis!Present(record[k])
      BY <1>2, <2>1 DEF RequestsInv, OwnerHoldsLock, Entry
    <2>3. lock'[k].value = j
      BY <1>0, <1>2, <2>1, LockStaysHeld DEF RequestsInv, OwnerHoldsLock
    <2>4. ASSUME ~Redis!Present(record[k]) PROVE ~Redis!Present(record'[k])
      <3>1. ASSUME NEW i \in Request, Store(i) PROVE ~Redis!Present(record'[k])
        <4>1. i # j
          <5>1. PICK reply : Leave(i, reply)
            BY <3>1 DEF Store
          <5>2. request'[i].pc = "release"
            BY <5>1, TypeOfRequests DEF Leave, Progress, RequestsInv
          <5> QED
            BY <5>2 DEF Owner, Locked
        <4>2. request[i].key # k /\ request[i].key \in Key
          BY <1>2, <2>1, <3>1, <4>1, OnlyTheOwnerRecords
          DEF Store, At, RequestsInv, KeyedAtTheStore
        <4> QED
          BY <1>0, <2>4, <3>1, <4>2 DEF Store, SetRecord
      <3>2. ASSUME Tick PROVE ~Redis!Present(record'[k])
        BY <1>0, <2>4, <3>2, TickKeepsShape DEF Tick
      <3> QED
        BY <2>4, <3>1, <3>2, RecordStep
    <2>5. request'[j].pc # "recheck" => ~Redis!Present(record[k])
      BY <1>2, <2>1 DEF RequestsInv, OwnerHoldsLock, Entry
    <2> QED
      BY <1>0, <2>3, <2>4, <2>5
  <1> QED
    BY <1>1, <1>2, BecomingAnOwner

-----------------------------------------------------------------------------
(* Theorems.                                                               *)

LEMMA InitialRequests == Init => RequestsInv
  <1> SUFFICES ASSUME Init PROVE RequestsInv
    OBVIOUS
  <1> USE RequestsAssumption DEF Init
  <1>1. Idle \in Progress
    BY DEF Idle, Progress, Await, Reply
  <1>2. /\ Redis!Missing \in Value(Response) /\ Redis!Missing \in Value(Request)
        /\ Counter!Missing \in [value : 0 .. Allowance + 1, left : 0 .. Window]
        /\ Counter!Missing.left = 0 /\ Counter!Missing.value = 0
    BY DEF Value, Counter!Missing
  <1>3. request \in [Request -> Progress]
    BY <1>1
  <1>4. TypeOK
    BY <1>2, <1>3 DEF TypeOK, Progress, Await
  <1>5. KeyedAtTheStore /\ StoresAReply /\ AnswersItsOwnPayload /\ OwnerHoldsLock
    BY DEF Idle, KeyedAtTheStore, StoresAReply, AnswersItsOwnPayload, OwnerHoldsLock,
           Owner, Locked, Active, Succeeded
  <1>6. CounterCounts /\ AllowanceHolds
    BY <1>2 DEF CounterCounts, AllowanceHolds
  <1> QED
    BY <1>4, <1>5, <1>6 DEF RequestsInv

LEMMA InvariantPreserved ==
    ASSUME RequestsInv, [Next]_vars
    PROVE  RequestsInv'
  <1>1. TypeOK'
    <2>1. request' \in [Request -> Progress]
      BY RequestsPreserved
    <2> QED
      BY <2>1, RecordPreserved, LockPreserved, CounterPreserved DEF TypeOK, Progress, Await
  <1> QED
    BY <1>1, AnswersPreserved, OwnershipPreserved, CounterPreserved DEF RequestsInv

\* RequestsInv is an invariant of the requests, whatever Redis, the executions
\* and the processes do (services/research/idempotency.py).
THEOREM RequestsInvariant == Spec => []RequestsInv
  BY InitialRequests, InvariantPreserved, PTL DEF Spec

\* Every variable keeps its type: a fresh run is always there to be answered.
THEOREM RequestsTyped == Spec => []TypeOK
  BY RequestsInvariant, PTL DEF RequestsInv

\* While no lock of its key has run out under its owner, the request that
\* acquired a lock holds it until it releases it, for any number of requests.
THEOREM OwnersHoldTheirLock == Spec => []OwnerHoldsLock
  BY RequestsInvariant, PTL DEF RequestsInv

\* At most one request at a time executes for an Idempotency-Key
\* (docs/architecture.md:146): two owners of one lock are the same request.
THEOREM ExclusiveExecution == Spec => []OneExecutionPerKey
  <1>1. RequestsInv => OneExecutionPerKey
    BY DEF RequestsInv, OwnerHoldsLock, OneExecutionPerKey, LockOf
  <1> QED
    BY <1>1, RequestsInvariant, PTL

\* A client gets an answer to what it asked, however keys are reused.
THEOREM OwnAnswers == Spec => []AnswersItsOwnPayload
  BY RequestsInvariant, PTL DEF RequestsInv

\* No more requests than the allowance pass in one window (rate_limits.py).
THEOREM AllowanceIsKept == Spec => []AllowanceHolds
  BY RequestsInvariant, PTL DEF RequestsInv

\* A completed record is not replaced by another one while it lives
\* (docs/architecture.md:155): only an owner that found none records.
THEOREM RecordsAreFinal == Spec => RecordIsFinal
  <1>1. ASSUME RequestsInv, [Next]_vars, NEW k \in Key,
               Redis!Present(record[k]), Redis!Present(record'[k]), ~overrun[k]
        PROVE  record'[k].value = record[k].value
    <2>0. record \in [Key -> Value(Response)]
      BY <1>1 DEF RequestsInv, TypeOK
    <2>1. ASSUME NEW i \in Request, Store(i)
          PROVE  record'[k].value = record[k].value
      <3>1. request[i].key \in Key /\ request[i].pc = "store" /\ NoKey \notin Key
        BY <1>1, <2>1, RequestsAssumption DEF Store, At, RequestsInv, KeyedAtTheStore
      <3>2. Owner(i)
        BY <2>1, <3>1 DEF Owner, Store, At, Locked
      <3>3. request[i].key # k
        BY <1>1, <3>1, <3>2 DEF RequestsInv, OwnerHoldsLock, Entry
      <3> QED
        BY <2>0, <2>1, <3>1, <3>3 DEF Store, SetRecord
    <2>2. ASSUME Tick PROVE record'[k].value = record[k].value
      BY <1>1, <2>0, <2>2, TickKeepsShape DEF Tick
    <2> QED
      BY <1>1, <2>1, <2>2, RecordStep
  <1>2. RequestsInv /\ [Next]_vars =>
          [\A k \in Key :
              Redis!Present(record[k]) /\ Redis!Present(record[k])' /\ ~overrun[k]
                 => record'[k].value = record[k].value]_vars
    BY <1>1 DEF Redis!Present
  <1> QED
    BY <1>2, RequestsInvariant, PTL DEF Spec, RecordIsFinal
===============================================================================

---------------------------- MODULE ResearchJobs ----------------------------
(***************************************************************************)
(* Durable research runs: the API processes' ResearchJobManager            *)
(* (services/research/jobs.py), the ResearchExecutionService it drives     *)
(* (services/research/execution.py), and the PostgreSQL rows and Redis     *)
(* keys both write.                                                        *)
(*                                                                         *)
(* A task is one asyncio task of one process working on one run; pc names  *)
(* the await it is about to perform, and every await is one action, so     *)
(* tasks, heartbeats, cancel requests, shutdowns and crashes interleave    *)
(* at exactly the points where the event loop can switch.  A database      *)
(* operation is one short transaction and therefore one atomic step.       *)
(*                                                                         *)
(* A lease's clock is a countdown: `left' is how many ticks remain until   *)
(* expires_at.                                                             *)
(***************************************************************************)
EXTENDS Naturals

CONSTANTS
    Process,      \* API processes
    Run,          \* research_runs ids; all ask the same tenant, model, query
    SyncRun,      \* runs submitted to POST /research-runs (no lease, no job)
    ScopedRun,    \* runs submitted with document_ids
    TTL,          \* lease_ttl_seconds, in ticks
    Warm,         \* scopes whose cache key an earlier run may have filled
    MaxRestarts,  \* bound: how many process starts after the first ones
    Fault         \* which of AnyFault the environment may do

AnyFault == {"crash",   \* a process dies
             "close",   \* a process shuts down gracefully
             "cancel",  \* a client cancels a run
             "work",    \* a workflow raises an exception
             "db",      \* a transaction fails and is rolled back
             "redis",   \* a Redis write is lost
             "late"}    \* a heartbeat is later than its interval

None  == "none"
Scope == {"all", "some"}     \* whole corpus, or the chosen documents only

ASSUME JobsAssumption == /\ SyncRun \subseteq Run
                         /\ ScopedRun \subseteq Run
                         /\ Warm \subseteq Scope
                         /\ TTL \in Nat \ {0}
                         /\ MaxRestarts \in Nat
                         /\ Fault \subseteq AnyFault

\* What a workflow's final state holds: a report retrieved from a scope, or
\* only a direct answer.
Result == Scope \cup {"answer"}

\* What the client asked for; the row itself does not record it.
Asked(r) == IF r \in ScopedRun THEN "some" ELSE "all"

VARIABLES
    status, report,  \* PostgreSQL: see RunLifecycle
    lease,           \* PostgreSQL: research_worker_leases, one row per run
    claims,          \* lease tokens issued so far (uuid4 in the code)
    checkpoints,     \* PostgreSQL: research_checkpoints, UNIQUE on seq
    audit,           \* PostgreSQL: event types in research_audit_events
    thread,          \* LangGraph checkpointer: the scope in the saved state
    progress,        \* Redis: the latest progress snapshot's status
    cache,           \* Redis: result cache, key scope -> what it answers
    process,         \* the processes' life
    restarts,        \* process starts after the first ones
    task,            \* the asyncio task of a process for a run
    canceller        \* a cancel request a process is serving, by its await

rowVars == <<status, report, lease, claims, checkpoints, audit, thread>>
vars    == <<status, report, lease, claims, checkpoints, audit, thread,
             progress, cache, process, restarts, task, canceller>>

\* The refinement mapping is the two columns a client sees.
Store == INSTANCE RunLifecycle WITH Run <- Run, Scope <- Scope,
                                    status <- status, report <- report

ActiveStatus   == Store!ActiveStatus
TerminalStatus == Store!TerminalStatus
Active(r)      == status[r] \in ActiveStatus

-----------------------------------------------------------------------------
(* Tasks.                                                                  *)

Opening == {"claim", "claimed", "open"}             \* _execute_owned, pre-try
Body    == {"start", "announce", "lookup", "working", "complete", "fail"}
Tail    == {"completed", "failed", "seal", "log"}   \* the run is settled
Closing == {"abort", "release"}                     \* except and finally
PC      == {None, "accept"} \cup Opening \cup Body \cup Tail \cup Closing

NoTask == [pc |-> None, owned |-> FALSE, resume |-> FALSE, scope |-> "all",
           token |-> 0, attempt |-> 0, beat |-> FALSE, cancel |-> FALSE,
           result |-> None, hit |-> FALSE]

Task == [pc      : PC,
         owned   : BOOLEAN,      \* run by ResearchJobManager
         resume  : BOOLEAN,      \* QueuedResearchExecution.resume
         scope   : Scope,        \* QueuedResearchExecution.document_ids
         token   : Nat,          \* lease.lease_token, 0 when none
         attempt : Nat,          \* lease.attempt
         beat    : BOOLEAN,      \* the heartbeat task is alive
         cancel  : BOOLEAN,      \* CancelledError is to be raised
         result  : Result \cup {None},  \* final_state (while working: its scope)
         hit     : BOOLEAN]      \* final_state came from the result cache

NoLease == [token |-> 0, attempt |-> 0, left |-> 0]
Lease   == [token : Nat, attempt : Nat, left : 0 .. TTL]

\* create_from_state: a direct answer has no report row.
ReportOf(t) == IF t.result = "answer" THEN None ELSE t.result

\* Moving to "release" is entering the finally block: the heartbeat stops.
MovedTo(t, pc) ==
    IF pc = None THEN NoTask
    ELSE [t EXCEPT !.pc = pc, !.beat = IF pc = "release" THEN FALSE ELSE @]

\* Mutant: the failed snapshot is published although mark_failed raised.
RaisedToPublish(t) ==
    IF t.pc \in {"start", "lookup", "working", "complete"} THEN "fail"
    ELSE IF t.pc = "fail" THEN "failed"
    ELSE IF t.pc \in {"seal", "log"} THEN "abort"
    ELSE IF t.pc = "abort" THEN "release"
    ELSE None

\* Mutant: a ResearchRunTransitionError of mark_completed is swallowed.
RaisedToSeal(t) ==
    IF t.pc \in {"start", "lookup", "working"} THEN "fail"
    ELSE IF t.pc = "complete" /\ t.owned THEN "seal"
    ELSE IF t.pc \in {"fail", "seal", "log"} /\ t.owned THEN "abort"
    ELSE IF t.pc = "abort" THEN "release"
    ELSE None

\* Where an Exception raised by the await at pc takes the task.
RaisedTo(t) ==
    IF t.pc \in {"start", "lookup", "working", "complete"} THEN "fail"
    ELSE IF t.pc \in {"fail", "seal", "log"} /\ t.owned THEN "abort"
    ELSE IF t.pc = "abort" THEN "release"
    ELSE None

\* Where a CancelledError raised by the await at pc takes the task.
CancelledTo(t) ==
    IF t.pc \in Body \cup Tail THEN "abort"
    ELSE IF t.pc = "abort" THEN "release"
    ELSE None

Raised(t)    == MovedTo(t, RaisedTo(t))
Cancelled(t) == [MovedTo(t, CancelledTo(t)) EXCEPT !.cancel = FALSE]

\* The task of p for r performs the await at pc; a pending cancellation
\* would have been raised instead.
At(p, r, pc) == task[p][r].pc = pc /\ ~task[p][r].cancel
Goto(p, r, pc) == task' = [task EXCEPT ![p][r] = MovedTo(@, pc)]
Raise(p, r)    == task' = [task EXCEPT ![p][r] = Raised(@)]

\* A job task that the manager knows: _schedule has been called.
Scheduled(p, r) == task[p][r].owned /\ task[p][r].pc \notin {None, "accept"}

\* A progress snapshot is best effort (_publish_progress).
Publish(r, s) ==
    \/ progress' = [progress EXCEPT ![r] = s]
    \/ "redis" \in Fault /\ UNCHANGED progress

OwnsLease(p, r) ==
    task[p][r].token # 0 /\ lease[r].token = task[p][r].token

\* Mutant: attempts counted from two.
OpenSeqOffByOne(t) == (t.attempt - 2) * 2

OpenSeq(t)  == (t.attempt - 1) * 2
SealSeq(t)  == (t.attempt - 1) * 2 + 1
HasSeq(r, n) == \E c \in checkpoints[r] : c.seq = n

-----------------------------------------------------------------------------
Init ==
    /\ Store!Init
    /\ lease       = [r \in Run |-> NoLease]
    /\ claims      = 0
    /\ checkpoints = [r \in Run |-> {}]
    /\ audit       = [r \in Run |-> {}]
    /\ thread      = [r \in Run |-> None]
    /\ progress    = [r \in Run |-> None]
    /\ cache \in [Scope -> Result \cup {None}]
    /\ \A s \in Scope : cache[s] \in IF s \in Warm THEN {None, "answer", s} ELSE {None}
    /\ process     = [p \in Process |-> "up"]
    /\ restarts    = 0
    /\ task        = [p \in Process |-> [r \in Run |-> NoTask]]
    /\ canceller   = [p \in Process |-> [r \in Run |-> None]]

(* Requests.                                                               *)

\* submit and execute begin with queue(): the row is committed first.
Submit(p, r) ==
    /\ process[p] = "up"
    /\ Store!Create(r)
    /\ task' = [task EXCEPT ![p][r] =
                  [NoTask EXCEPT !.pc = "accept", !.owned = r \notin SyncRun,
                                 !.scope = Asked(r)]]
    /\ UNCHANGED <<lease, claims, checkpoints, audit, thread, progress, cache,
                   process, restarts, canceller>>

\* queue() publishes and returns; only then is the job scheduled, whether or
\* not close() ran meanwhile.  A synchronous request goes straight on.
Accept(p, r) ==
    /\ At(p, r, "accept")
    /\ Publish(r, "queued")
    /\ Goto(p, r, IF task[p][r].owned THEN "claim" ELSE "start")
    /\ UNCHANGED <<rowVars, cache, process, restarts, canceller>>

\* cancel(): the row first, for whichever process owns the run.
CancelRow(p, r) ==
    /\ "cancel" \in Fault
    /\ process[p] = "up" /\ canceller[p][r] = None
    /\ Store!MarkCancelled(r)
    /\ canceller' = [canceller EXCEPT ![p][r] = "publish"]
    /\ UNCHANGED <<lease, claims, checkpoints, audit, thread, progress, cache,
                   process, restarts, task>>

CancelPublish(p, r) ==
    /\ canceller[p][r] = "publish"
    /\ Publish(r, "cancelled")
    /\ canceller' = [canceller EXCEPT ![p][r] = "interrupt"]
    /\ UNCHANGED <<rowVars, cache, process, restarts, task>>

\* Only a task of this process's manager can be interrupted.
CancelTask(p, r) ==
    /\ canceller[p][r] = "interrupt"
    /\ canceller' = [canceller EXCEPT ![p][r] = None]
    /\ task' = IF Scheduled(p, r) THEN [task EXCEPT ![p][r].cancel = TRUE]
               ELSE task
    /\ UNCHANGED <<rowVars, progress, cache, process, restarts>>

(* _execute_owned up to its try block.                                     *)

\* Mutant: a lease may be taken over one tick before it expires.
ClaimableEarly(r) == lease[r].left \in {0, 1}

\* The INSERT ... ON CONFLICT DO UPDATE: no row, or an expired one.
Claimable(r) == lease[r].left = 0

Claim(p, r) ==
    /\ At(p, r, "claim")
    /\ Claimable(r)
    /\ claims' = claims + 1
    /\ lease' = [lease EXCEPT ![r] = [token |-> claims + 1,
                                      attempt |-> @.attempt + 1,
                                      left |-> TTL]]
    /\ task' = [task EXCEPT ![p][r] =
                  [MovedTo(@, "claimed") EXCEPT !.token = claims + 1,
                                                !.attempt = lease[r].attempt + 1]]
    /\ UNCHANGED <<status, report, checkpoints, audit, thread, progress, cache,
                   process, restarts, canceller>>

ClaimRefused(p, r) ==
    /\ At(p, r, "claim")
    /\ ~Claimable(r)
    /\ Goto(p, r, None)
    /\ UNCHANGED <<rowVars, progress, cache, process, restarts, canceller>>

AuditClaim(p, r) ==
    /\ At(p, r, "claimed")
    /\ audit' = [audit EXCEPT ![r] = @ \cup {"claimed"}]
    /\ Goto(p, r, "open")
    /\ UNCHANGED <<status, report, lease, claims, checkpoints, thread, progress,
                   cache, process, restarts, canceller>>

\* The opening checkpoint, and the heartbeat with it.  An IntegrityError
\* ends the task here, outside the try block: the lease stays.
Open(p, r) ==
    /\ At(p, r, "open")
    /\ IF HasSeq(r, OpenSeq(task[p][r]))
       THEN Raise(p, r) /\ UNCHANGED checkpoints
       ELSE /\ checkpoints' = [checkpoints EXCEPT ![r] = @ \cup
                 {[seq  |-> OpenSeq(task[p][r]),
                   node |-> IF task[p][r].resume THEN "resumed" ELSE "queued"]}]
            /\ task' = [task EXCEPT ![p][r] = [@ EXCEPT !.pc = "start",
                                                        !.beat = TRUE]]
    /\ UNCHANGED <<status, report, lease, claims, audit, thread, progress, cache,
                   process, restarts, canceller>>

(* execute_queued.                                                         *)

\* mark_running, skipped when resuming; a lost race raises.
Start(p, r) ==
    /\ At(p, r, "start")
    /\ \/ task[p][r].resume /\ Goto(p, r, "announce") /\ UNCHANGED <<status, report>>
       \/ ~task[p][r].resume /\ Store!MarkRunning(r) /\ Goto(p, r, "announce")
       \/ /\ ~task[p][r].resume /\ status[r] # "queued"
          /\ Raise(p, r) /\ UNCHANGED <<status, report>>
    /\ UNCHANGED <<lease, claims, checkpoints, audit, thread, progress, cache,
                   process, restarts, canceller>>

Announce(p, r) ==
    /\ At(p, r, "announce")
    /\ Publish(r, "running")
    /\ Goto(p, r, "lookup")
    /\ UNCHANGED <<rowVars, cache, process, restarts, canceller>>

\* A cached answer replaces the workflow.
CacheHit(p, r) ==
    /\ At(p, r, "lookup")
    /\ cache[task[p][r].scope] # None
    /\ task' = [task EXCEPT ![p][r] =
                  [@ EXCEPT !.pc = "complete", !.hit = TRUE,
                            !.result = cache[task[p][r].scope]]]
    /\ UNCHANGED <<rowVars, progress, cache, process, restarts, canceller>>

\* A miss is always possible (expired, unreachable, disabled).  The graph
\* starts from the request, or resumes the thread's saved state; resuming a
\* thread that was never saved raises.
Launch(p, r) ==
    /\ At(p, r, "lookup")
    /\ IF task[p][r].resume /\ thread[r] = None
       THEN Raise(p, r) /\ UNCHANGED thread
       ELSE LET s == IF task[p][r].resume THEN thread[r] ELSE task[p][r].scope
            IN  /\ thread' = [thread EXCEPT ![r] = s]
                /\ task' = [task EXCEPT ![p][r] =
                              [@ EXCEPT !.pc = "working", !.result = s]]
    /\ UNCHANGED <<status, report, lease, claims, checkpoints, audit, progress,
                   cache, process, restarts, canceller>>

\* Each agent's start is announced from inside the workflow.
AgentStep(p, r) ==
    /\ At(p, r, "working")
    /\ Publish(r, "running")
    /\ UNCHANGED <<rowVars, cache, process, restarts, task, canceller>>

WorkflowReturns(p, r) ==
    /\ At(p, r, "working")
    /\ \/ Goto(p, r, "complete")
       \/ "work" \in Fault /\ Raise(p, r)
    /\ UNCHANGED <<rowVars, progress, cache, process, restarts, canceller>>

\* The intent router sent the query to the direct-answer node.
DirectAnswer(p, r) ==
    /\ At(p, r, "working")
    /\ task' = [task EXCEPT ![p][r] =
                  [@ EXCEPT !.pc = "complete", !.result = "answer"]]
    /\ UNCHANGED <<rowVars, progress, cache, process, restarts, canceller>>

\* Mutant: a completion may follow a cancellation.
CompletableLate(r) == status[r] \in {"running", "cancelled"}

\* mark_completed's WHERE clause.
Completable(r) == status[r] = "running"

Complete(p, r) ==
    /\ At(p, r, "complete")
    /\ IF Completable(r)
       THEN /\ Store!Set(r, "completed")
            /\ report' = [report EXCEPT ![r] = ReportOf(task[p][r])]
            /\ Goto(p, r, "completed")
       ELSE Raise(p, r) /\ UNCHANGED <<status, report>>
    /\ UNCHANGED <<lease, claims, checkpoints, audit, thread, progress, cache,
                   process, restarts, canceller>>

\* The completed snapshot, and after a miss the result cache under the key of
\* the task's own document_ids.  The two writes are separate awaits: the second
\* may be prevented, or lost.
PublishCompleted(p, r) ==
    /\ At(p, r, "completed")
    /\ Publish(r, "completed")
    /\ \/ /\ ~task[p][r].hit
          /\ cache' = [cache EXCEPT ![task[p][r].scope] = task[p][r].result]
       \/ UNCHANGED cache
    /\ Goto(p, r, IF task[p][r].owned THEN "seal" ELSE None)
    /\ UNCHANGED <<rowVars, process, restarts, canceller>>

Fail(p, r) ==
    /\ At(p, r, "fail")
    /\ \/ Store!MarkFailed(r) /\ Goto(p, r, "failed")
       \/ ~Active(r) /\ Raise(p, r) /\ UNCHANGED <<status, report>>
    /\ UNCHANGED <<lease, claims, checkpoints, audit, thread, progress, cache,
                   process, restarts, canceller>>

PublishFailed(p, r) ==
    /\ At(p, r, "failed")
    /\ Publish(r, "failed")
    /\ Goto(p, r, IF task[p][r].owned THEN "abort" ELSE None)
    /\ UNCHANGED <<rowVars, cache, process, restarts, canceller>>

(* The rest of _execute_owned.                                             *)

Seal(p, r) ==
    /\ At(p, r, "seal")
    /\ IF HasSeq(r, SealSeq(task[p][r]))
       THEN Raise(p, r) /\ UNCHANGED checkpoints
       ELSE /\ checkpoints' = [checkpoints EXCEPT ![r] = @ \cup
                 {[seq |-> SealSeq(task[p][r]), node |-> "completed"]}]
            /\ Goto(p, r, "log")
    /\ UNCHANGED <<status, report, lease, claims, audit, thread, progress, cache,
                   process, restarts, canceller>>

AuditEnd(p, r) ==
    /\ \/ /\ At(p, r, "log")
          /\ audit' = [audit EXCEPT ![r] = @ \cup {"completed"}]
       \/ /\ At(p, r, "abort")
          /\ audit' = [audit EXCEPT ![r] = @ \cup {"interrupted"}]
    /\ Goto(p, r, "release")
    /\ UNCHANGED <<status, report, lease, claims, checkpoints, thread, progress,
                   cache, process, restarts, canceller>>

\* Mutant: the DELETE names the run only.
ReleasedWithoutToken(p, r) == NoLease

\* The DELETE matches worker and token; it removes the attempt count too.
Released(p, r) == IF OwnsLease(p, r) THEN NoLease ELSE lease[r]

Release(p, r) ==
    /\ At(p, r, "release")
    /\ lease' = [lease EXCEPT ![r] = Released(p, r)]
    /\ Goto(p, r, None)
    /\ UNCHANGED <<status, report, claims, checkpoints, audit, thread, progress,
                   cache, process, restarts, canceller>>

\* A pending CancelledError is raised at the await the task is in.
Interrupt(p, r) ==
    /\ task[p][r].cancel
    /\ task' = [task EXCEPT ![p][r] = Cancelled(@)]
    /\ UNCHANGED <<rowVars, progress, cache, process, restarts, canceller>>

\* A transaction of the task fails and is rolled back.
DbError(p, r) ==
    /\ "db" \in Fault
    /\ \E pc \in Opening \cup Closing \cup {"start", "complete", "fail", "seal", "log"} :
          At(p, r, pc)
    /\ ~(task[p][r].pc = "start" /\ task[p][r].resume)
    /\ Raise(p, r)
    /\ UNCHANGED <<rowVars, progress, cache, process, restarts, canceller>>

(* _heartbeat: its UPDATE needs the token, an unexpired lease, an active row. *)

\* Mutant: a renewal does not look at the run.
RenewableWhateverStatus(p, r) == OwnsLease(p, r) /\ lease[r].left > 0

\* Mutant: a renewal is refused once the run has started.
RenewableWhileQueued(p, r) ==
    OwnsLease(p, r) /\ lease[r].left > 0 /\ status[r] = "queued"

Renewable(p, r) == OwnsLease(p, r) /\ lease[r].left > 0 /\ Active(r)

HeartbeatRenews(p, r) ==
    /\ task[p][r].beat
    /\ Renewable(p, r)
    /\ lease' = [lease EXCEPT ![r].left = TTL]
    /\ UNCHANGED <<status, report, claims, checkpoints, audit, thread, progress,
                   cache, process, restarts, task, canceller>>

HeartbeatCancelsOwner(p, r) ==
    /\ task[p][r].beat
    /\ ~Renewable(p, r)
    /\ task' = [task EXCEPT ![p][r] = [@ EXCEPT !.cancel = TRUE, !.beat = FALSE]]
    /\ UNCHANGED <<rowVars, progress, cache, process, restarts, canceller>>

\* An exception in the heartbeat task is retrieved by nobody.
HeartbeatDies(p, r) ==
    /\ "db" \in Fault
    /\ task[p][r].beat
    /\ task' = [task EXCEPT ![p][r].beat = FALSE]
    /\ UNCHANGED <<rowVars, progress, cache, process, restarts, canceller>>

-----------------------------------------------------------------------------
(* Time and processes.                                                     *)

\* heartbeat_seconds < lease_ttl_seconds: unless it is late, a heartbeat
\* comes before its lease runs out, and so does the first one after a claim.
Tended(p, r) ==
    OwnsLease(p, r) /\ (task[p][r].beat \/ task[p][r].pc \in {"claimed", "open"})

Tick ==
    /\ \E r \in Run : lease[r].left > 0
    /\ "late" \notin Fault =>
          \A p \in Process, r \in Run : Tended(p, r) => lease[r].left # 1
    /\ lease' = [r \in Run |->
                   [lease[r] EXCEPT !.left = IF @ = 0 THEN 0 ELSE @ - 1]]
    /\ UNCHANGED <<status, report, claims, checkpoints, audit, thread, progress,
                   cache, process, restarts, task, canceller>>

Dead(p) == /\ task'      = [task EXCEPT ![p] = [r \in Run |-> NoTask]]
           /\ canceller' = [canceller EXCEPT ![p] = [r \in Run |-> None]]

Crash(p) ==
    /\ "crash" \in Fault
    /\ process[p] # "down" /\ restarts < MaxRestarts
    /\ process' = [process EXCEPT ![p] = "down"]
    /\ Dead(p)
    /\ UNCHANGED <<rowVars, progress, cache, restarts>>

\* close() cancels the tasks it finds.
Close(p) ==
    /\ "close" \in Fault
    /\ process[p] = "up" /\ restarts < MaxRestarts
    /\ process' = [process EXCEPT ![p] = "closing"]
    /\ task' = [task EXCEPT ![p] = [r \in Run |->
                  IF Scheduled(p, r) THEN [@[r] EXCEPT !.cancel = TRUE] ELSE @[r]]]
    /\ UNCHANGED <<rowVars, progress, cache, restarts, canceller>>

\* The process ends once the tasks it awaits have.
Exit(p) ==
    /\ process[p] = "closing"
    /\ \A r \in Run : ~task[p][r].cancel /\ task[p][r].pc \notin Closing
    /\ process' = [process EXCEPT ![p] = "down"]
    /\ Dead(p)
    /\ UNCHANGED <<rowVars, progress, cache, restarts>>

\* list_recoverable_runs.
Recoverable(r) == Active(r) /\ lease[r].left = 0

\* start(): every recoverable run is scheduled, without its document_ids.
Restart(p) ==
    /\ process[p] = "down" /\ restarts < MaxRestarts
    /\ process' = [process EXCEPT ![p] = "up"]
    /\ restarts' = restarts + 1
    /\ task' = [task EXCEPT ![p] = [r \in Run |->
                  IF Recoverable(r)
                  THEN [NoTask EXCEPT !.pc = "claim", !.owned = TRUE,
                                      !.resume = status[r] = "running"]
                  ELSE NoTask]]
    /\ UNCHANGED <<rowVars, progress, cache, canceller>>

-----------------------------------------------------------------------------
\* What the event loop does on its own once the awaited operation is done.
TaskStep(p, r) ==
    \/ Accept(p, r)
    \/ Claim(p, r) \/ ClaimRefused(p, r) \/ AuditClaim(p, r) \/ Open(p, r)
    \/ Start(p, r) \/ Announce(p, r) \/ CacheHit(p, r) \/ Launch(p, r)
    \/ Complete(p, r) \/ PublishCompleted(p, r)
    \/ Fail(p, r) \/ PublishFailed(p, r)
    \/ Seal(p, r) \/ AuditEnd(p, r) \/ Release(p, r)
    \/ Interrupt(p, r)

CancelStep(p, r) == CancelPublish(p, r) \/ CancelTask(p, r)

Next ==
    \/ \E p \in Process, r \in Run :
          \/ Submit(p, r) \/ CancelRow(p, r) \/ CancelStep(p, r)
          \/ TaskStep(p, r)
          \/ AgentStep(p, r) \/ WorkflowReturns(p, r) \/ DirectAnswer(p, r)
          \/ DbError(p, r)
          \/ HeartbeatRenews(p, r) \/ HeartbeatCancelsOwner(p, r)
          \/ HeartbeatDies(p, r)
    \/ \E p \in Process : Crash(p) \/ Close(p) \/ Exit(p) \/ Restart(p)
    \/ Tick

Spec == Init /\ [][Next]_vars

\* The event loop runs what is ready, timers fire, time passes, and a process
\* that is down is started again while MaxRestarts allows it.  Nothing obliges
\* a workflow to return.
Fairness ==
    /\ \A p \in Process, r \in Run :
          /\ WF_vars(TaskStep(p, r)) /\ WF_vars(CancelStep(p, r))
          /\ WF_vars(HeartbeatCancelsOwner(p, r)) /\ WF_vars(HeartbeatRenews(p, r))
    /\ \A p \in Process : WF_vars(Exit(p)) /\ WF_vars(Restart(p))
    /\ WF_vars(Tick)

LiveSpec == Spec /\ Fairness

-----------------------------------------------------------------------------
(* Properties.                                                             *)

TypeOK ==
    /\ Store!TypeOK
    /\ lease \in [Run -> Lease]
    /\ claims \in Nat
    /\ checkpoints \in [Run -> SUBSET [seq : Nat,
                                       node : {"queued", "resumed", "completed"}]]
    /\ audit \in [Run -> SUBSET {"claimed", "completed", "interrupted"}]
    /\ thread \in [Run -> Scope \cup {None}]
    /\ progress \in [Run -> {None} \cup ActiveStatus \cup TerminalStatus]
    /\ cache \in [Scope -> Result \cup {None}]
    /\ process \in [Process -> {"up", "closing", "down"}]
    /\ restarts \in 0 .. MaxRestarts
    /\ task \in [Process -> [Run -> Task]]
    /\ canceller \in [Process -> [Run -> {None, "publish", "interrupt"}]]

(* The facts the properties below rest on: with TypeOK, an inductive       *)
(* invariant.                                                              *)

\* Only the manager's tasks claim, open and seal, and from its claim on such a
\* task carries the attempt and the token of its lease.
Attempted ==
    \A p \in Process, r \in Run :
        LET t == task[p][r] IN
        /\ t.pc \in Opening \cup {"seal", "log"} => t.owned
        /\ t.owned /\ t.pc \notin {None, "accept", "claim"}
              => t.attempt >= 1 /\ t.token >= 1

\* Tokens are issued once.
TokensUnique ==
    /\ \A r \in Run : lease[r].token <= claims
    /\ \A p \in Process, r \in Run : task[p][r].token <= claims
    /\ \A p, q \in Process, r, s \in Run :
          task[p][r].token = task[q][s].token /\ task[p][r].token # 0
             => p = q /\ r = s

\* A task that reports an outcome reports the one the row has.
OutcomeKnown ==
    \A p \in Process, r \in Run :
        /\ task[p][r].pc \in {"completed", "seal", "log"}
              => status[r] = "completed" /\ report[r] = ReportOf(task[p][r])
        /\ task[p][r].pc = "failed" => status[r] = "failed"
        /\ canceller[p][r] # None => status[r] = "cancelled"
        /\ task[p][r].pc \in {"working", "complete"} => task[p][r].result # None

\* With heartbeats in time, a worker that may still act holds its lease.
WorkerHoldsLease ==
    Fault \cap {"late", "db"} = {} =>
        \A p \in Process, r \in Run :
            LET t == task[p][r] IN
            t.owned /\ ~t.cancel /\ t.pc \in {"claimed", "open"} \cup Body
               => /\ OwnsLease(p, r) /\ lease[r].left > 0
                  /\ t.pc \in Body => t.beat

\* All of them: what is inductive.
JobsInv == TypeOK /\ Attempted /\ TokensUnique /\ OutcomeKnown /\ WorkerHoldsLease

\* A run has a report only once it is completed, and as long as a worker is
\* sealing and announcing it, it is that worker's own: no other worker's
\* completion came in between (mark_completed commits the status and the report
\* together and only from running).
ReportOfTheWinner ==
    \A r \in Run :
        /\ report[r] # None => status[r] = "completed"
        /\ \A p \in Process : task[p][r].pc \in {"completed", "seal", "log"}
                                 => report[r] = ReportOf(task[p][r])

\* The run table seen from outside is RunLifecycle: one terminal status per
\* run, never rewritten, and a report that never changes.
Lifecycle == Store!Spec

\* A terminal snapshot is published only after the row reached that status, so
\* it never announces an outcome the row does not have (execute_queued and
\* cancel publish after their transaction).
SnapshotNeverLies ==
    \A r \in Run : progress[r] \in TerminalStatus => status[r] = progress[r]

\* The terminal checkpoint is appended only behind a successful
\* mark_completed, never by a worker that lost the race for the run.
SealedMeansCompleted ==
    \A r \in Run : (\E c \in checkpoints[r] : c.node = "completed")
                       => status[r] = "completed"

\* An unexpired lease changes hands only by its own holder's release: neither
\* a claim nor the release of a former owner takes it away.
LeaseIsFenced ==
    [][\A r \in Run :
          lease[r].left > 0 /\ lease'[r].token # lease[r].token
             => \E p \in Process : OwnsLease(p, r) /\ task[p][r].pc = "release"]_vars

\* Working on the run: about to change the row, call a model or a tool.
Executing(p, r) == task[p][r].pc \in Body /\ ~task[p][r].cancel

\* At most one job task executes a run, across all processes, as long as
\* heartbeats are in time and do not fail.
OneWorkerPerRun ==
    \A r \in Run, p, q \in Process :
        /\ task[p][r].owned /\ Executing(p, r)
        /\ task[q][r].owned /\ Executing(q, r)
        => p = q

\* The same of every task, jobs and synchronous requests alike.
OneExecutorPerRun ==
    \A r \in Run, p, q \in Process : Executing(p, r) /\ Executing(q, r) => p = q

\* After a cancellation every worker stops working on the run, the one in
\* another process by its heartbeat, even if the workflow never returns.
CancelStopsWork ==
    \A p \in Process, r \in Run :
        (status[r] = "cancelled" /\ task[p][r].owned /\ Executing(p, r))
            ~> ~Executing(p, r)

\* The workflow's own timeouts and bounded retries make it return.
WorkflowsReturn == \A p \in Process, r \in Run : WF_vars(WorkflowReturns(p, r))

\* An accepted run reaches a terminal status, if workflows return and no
\* process goes down: start() would miss a run whose lease outlives its owner.
EveryRunSettles ==
    (\A p \in Process : [](process[p] = "up")) /\ WorkflowsReturn
        => \A r \in Run : Active(r) ~> ~Active(r)

\* A task that claimed a run can write its opening checkpoint, so that an
\* interrupted run can be taken up again (docs/architecture.md:112).
ClaimedRunCanOpen ==
    \A p \in Process, r \in Run :
        task[p][r].pc = "open" => ~HasSeq(r, OpenSeq(task[p][r]))
=============================================================================

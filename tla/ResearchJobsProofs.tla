------------------------ MODULE ResearchJobsProofs ------------------------
(***************************************************************************)
(* Theorems about ResearchJobs, for every set of processes and runs, every *)
(* TTL, every number of restarts and every set of faults.                  *)
(***************************************************************************)
EXTENDS ResearchJobs, TLAPS

-----------------------------------------------------------------------------
(* Type correctness.                                                       *)

TaskFn == [Process -> [Run -> Task]]

\* A task moved to another await is a task.
LEMMA MovedToType ==
    ASSUME NEW t \in Task, NEW pc \in PC
    PROVE  MovedTo(t, pc) \in Task
<1>1. NoTask \in Task
  BY DEF NoTask, Task, PC, Scope, None
<1>2. [t EXCEPT !.pc = pc, !.beat = IF pc = "release" THEN FALSE ELSE @] \in Task
  <2>1. (IF pc = "release" THEN FALSE ELSE t.beat) \in BOOLEAN
    BY DEF Task
  <2>2. QED
    BY <2>1 DEF Task
<1>3. QED
  BY <1>1, <1>2 DEF MovedTo

\* So is one an Exception or a CancelledError was raised in.
LEMMA RaisedType ==
    ASSUME NEW t \in Task
    PROVE  Raised(t) \in Task /\ Cancelled(t) \in Task
<1>1. RaisedTo(t) \in PC /\ CancelledTo(t) \in PC
  BY DEF RaisedTo, CancelledTo, PC, Opening, Body, Tail, Closing
<1>2. Raised(t) \in Task /\ MovedTo(t, CancelledTo(t)) \in Task
  BY <1>1, MovedToType DEF Raised
<1>3. QED
  BY <1>2 DEF Cancelled, Task

\* Changing the task of one process for one run.
LEMMA SetTaskType ==
    ASSUME task \in TaskFn, NEW p \in Process, NEW r \in Run, NEW t \in Task,
           task' = [task EXCEPT ![p][r] = t]
    PROVE  task' \in TaskFn
BY DEF TaskFn

\* Moving a task to its next await keeps the type of task.
LEMMA GotoType ==
    ASSUME task \in TaskFn, NEW p \in Process, NEW r \in Run, NEW pc \in PC,
           Goto(p, r, pc)
    PROVE  task' \in TaskFn
<1>1. task[p][r] \in Task
  BY DEF TaskFn
<1>2. MovedTo(task[p][r], pc) \in Task
  BY <1>1, MovedToType
<1>3. task' = [task EXCEPT ![p][r] = MovedTo(task[p][r], pc)]
  BY DEF Goto
<1>4. QED
  BY <1>2, <1>3, SetTaskType

\* So does raising an exception in it.
LEMMA RaiseType ==
    ASSUME task \in TaskFn, NEW p \in Process, NEW r \in Run, Raise(p, r)
    PROVE  task' \in TaskFn
<1>1. Raised(task[p][r]) \in Task
  BY RaisedType DEF TaskFn
<1>2. task' = [task EXCEPT ![p][r] = Raised(task[p][r])]
  BY DEF Raise
<1>3. QED
  BY <1>1, <1>2, SetTaskType

\* A best-effort snapshot keeps the snapshots well typed.
Snapshot == [Run -> {None} \cup ActiveStatus \cup TerminalStatus]

\* Publishing a snapshot keeps the type of progress.
LEMMA PublishType ==
    ASSUME progress \in Snapshot, NEW r \in Run,
           NEW s \in ActiveStatus \cup TerminalStatus, Publish(r, s)
    PROVE  progress' \in Snapshot
BY DEF Publish, Snapshot

\* The initial states have the types.
LEMMA InitType == Init => TypeOK
BY JobsAssumption
   DEF Init, TypeOK, Store!Init, Store!TypeOK, Store!NoReport, NoLease, Lease,
       NoTask, Task, PC, None, Scope, Store!Status

\* Every step keeps the types.
LEMMA TypeStep ==
    ASSUME TypeOK, Attempted, [Next]_vars
    PROVE  TypeOK'
<1> USE JobsAssumption
<1>t. task \in TaskFn
  BY DEF TypeOK, TaskFn
<1>g. progress \in Snapshot
  BY DEF TypeOK, Snapshot
<1>n. {None, "accept", "claim", "claimed", "open", "start", "announce", "lookup",
       "working", "complete", "fail", "completed", "failed", "seal", "log",
       "abort", "release"} \subseteq PC
  BY DEF PC, None, Opening, Body, Tail, Closing
<1>s. ActiveStatus = {"queued", "running"}
      /\ TerminalStatus = {"completed", "failed", "cancelled"}
  BY DEF ActiveStatus, TerminalStatus, Store!ActiveStatus, Store!TerminalStatus
<1>k. \A p \in Process, r \in Run : task[p][r] \in Task
  BY <1>t DEF TaskFn
<1>1. ASSUME NEW p \in Process, NEW r \in Run, Submit(p, r) PROVE TypeOK'
  <2> DEFINE new == [NoTask EXCEPT !.pc = "accept", !.owned = r \notin SyncRun,
                                   !.scope = Asked(r)]
  <2>1. (r \notin SyncRun) \in BOOLEAN /\ Asked(r) \in Scope
    BY DEF Asked, Scope
  <2>2. NoTask \in Task
    BY DEF NoTask, Task, PC, None, Scope
  <2>3. new \in Task
    BY <2>1, <2>2, <1>n DEF Task
  <2>4. task' = [task EXCEPT ![p][r] = new]
    BY <1>1 DEF Submit
  <2>5. task' \in TaskFn
    BY <2>3, <2>4, <1>t, SetTaskType
  <2>6. QED
    BY <1>1, <2>5 DEF Submit, TypeOK, TaskFn, Store!TypeOK, Store!Create, Store!Set,
       Store!Status, Store!ActiveStatus
<1>2. ASSUME NEW p \in Process, NEW r \in Run, Accept(p, r) PROVE TypeOK'
  <2>1. task' \in TaskFn
    <3>1. CASE task[p][r].owned
      BY <1>2, <3>1, <1>n, <1>t, GotoType DEF Accept
    <3>2. CASE ~task[p][r].owned
      BY <1>2, <3>2, <1>n, <1>t, GotoType DEF Accept
    <3>3. QED
      BY <3>1, <3>2
  <2>2. progress' \in Snapshot
    BY <1>2, <1>g, <1>s, PublishType DEF Accept
  <2>3. QED
    BY <1>2, <2>1, <2>2 DEF Accept, TypeOK, TaskFn, Snapshot, Store!TypeOK, rowVars
<1>3. ASSUME NEW p \in Process, NEW r \in Run, CancelRow(p, r) PROVE TypeOK'
  BY <1>3 DEF CancelRow, TypeOK, Store!TypeOK, Store!MarkCancelled, Store!Set,
     Store!Status, Store!TerminalStatus
<1>4. ASSUME NEW p \in Process, NEW r \in Run, CancelStep(p, r) PROVE TypeOK'
  <2>1. CASE CancelPublish(p, r)
    <3>1. progress' \in Snapshot
      BY <2>1, <1>g, <1>s, PublishType DEF CancelPublish
    <3>2. QED
      BY <2>1, <3>1 DEF CancelPublish, TypeOK, Snapshot, Store!TypeOK, rowVars
  <2>2. CASE CancelTask(p, r)
    <3>1. [task[p][r] EXCEPT !.cancel = TRUE] \in Task
      BY <1>k DEF Task
    <3>2. task' \in TaskFn
      BY <2>2, <3>1, <1>t, SetTaskType DEF CancelTask
    <3>3. QED
      BY <2>2, <3>2 DEF CancelTask, TypeOK, TaskFn, Store!TypeOK, rowVars
  <2>3. QED
    BY <1>4, <2>1, <2>2 DEF CancelStep
<1>5. ASSUME NEW p \in Process, NEW r \in Run, Claim(p, r) PROVE TypeOK'
  <2>1. MovedTo(task[p][r], "claimed") \in Task
    BY <1>k, <1>n, MovedToType
  <2>2. lease[r].attempt + 1 \in Nat /\ claims + 1 \in Nat
    BY DEF TypeOK, Lease
  <2>3. [MovedTo(task[p][r], "claimed") EXCEPT
           !.token = claims + 1, !.attempt = lease[r].attempt + 1] \in Task
    BY <2>1, <2>2 DEF Task
  <2>4. task' \in TaskFn
    BY <1>5, <2>3, <1>t, SetTaskType DEF Claim
  <2>5. lease' \in [Run -> Lease]
    BY <1>5, <2>2 DEF Claim, TypeOK, Lease
  <2>6. QED
    BY <1>5, <2>2, <2>4, <2>5 DEF Claim, TypeOK, TaskFn, Store!TypeOK
<1>6. ASSUME NEW p \in Process, NEW r \in Run,
             ClaimRefused(p, r) \/ AuditClaim(p, r)
      PROVE  TypeOK'
  <2>1. task' \in TaskFn
    BY <1>6, <1>n, <1>t, GotoType DEF ClaimRefused, AuditClaim
  <2>2. CASE ClaimRefused(p, r)
    BY <2>1, <2>2 DEF ClaimRefused, TypeOK, TaskFn, Store!TypeOK, rowVars
  <2>3. CASE AuditClaim(p, r)
    BY <2>1, <2>3 DEF AuditClaim, TypeOK, TaskFn, Store!TypeOK
  <2>4. QED
    BY <1>6, <2>2, <2>3
<1>7. ASSUME NEW p \in Process, NEW r \in Run, Open(p, r) PROVE TypeOK'
  <2>1. [task[p][r] EXCEPT !.pc = "start", !.beat = TRUE] \in Task
    BY <1>k, <1>n DEF Task
  <2>2. task' \in TaskFn
    BY <1>7, <2>1, <1>t, SetTaskType, RaiseType DEF Open
  <2>3. OpenSeq(task[p][r]) \in Nat
    BY <1>7, <1>k DEF Open, At, Attempted, Opening, OpenSeq, Task, None
  <2> DEFINE new == [seq  |-> OpenSeq(task[p][r]),
                     node |-> IF task[p][r].resume THEN "resumed" ELSE "queued"]
             Row == [seq : Nat, node : {"queued", "resumed", "completed"}]
  <2>a. new \in Row
    BY <2>3
  <2>b. \/ UNCHANGED checkpoints
        \/ checkpoints' = [checkpoints EXCEPT ![r] = checkpoints[r] \cup {new}]
    BY <1>7 DEF Open
  <2>c. checkpoints \in [Run -> SUBSET Row]
    BY DEF TypeOK
  <2>d. checkpoints[r] \cup {new} \in SUBSET Row
    BY <2>a, <2>c
  <2> HIDE DEF new, Row
  <2>e. checkpoints' \in [Run -> SUBSET Row]
    BY <2>b, <2>c, <2>d
  <2>4. checkpoints' \in [Run -> SUBSET [seq : Nat,
                                         node : {"queued", "resumed", "completed"}]]
    BY <2>e DEF Row
  <2>5. QED
    BY <1>7, <2>2, <2>4 DEF Open, TypeOK, TaskFn, Store!TypeOK
<1>8. ASSUME NEW p \in Process, NEW r \in Run, Start(p, r) PROVE TypeOK'
  <2>1. task' \in TaskFn
    BY <1>8, <1>n, <1>t, GotoType, RaiseType DEF Start
  <2>2. Store!TypeOK'
    BY <1>8 DEF Start, TypeOK, Store!TypeOK, Store!MarkRunning, Store!Set,
       Store!Status, Store!ActiveStatus
  <2>3. QED
    BY <1>8, <2>1, <2>2 DEF Start, TypeOK, TaskFn
<1>9. ASSUME NEW p \in Process, NEW r \in Run, Announce(p, r) PROVE TypeOK'
  <2>1. task' \in TaskFn
    BY <1>9, <1>n, <1>t, GotoType DEF Announce
  <2>2. progress' \in Snapshot
    BY <1>9, <1>g, <1>s, PublishType DEF Announce
  <2>3. QED
    BY <1>9, <2>1, <2>2 DEF Announce, TypeOK, TaskFn, Snapshot, Store!TypeOK, rowVars
<1>10. ASSUME NEW p \in Process, NEW r \in Run, CacheHit(p, r) PROVE TypeOK'
  <2> DEFINE new == [task[p][r] EXCEPT !.pc = "complete", !.hit = TRUE,
                                       !.result = cache[task[p][r].scope]]
  <2>1. task[p][r].scope \in Scope
    BY <1>k DEF Task
  <2>2. cache[task[p][r].scope] \in Result \cup {None}
    BY <2>1 DEF TypeOK
  <2>3. new \in Task
    BY <2>2, <1>k, <1>n DEF Task
  <2>4. task' = [task EXCEPT ![p][r] = new]
    BY <1>10 DEF CacheHit
  <2>5. task' \in TaskFn
    BY <2>3, <2>4, <1>t, SetTaskType
  <2>6. QED
    BY <1>10, <2>5 DEF CacheHit, TypeOK, TaskFn, Store!TypeOK, rowVars
<1>11d. ASSUME NEW p \in Process, NEW r \in Run, DirectAnswer(p, r) PROVE TypeOK'
  <2> DEFINE new == [task[p][r] EXCEPT !.pc = "complete", !.result = "answer"]
  <2>1. new \in Task
    BY <1>k, <1>n DEF Task, Result
  <2>2. task' = [task EXCEPT ![p][r] = new]
    BY <1>11d DEF DirectAnswer
  <2>3. task' \in TaskFn
    BY <2>1, <2>2, <1>t, SetTaskType
  <2>4. QED
    BY <1>11d, <2>3 DEF DirectAnswer, TypeOK, TaskFn, Store!TypeOK, rowVars
<1>11. ASSUME NEW p \in Process, NEW r \in Run, Launch(p, r) PROVE TypeOK'
  <2> DEFINE s == IF task[p][r].resume THEN thread[r] ELSE task[p][r].scope
  <2>1. CASE task[p][r].resume /\ thread[r] = None
    <3>1. task' \in TaskFn
      BY <1>11, <2>1, <1>t, RaiseType DEF Launch
    <3>2. QED
      BY <1>11, <2>1, <3>1 DEF Launch, TypeOK, TaskFn, Store!TypeOK
  <2>2. CASE ~(task[p][r].resume /\ thread[r] = None)
    <3>1. s \in Scope
      BY <2>2, <1>k DEF TypeOK, Task
    <3>2. [task[p][r] EXCEPT !.pc = "working", !.result = s] \in Task
      BY <3>1, <1>k, <1>n DEF Task, Result
    <3>3. /\ thread' = [thread EXCEPT ![r] = s]
          /\ task' = [task EXCEPT ![p][r] =
                        [task[p][r] EXCEPT !.pc = "working", !.result = s]]
      BY <1>11, <2>2 DEF Launch
    <3>4. task' \in TaskFn
      BY <3>2, <3>3, <1>t, SetTaskType
    <3>5. QED
      BY <1>11, <3>1, <3>3, <3>4 DEF Launch, TypeOK, TaskFn, Store!TypeOK
  <2>3. QED
    BY <2>1, <2>2
<1>12. ASSUME NEW p \in Process, NEW r \in Run, AgentStep(p, r) PROVE TypeOK'
  <2>1. progress' \in Snapshot
    BY <1>12, <1>g, <1>s, PublishType DEF AgentStep
  <2>2. QED
    BY <1>12, <2>1 DEF AgentStep, TypeOK, Snapshot, Store!TypeOK, rowVars
<1>13. ASSUME NEW p \in Process, NEW r \in Run,
              WorkflowReturns(p, r) \/ DbError(p, r)
       PROVE  TypeOK'
  <2>1. task' \in TaskFn
    BY <1>13, <1>n, <1>t, GotoType, RaiseType DEF WorkflowReturns, DbError
  <2>2. QED
    BY <1>13, <2>1 DEF WorkflowReturns, DbError, TypeOK, TaskFn, Store!TypeOK, rowVars
<1>14. ASSUME NEW p \in Process, NEW r \in Run, Complete(p, r) PROVE TypeOK'
  <2>1. task' \in TaskFn
    BY <1>14, <1>n, <1>t, GotoType, RaiseType DEF Complete
  <2>2. ReportOf(task[p][r]) \in Scope \cup {None}
    BY <1>k DEF Task, Result, ReportOf
  <2>a. status' \in [Run -> Store!Status]
    BY <1>14 DEF Complete, TypeOK, Store!TypeOK, Store!Set, Store!Status,
       Store!TerminalStatus
  <2>b. \/ UNCHANGED report
        \/ report' = [report EXCEPT ![r] = ReportOf(task[p][r])]
    BY <1>14 DEF Complete
  <2>c. report' \in [Run -> Scope \cup {Store!NoReport}]
    BY <2>2, <2>b DEF TypeOK, Store!TypeOK, Store!NoReport, None
  <2>3. Store!TypeOK'
    BY <2>a, <2>c DEF Store!TypeOK
  <2>4. QED
    BY <1>14, <2>1, <2>3 DEF Complete, TypeOK, TaskFn
<1>15. ASSUME NEW p \in Process, NEW r \in Run, PublishCompleted(p, r) PROVE TypeOK'
  <2>1. task' \in TaskFn
    <3>1. CASE task[p][r].owned
      BY <1>15, <3>1, <1>n, <1>t, GotoType DEF PublishCompleted
    <3>2. CASE ~task[p][r].owned
      BY <1>15, <3>2, <1>n, <1>t, GotoType DEF PublishCompleted
    <3>3. QED
      BY <3>1, <3>2
  <2>2. progress' \in Snapshot
    BY <1>15, <1>g, <1>s, PublishType DEF PublishCompleted
  <2>3. task[p][r].result \in Result \cup {None}
    BY <1>k DEF Task
  <2>4. cache' \in [Scope -> Result \cup {None}]
    BY <1>15, <2>3 DEF PublishCompleted, TypeOK
  <2>5. QED
    BY <1>15, <2>1, <2>2, <2>4
       DEF PublishCompleted, TypeOK, TaskFn, Snapshot, Store!TypeOK, rowVars
<1>16. ASSUME NEW p \in Process, NEW r \in Run, Fail(p, r) PROVE TypeOK'
  <2>1. task' \in TaskFn
    BY <1>16, <1>n, <1>t, GotoType, RaiseType DEF Fail
  <2>2. Store!TypeOK'
    BY <1>16 DEF Fail, TypeOK, Store!TypeOK, Store!MarkFailed, Store!Set,
       Store!Status, Store!TerminalStatus
  <2>3. QED
    BY <1>16, <2>1, <2>2 DEF Fail, TypeOK, TaskFn
<1>17. ASSUME NEW p \in Process, NEW r \in Run, PublishFailed(p, r) PROVE TypeOK'
  <2>1. task' \in TaskFn
    <3>1. CASE task[p][r].owned
      BY <1>17, <3>1, <1>n, <1>t, GotoType DEF PublishFailed
    <3>2. CASE ~task[p][r].owned
      BY <1>17, <3>2, <1>n, <1>t, GotoType DEF PublishFailed
    <3>3. QED
      BY <3>1, <3>2
  <2>2. progress' \in Snapshot
    BY <1>17, <1>g, <1>s, PublishType DEF PublishFailed
  <2>3. QED
    BY <1>17, <2>1, <2>2
       DEF PublishFailed, TypeOK, TaskFn, Snapshot, Store!TypeOK, rowVars
<1>18. ASSUME NEW p \in Process, NEW r \in Run, Seal(p, r) PROVE TypeOK'
  <2>1. task' \in TaskFn
    BY <1>18, <1>n, <1>t, GotoType, RaiseType DEF Seal
  <2>2. SealSeq(task[p][r]) \in Nat
    BY <1>18, <1>k DEF Seal, At, Attempted, SealSeq, Task, None
  <2>3. checkpoints' \in [Run -> SUBSET [seq : Nat,
                                         node : {"queued", "resumed", "completed"}]]
    BY <1>18, <2>2 DEF Seal, TypeOK
  <2>4. QED
    BY <1>18, <2>1, <2>3 DEF Seal, TypeOK, TaskFn, Store!TypeOK
<1>19. ASSUME NEW p \in Process, NEW r \in Run, AuditEnd(p, r) PROVE TypeOK'
  <2>1. task' \in TaskFn
    BY <1>19, <1>n, <1>t, GotoType DEF AuditEnd
  <2>2. QED
    BY <1>19, <2>1 DEF AuditEnd, TypeOK, TaskFn, Store!TypeOK
<1>20. ASSUME NEW p \in Process, NEW r \in Run, Release(p, r) PROVE TypeOK'
  <2>1. task' \in TaskFn
    BY <1>20, <1>n, <1>t, GotoType DEF Release
  <2>2. lease' \in [Run -> Lease]
    BY <1>20 DEF Release, Released, TypeOK, Lease, NoLease
  <2>3. QED
    BY <1>20, <2>1, <2>2 DEF Release, TypeOK, TaskFn, Store!TypeOK
<1>21. ASSUME NEW p \in Process, NEW r \in Run, Interrupt(p, r) PROVE TypeOK'
  <2>1. Cancelled(task[p][r]) \in Task
    BY <1>k, RaisedType
  <2>2. task' \in TaskFn
    BY <1>21, <2>1, <1>t, SetTaskType DEF Interrupt
  <2>3. QED
    BY <1>21, <2>2 DEF Interrupt, TypeOK, TaskFn, Store!TypeOK, rowVars
<1>22. ASSUME NEW p \in Process, NEW r \in Run, HeartbeatRenews(p, r) PROVE TypeOK'
  <2>1. lease[r] \in Lease /\ TTL \in 0 .. TTL
    BY DEF TypeOK
  <2>2. [lease[r] EXCEPT !.left = TTL] \in Lease
    BY <2>1 DEF Lease
  <2>3. lease' \in [Run -> Lease]
    BY <1>22, <2>2 DEF HeartbeatRenews, TypeOK
  <2>4. QED
    BY <1>22, <2>3 DEF HeartbeatRenews, TypeOK, Store!TypeOK
<1>23. ASSUME NEW p \in Process, NEW r \in Run,
              HeartbeatCancelsOwner(p, r) \/ HeartbeatDies(p, r)
       PROVE  TypeOK'
  <2>1. /\ [task[p][r] EXCEPT !.cancel = TRUE, !.beat = FALSE] \in Task
        /\ [task[p][r] EXCEPT !.beat = FALSE] \in Task
    BY <1>k DEF Task
  <2>2. task' \in TaskFn
    BY <1>23, <2>1, <1>t, SetTaskType DEF HeartbeatCancelsOwner, HeartbeatDies
  <2>3. QED
    BY <1>23, <2>2
       DEF HeartbeatCancelsOwner, HeartbeatDies, TypeOK, TaskFn, Store!TypeOK, rowVars
<1>24. ASSUME NEW p \in Process, Crash(p) \/ Exit(p) PROVE TypeOK'
  <2>1. NoTask \in Task
    BY DEF NoTask, Task, PC, None, Scope
  <2>2. task' \in [Process -> [Run -> Task]]
    BY <1>24, <2>1, <1>t DEF Crash, Exit, Dead, TaskFn
  <2>3. canceller' \in [Process -> [Run -> {None, "publish", "interrupt"}]]
    <3>1. canceller' = [canceller EXCEPT ![p] = [r \in Run |-> None]]
      BY <1>24 DEF Crash, Exit, Dead
    <3>2. canceller \in [Process -> [Run -> {None, "publish", "interrupt"}]]
      BY DEF TypeOK
    <3>3. [r \in Run |-> None] \in [Run -> {None, "publish", "interrupt"}]
      OBVIOUS
    <3>4. QED
      BY <3>1, <3>2, <3>3
  <2>4. process' \in [Process -> {"up", "closing", "down"}]
    BY <1>24 DEF Crash, Exit, TypeOK
  <2>5. QED
    BY <1>24, <2>2, <2>3, <2>4 DEF Crash, Exit, TypeOK, Store!TypeOK, rowVars
<1>25. ASSUME NEW p \in Process, Close(p) PROVE TypeOK'
  <2>1. \A r \in Run : [task[p][r] EXCEPT !.cancel = TRUE] \in Task
    BY <1>k DEF Task
  <2>2. task' \in [Process -> [Run -> Task]]
    BY <1>25, <2>1, <1>k, <1>t DEF Close, TaskFn
  <2>3. QED
    BY <1>25, <2>2 DEF Close, TypeOK, Store!TypeOK, rowVars
<1>26. ASSUME NEW p \in Process, Restart(p) PROVE TypeOK'
  <2>1. NoTask \in Task
    BY DEF NoTask, Task, PC, None, Scope
  <2>2. \A r \in Run : [NoTask EXCEPT !.pc = "claim", !.owned = TRUE,
                                      !.resume = status[r] = "running"] \in Task
    <3>1. TAKE r \in Run
    <3>2. (status[r] = "running") \in BOOLEAN
      OBVIOUS
    <3>3. QED
      BY <2>1, <3>2, <1>n DEF Task
  <2>3. task' \in [Process -> [Run -> Task]]
    BY <1>26, <2>1, <2>2, <1>t DEF Restart, TaskFn
  <2>4. restarts' \in 0 .. MaxRestarts
    <3>1. restarts' = restarts + 1 /\ restarts < MaxRestarts
      BY <1>26 DEF Restart
    <3>2. restarts \in 0 .. MaxRestarts
      BY DEF TypeOK
    <3>3. QED
      BY <3>1, <3>2
  <2>5. process' \in [Process -> {"up", "closing", "down"}]
    BY <1>26 DEF Restart, TypeOK
  <2>6. QED
    BY <1>26, <2>3, <2>4, <2>5 DEF Restart, TypeOK, Store!TypeOK, rowVars
<1>27. ASSUME Tick PROVE TypeOK'
  <2> DEFINE aged(r) == [lease[r] EXCEPT !.left = IF @ = 0 THEN 0 ELSE @ - 1]
  <2>1. ASSUME NEW r \in Run PROVE aged(r) \in Lease
    <3>1. lease[r] \in Lease
      BY DEF TypeOK
    <3>2. (IF lease[r].left = 0 THEN 0 ELSE lease[r].left - 1) \in 0 .. TTL
      BY <3>1 DEF Lease
    <3>3. QED
      BY <3>1, <3>2 DEF Lease
  <2>2. lease' = [r \in Run |-> aged(r)]
    BY <1>27 DEF Tick
  <2> HIDE DEF aged
  <2>3. lease' \in [Run -> Lease]
    BY <2>1, <2>2
  <2>4. QED
    BY <1>27, <2>3 DEF Tick, TypeOK, Store!TypeOK
<1>28. ASSUME UNCHANGED vars PROVE TypeOK'
  BY <1>28 DEF vars, TypeOK, Store!TypeOK
<1>29. QED
  BY <1>1, <1>2, <1>3, <1>4, <1>5, <1>6, <1>7, <1>8, <1>9, <1>10, <1>11, <1>11d, <1>12,
     <1>13, <1>14, <1>15, <1>16, <1>17, <1>18, <1>19, <1>20, <1>21, <1>22, <1>23,
     <1>24, <1>25, <1>26, <1>27, <1>28 DEF Next, TaskStep

-----------------------------------------------------------------------------
(* The invariants that relate a task to the rows it works on.              *)

\* A task gets its attempt and its token from its claim and keeps them.
LEMMA AttemptStep ==
    ASSUME TypeOK, Attempted, [Next]_vars
    PROVE  Attempted'
<1> USE DEF Attempted, Opening, NoTask, Task, None
<1>t. task \in [Process -> [Run -> Task]]
  BY DEF TypeOK
<1>g. ASSUME NEW p \in Process, NEW r \in Run,
             NEW pc \in PC \ (Opening \cup {"seal", "log"}),
             Goto(p, r, pc), task[p][r].pc \notin {None, "accept", "claim"}
      PROVE  Attempted'
  BY <1>t, <1>g DEF Goto, MovedTo
<1>r. ASSUME NEW p \in Process, NEW r \in Run, Raise(p, r),
             task[p][r].pc # "accept"
      PROVE  Attempted'
  BY <1>t, <1>r DEF Raise, Raised, RaisedTo, MovedTo
<1>n. {None, "announce", "complete", "completed", "failed", "abort", "release"}
         \subseteq PC \ (Opening \cup {"seal", "log"})
  BY DEF PC, Body, Tail, Closing
<1>1. ASSUME NEW p \in Process, NEW r \in Run, Submit(p, r) PROVE Attempted'
  BY <1>t, <1>1 DEF Submit
<1>2. ASSUME NEW p \in Process, NEW r \in Run, Accept(p, r) PROVE Attempted'
  BY <1>t, <1>2 DEF Accept, At, Goto, MovedTo
<1>3. ASSUME NEW p \in Process, NEW r \in Run, Claim(p, r) PROVE Attempted'
  BY <1>t, <1>3 DEF Claim, At, MovedTo, TypeOK, Lease
<1>4. ASSUME NEW p \in Process, NEW r \in Run,
             ClaimRefused(p, r) \/ AuditClaim(p, r)
      PROVE  Attempted'
  <2>1. CASE ClaimRefused(p, r)
    BY <1>t, <2>1 DEF ClaimRefused, At, Goto, MovedTo
  <2>2. CASE AuditClaim(p, r)
    BY <1>t, <2>2 DEF AuditClaim, At, Goto, MovedTo
  <2>3. QED
    BY <1>4, <2>1, <2>2
<1>5. ASSUME NEW p \in Process, NEW r \in Run, Open(p, r) PROVE Attempted'
  <2>1. task[p][r].pc = "open"
    BY <1>5 DEF Open, At
  <2>2. CASE Raise(p, r)
    BY <1>r, <2>1, <2>2
  <2>3. CASE task' = [task EXCEPT ![p][r] = [task[p][r] EXCEPT !.pc = "start",
                                                               !.beat = TRUE]]
    BY <1>t, <2>1, <2>3
  <2>4. QED
    BY <1>5, <2>2, <2>3 DEF Open
<1>6. ASSUME NEW p \in Process, NEW r \in Run,
             Start(p, r) \/ WorkflowReturns(p, r) \/ Complete(p, r) \/ Fail(p, r)
      PROVE  Attempted'
  <2>1. task[p][r].pc \in {"start", "working", "complete", "fail"}
    BY <1>6 DEF Start, WorkflowReturns, Complete, Fail, At
  <2>2. CASE Raise(p, r)
    BY <1>r, <2>1, <2>2
  <2>3. CASE \E pc \in {"announce", "complete", "completed", "failed"} : Goto(p, r, pc)
    BY <1>g, <1>n, <2>1, <2>3
  <2>4. QED
    BY <1>6, <2>2, <2>3 DEF Start, WorkflowReturns, Complete, Fail
<1>7. ASSUME NEW p \in Process, NEW r \in Run,
             Announce(p, r) \/ CacheHit(p, r)
      PROVE  Attempted'
  <2>1. CASE Announce(p, r)
    BY <1>t, <2>1 DEF Announce, At, Goto, MovedTo
  <2>2. CASE CacheHit(p, r)
    <3>1. task[p][r].pc = "lookup"
      BY <2>2 DEF CacheHit, At
    <3>2. PICK c : task' = [task EXCEPT ![p][r] =
                     [task[p][r] EXCEPT !.pc = "complete", !.hit = TRUE, !.result = c]]
      BY <2>2 DEF CacheHit
    <3>3. QED
      BY <1>t, <3>1, <3>2
  <2>3. QED
    BY <1>7, <2>1, <2>2
<1>7d. ASSUME NEW p \in Process, NEW r \in Run, DirectAnswer(p, r) PROVE Attempted'
  <2>1. task[p][r].pc = "working"
    BY <1>7d DEF DirectAnswer, At
  <2>2. PICK c : task' = [task EXCEPT ![p][r] =
                   [task[p][r] EXCEPT !.pc = "complete", !.result = c]]
    BY <1>7d DEF DirectAnswer
  <2>3. QED
    BY <1>t, <2>1, <2>2
<1>8. ASSUME NEW p \in Process, NEW r \in Run, Launch(p, r) PROVE Attempted'
  <2>1. task[p][r].pc = "lookup"
    BY <1>8 DEF Launch, At
  <2>2. CASE Raise(p, r)
    BY <1>r, <2>1, <2>2
  <2>3. CASE ~Raise(p, r)
    <3>1. PICK c : task' = [task EXCEPT ![p][r] =
                     [task[p][r] EXCEPT !.pc = "working", !.result = c]]
      BY <1>8, <2>3 DEF Launch
    <3>2. QED
      BY <1>t, <2>1, <3>1
  <2>4. QED
    BY <2>2, <2>3
<1>9. ASSUME NEW p \in Process, NEW r \in Run, PublishCompleted(p, r) PROVE Attempted'
  BY <1>t, <1>9 DEF PublishCompleted, At, Goto, MovedTo
<1>10. ASSUME NEW p \in Process, NEW r \in Run, PublishFailed(p, r) PROVE Attempted'
  BY <1>t, <1>10 DEF PublishFailed, At, Goto, MovedTo
<1>11. ASSUME NEW p \in Process, NEW r \in Run, Seal(p, r) PROVE Attempted'
  <2>1. task[p][r].pc = "seal"
    BY <1>11 DEF Seal, At
  <2>2. CASE Raise(p, r)
    BY <1>r, <2>1, <2>2
  <2>3. CASE Goto(p, r, "log")
    BY <1>t, <2>1, <2>3 DEF Goto, MovedTo
  <2>4. QED
    BY <1>11, <2>2, <2>3 DEF Seal
<1>12. ASSUME NEW p \in Process, NEW r \in Run, AuditEnd(p, r) \/ Release(p, r)
       PROVE  Attempted'
  <2>1. task[p][r].pc \in {"log", "abort", "release"}
    BY <1>12 DEF AuditEnd, Release, At
  <2>2. \E pc \in {"release", None} : Goto(p, r, pc)
    BY <1>12 DEF AuditEnd, Release
  <2>3. QED
    BY <1>g, <1>n, <2>1, <2>2
<1>13. ASSUME NEW p \in Process, NEW r \in Run, Interrupt(p, r) PROVE Attempted'
  BY <1>t, <1>13 DEF Interrupt, Cancelled, CancelledTo, MovedTo, Body, Tail
<1>14. ASSUME NEW p \in Process, NEW r \in Run, DbError(p, r) PROVE Attempted'
  BY <1>r, <1>14 DEF DbError, At, Closing
<1>15. ASSUME NEW p \in Process, NEW r \in Run,
              CancelTask(p, r) \/ HeartbeatCancelsOwner(p, r) \/ HeartbeatDies(p, r)
       PROVE  Attempted'
  <2>1. CASE CancelTask(p, r)
    <3>1. CASE task' = task
      BY <3>1
    <3>2. CASE task' = [task EXCEPT ![p][r] = [task[p][r] EXCEPT !.cancel = TRUE]]
      BY <1>t, <3>2
    <3>3. QED
      BY <2>1, <3>1, <3>2 DEF CancelTask
  <2>2. CASE HeartbeatCancelsOwner(p, r)
    BY <1>t, <2>2 DEF HeartbeatCancelsOwner
  <2>3. CASE HeartbeatDies(p, r)
    BY <1>t, <2>3 DEF HeartbeatDies
  <2>4. QED
    BY <1>15, <2>1, <2>2, <2>3
<1>16. ASSUME NEW p \in Process, Crash(p) \/ Exit(p) PROVE Attempted'
  <2>1. task' = [task EXCEPT ![p] = [r \in Run |-> NoTask]]
    BY <1>16 DEF Crash, Exit, Dead
  <2>2. QED
    BY <1>t, <2>1
<1>17. ASSUME NEW p \in Process, Close(p) PROVE Attempted'
  BY <1>t, <1>17 DEF Close
<1>18. ASSUME NEW p \in Process, Restart(p) PROVE Attempted'
  BY <1>t, <1>18 DEF Restart
<1>19. ASSUME UNCHANGED task PROVE Attempted'
  BY <1>19
<1>20. QED
  BY <1>1, <1>2, <1>3, <1>4, <1>5, <1>6, <1>7, <1>7d, <1>8, <1>9, <1>10, <1>11, <1>12,
     <1>13, <1>14, <1>15, <1>16, <1>17, <1>18, <1>19
     DEF Next, TaskStep, CancelStep, CancelRow, CancelPublish, AgentStep,
         HeartbeatRenews, Tick, vars

\* Only a claim hands out a token; every other step keeps a task's token or
\* ends the task, and keeps a lease's token or deletes the lease.
LEMMA TokensKept ==
    ASSUME TypeOK, [Next]_vars,
           ~ \E p \in Process, r \in Run : Claim(p, r)
    PROVE  /\ claims' = claims
           /\ \A q \in Process, s \in Run :
                 (task'[q][s].token = task[q][s].token \/ task'[q][s].token = 0)
           /\ \A s \in Run : (lease'[s].token = lease[s].token \/ lease'[s].token = 0)
<1> DEFINE Kept == /\ claims' = claims
                   /\ \A q \in Process, s \in Run :
                         (task'[q][s].token = task[q][s].token \/ task'[q][s].token = 0)
                   /\ \A s \in Run : (lease'[s].token = lease[s].token \/ lease'[s].token = 0)
<1> SUFFICES Kept
  OBVIOUS
<1> USE DEF NoTask, Task
<1>t. task \in [Process -> [Run -> Task]] /\ lease \in [Run -> Lease]
  BY DEF TypeOK
<1>g. ASSUME NEW p \in Process, NEW r \in Run, NEW pc, Goto(p, r, pc),
             UNCHANGED <<lease, claims>>
      PROVE  Kept
  BY <1>t, <1>g DEF Goto, MovedTo
<1>r. ASSUME NEW p \in Process, NEW r \in Run, Raise(p, r), UNCHANGED <<lease, claims>>
      PROVE  Kept
  BY <1>t, <1>r DEF Raise, Raised, MovedTo
<1>1. ASSUME NEW p \in Process, NEW r \in Run,
             \/ Accept(p, r) \/ ClaimRefused(p, r) \/ AuditClaim(p, r)
             \/ Start(p, r) \/ Announce(p, r) \/ WorkflowReturns(p, r)
             \/ Complete(p, r) \/ PublishCompleted(p, r)
             \/ Fail(p, r) \/ PublishFailed(p, r) \/ Seal(p, r) \/ AuditEnd(p, r)
             \/ DbError(p, r)
      PROVE  Kept
  <2>1. UNCHANGED <<lease, claims>>
    BY <1>1 DEF Accept, ClaimRefused, AuditClaim, Start, Announce, WorkflowReturns,
       Complete, PublishCompleted, Fail, PublishFailed, Seal, AuditEnd, DbError,
       rowVars
  <2>2. Raise(p, r) \/ \E pc : Goto(p, r, pc)
    BY <1>1 DEF Accept, ClaimRefused, AuditClaim, Start, Announce, WorkflowReturns,
       Complete, PublishCompleted, Fail, PublishFailed, Seal, AuditEnd, DbError
  <2>3. QED
    BY <1>g, <1>r, <2>1, <2>2
<1>2. ASSUME NEW p \in Process, NEW r \in Run,
             Submit(p, r) \/ CacheHit(p, r) \/ DirectAnswer(p, r)
             \/ CancelTask(p, r) \/ HeartbeatCancelsOwner(p, r) \/ HeartbeatDies(p, r)
      PROVE  Kept
  <2>1. CASE Submit(p, r)
    BY <1>t, <2>1 DEF Submit
  <2>2. CASE CacheHit(p, r)
    BY <1>t, <2>2 DEF CacheHit, rowVars
  <2>3. CASE CancelTask(p, r)
    BY <1>t, <2>3 DEF CancelTask, rowVars
  <2>4. CASE HeartbeatCancelsOwner(p, r)
    BY <1>t, <2>4 DEF HeartbeatCancelsOwner, rowVars
  <2>5. CASE HeartbeatDies(p, r)
    BY <1>t, <2>5 DEF HeartbeatDies, rowVars
  <2>6. CASE DirectAnswer(p, r)
    BY <1>t, <2>6 DEF DirectAnswer, rowVars
  <2>7. QED
    BY <1>2, <2>1, <2>2, <2>3, <2>4, <2>5, <2>6
<1>3. ASSUME NEW p \in Process, NEW r \in Run, Open(p, r) \/ Launch(p, r) PROVE Kept
  <2>1. UNCHANGED <<lease, claims>>
    BY <1>3 DEF Open, Launch
  <2>2. CASE Raise(p, r)
    BY <1>r, <2>1, <2>2
  <2>3. CASE ~Raise(p, r)
    <3>1. CASE Open(p, r)
      <4>1. task' = [task EXCEPT ![p][r] = [task[p][r] EXCEPT !.pc = "start",
                                                              !.beat = TRUE]]
        BY <2>3, <3>1 DEF Open
      <4>2. QED
        BY <1>t, <2>1, <4>1
    <3>2. CASE Launch(p, r)
      <4>1. PICK c : task' = [task EXCEPT ![p][r] =
                       [task[p][r] EXCEPT !.pc = "working", !.result = c]]
        BY <2>3, <3>2 DEF Launch
      <4>2. QED
        BY <1>t, <2>1, <4>1
    <3>3. QED
      BY <1>3, <3>1, <3>2
  <2>4. QED
    BY <2>2, <2>3
<1>4. ASSUME NEW p \in Process, NEW r \in Run, Release(p, r) PROVE Kept
  BY <1>t, <1>4 DEF Release, Released, NoLease, Goto, MovedTo
<1>5. ASSUME NEW p \in Process, NEW r \in Run, Interrupt(p, r) PROVE Kept
  BY <1>t, <1>5 DEF Interrupt, Cancelled, MovedTo, rowVars
<1>6. ASSUME NEW p \in Process, NEW r \in Run, HeartbeatRenews(p, r) PROVE Kept
  BY <1>t, <1>6 DEF HeartbeatRenews, Lease
<1>7. ASSUME NEW p \in Process, Crash(p) \/ Exit(p) \/ Close(p) \/ Restart(p)
      PROVE  Kept
  <2>1. CASE Crash(p) \/ Exit(p)
    <3>1. /\ task' = [task EXCEPT ![p] = [r \in Run |-> NoTask]]
          /\ UNCHANGED <<lease, claims>>
      BY <2>1 DEF Crash, Exit, Dead, rowVars
    <3>2. QED
      BY <1>t, <3>1
  <2>2. CASE Close(p)
    BY <1>t, <2>2 DEF Close, rowVars
  <2>3. CASE Restart(p)
    BY <1>t, <2>3 DEF Restart, rowVars
  <2>4. QED
    BY <1>7, <2>1, <2>2, <2>3
<1>8. ASSUME Tick PROVE Kept
  BY <1>t, <1>8 DEF Tick, Lease
<1>9. ASSUME UNCHANGED <<lease, claims, task>> PROVE Kept
  BY <1>9
<1>10. QED
  BY <1>1, <1>2, <1>3, <1>4, <1>5, <1>6, <1>7, <1>8, <1>9
     DEF Next, TaskStep, CancelStep, CancelRow, CancelPublish, AgentStep, vars, rowVars

\* No step issues a token twice.
LEMMA TokenStep ==
    ASSUME TypeOK, TokensUnique, [Next]_vars
    PROVE  TokensUnique'
<1>t. /\ task \in [Process -> [Run -> Task]] /\ lease \in [Run -> Lease]
      /\ claims \in Nat
  BY DEF TypeOK
<1>1. ASSUME NEW p \in Process, NEW r \in Run, Claim(p, r) PROVE TokensUnique'
  <2>1. \A q \in Process, s \in Run :
           task'[q][s].token = IF q = p /\ s = r THEN claims + 1 ELSE task[q][s].token
    BY <1>t, <1>1 DEF Claim, MovedTo, Task, None
  <2>2. /\ claims' = claims + 1
        /\ \A s \in Run :
              lease'[s].token = IF s = r THEN claims + 1 ELSE lease[s].token
    BY <1>t, <1>1 DEF Claim
  <2>3. \A q \in Process, s \in Run : task[q][s].token \in Nat /\ lease[s].token \in Nat
    BY <1>t DEF Task, Lease
  <2>4. QED
    <3>1. \A s \in Run : lease'[s].token <= claims'
      BY <1>t, <2>2, <2>3, <1>1 DEF TokensUnique, Lease
    <3>2. \A q \in Process, s \in Run : task'[q][s].token <= claims'
      BY <1>t, <2>1, <2>2, <2>3 DEF TokensUnique
    <3>3. ASSUME NEW q1 \in Process, NEW q2 \in Process, NEW s1 \in Run, NEW s2 \in Run,
                 task'[q1][s1].token = task'[q2][s2].token, task'[q1][s1].token # 0
          PROVE  q1 = q2 /\ s1 = s2
      <4>1. task[q1][s1].token <= claims /\ task[q2][s2].token <= claims
        BY DEF TokensUnique
      <4>2. CASE q1 = p /\ s1 = r
        BY <1>t, <2>1, <2>3, <3>3, <4>1, <4>2
      <4>3. CASE q2 = p /\ s2 = r
        BY <1>t, <2>1, <2>3, <3>3, <4>1, <4>3
      <4>4. CASE ~(q1 = p /\ s1 = r) /\ ~(q2 = p /\ s2 = r)
        BY <2>1, <3>3, <4>4 DEF TokensUnique
      <4>5. QED
        BY <4>2, <4>3, <4>4
    <3>4. QED
      BY <3>1, <3>2, <3>3 DEF TokensUnique
<1>2. ASSUME ~ \E p \in Process, r \in Run : Claim(p, r) PROVE TokensUnique'
  <2>1. /\ claims' = claims
        /\ \A q \in Process, s \in Run : (task'[q][s].token = task[q][s].token \/ task'[q][s].token = 0)
        /\ \A s \in Run : (lease'[s].token = lease[s].token \/ lease'[s].token = 0)
    BY <1>2, TokensKept
  <2>2. ASSUME NEW s \in Run PROVE lease'[s].token <= claims'
    <3>1. (lease'[s].token = lease[s].token \/ lease'[s].token = 0) /\ lease[s].token <= claims
      BY <2>1 DEF TokensUnique
    <3>2. claims' = claims /\ claims \in Nat
      BY <1>t, <2>1
    <3>3. CASE lease'[s].token = lease[s].token
      BY <3>1, <3>2, <3>3
    <3>4. CASE lease'[s].token = 0
      BY <3>2, <3>4
    <3>5. QED
      BY <3>1, <3>3, <3>4
  <2>3. \A q \in Process, s \in Run : task'[q][s].token <= claims'
    BY <1>t, <2>1 DEF TokensUnique, Task
  <2>4. ASSUME NEW q1 \in Process, NEW q2 \in Process, NEW s1 \in Run, NEW s2 \in Run,
               task'[q1][s1].token = task'[q2][s2].token, task'[q1][s1].token # 0
        PROVE  q1 = q2 /\ s1 = s2
    <3>1. /\ task'[q1][s1].token = task[q1][s1].token
          /\ task'[q2][s2].token = task[q2][s2].token
      <4>1. /\ (task'[q1][s1].token = task[q1][s1].token \/ task'[q1][s1].token = 0)
            /\ (task'[q2][s2].token = task[q2][s2].token \/ task'[q2][s2].token = 0)
        BY <2>1
      <4>2. task'[q2][s2].token # 0
        BY <2>4
      <4>3. QED
        BY <2>4, <4>1, <4>2
    <3>2. task[q1][s1].token = task[q2][s2].token /\ task[q1][s1].token # 0
      BY <2>4, <3>1
    <3>3. QED
      BY <3>2 DEF TokensUnique
  <2>5. QED
    BY <2>2, <2>3, <2>4 DEF TokensUnique
<1>3. QED
  BY <1>1, <1>2

\* Every step is a step of the run table, or leaves it alone.
LEMMA RefinementStep ==
    ASSUME TypeOK, OutcomeKnown, [Next]_vars
    PROVE  [Store!Next]_<<status, report>>
<1> USE DEF Store!Next
<1>1. ASSUME NEW p \in Process, NEW r \in Run, Submit(p, r)
      PROVE  Store!Create(r)
  BY <1>1 DEF Submit
<1>2. ASSUME NEW p \in Process, NEW r \in Run, CancelRow(p, r)
      PROVE  Store!MarkCancelled(r)
  BY <1>2 DEF CancelRow
<1>3. ASSUME NEW p \in Process, NEW r \in Run, Start(p, r)
      PROVE  Store!MarkRunning(r) \/ UNCHANGED <<status, report>>
  BY <1>3 DEF Start
<1>4. ASSUME NEW p \in Process, NEW r \in Run, Fail(p, r)
      PROVE  Store!MarkFailed(r) \/ UNCHANGED <<status, report>>
  BY <1>4 DEF Fail
<1>5. ASSUME NEW p \in Process, NEW r \in Run, Complete(p, r)
      PROVE  Store!MarkCompleted(r) \/ UNCHANGED <<status, report>>
  <2>1. ReportOf(task[p][r]) \in Scope \cup {Store!NoReport}
    BY <1>5 DEF Complete, At, OutcomeKnown, TypeOK, Task, Result, ReportOf, None,
       Store!NoReport
  <2>2. QED
    BY <1>5, <2>1 DEF Complete, Completable, Store!MarkCompleted
<1>6. ASSUME NEW p \in Process, NEW r \in Run,
             \/ CancelStep(p, r) \/ Accept(p, r) \/ Claim(p, r) \/ ClaimRefused(p, r)
             \/ AuditClaim(p, r) \/ Open(p, r) \/ Announce(p, r) \/ CacheHit(p, r)
             \/ Launch(p, r) \/ AgentStep(p, r) \/ WorkflowReturns(p, r)
             \/ DirectAnswer(p, r)
             \/ PublishCompleted(p, r) \/ PublishFailed(p, r) \/ Seal(p, r)
             \/ AuditEnd(p, r) \/ Release(p, r) \/ Interrupt(p, r) \/ DbError(p, r)
             \/ HeartbeatRenews(p, r) \/ HeartbeatCancelsOwner(p, r)
             \/ HeartbeatDies(p, r)
      PROVE  UNCHANGED <<status, report>>
  BY <1>6 DEF CancelStep, CancelPublish, CancelTask, Accept, Claim, ClaimRefused,
     AuditClaim, Open, Announce, CacheHit, Launch, AgentStep, WorkflowReturns,
     DirectAnswer,
     PublishCompleted, PublishFailed, Seal, AuditEnd, Release, Interrupt, DbError,
     HeartbeatRenews, HeartbeatCancelsOwner, HeartbeatDies, rowVars
<1>7. ASSUME NEW p \in Process, Crash(p) \/ Close(p) \/ Exit(p) \/ Restart(p)
      PROVE  UNCHANGED <<status, report>>
  BY <1>7 DEF Crash, Close, Exit, Restart, rowVars
<1>8. Tick \/ UNCHANGED vars => UNCHANGED <<status, report>>
  BY DEF Tick, vars
<1>9. QED
  BY <1>1, <1>2, <1>3, <1>4, <1>5, <1>6, <1>7, <1>8 DEF Next, TaskStep

\* A terminal status stays, and with it the report.
LEMMA TerminalStays ==
    ASSUME TypeOK, OutcomeKnown, [Next]_vars, NEW s \in Run,
           status[s] \in {"completed", "failed", "cancelled"}
    PROVE  status'[s] = status[s] /\ report'[s] = report[s]
<1>1. [Store!Next]_<<status, report>>
  BY RefinementStep
<1>2. QED
  BY <1>1 DEF TypeOK, Store!TypeOK, Store!Next, Store!Create, Store!MarkRunning,
     Store!MarkCompleted, Store!MarkFailed, Store!MarkCancelled, Store!Set,
     Store!ActiveStatus

\* What one task, and one cancel request, must know of the run's row.
TaskKnows(t, s, w) ==
    /\ t.pc \in {"completed", "seal", "log"} => s = "completed" /\ w = ReportOf(t)
    /\ t.pc = "failed" => s = "failed"
    /\ t.pc \in {"working", "complete"} => t.result # None

\* A step keeps what a task knows, or ends the task, or makes it true.
LEMMA OutcomeStep ==
    ASSUME TypeOK, OutcomeKnown, [Next]_vars
    PROVE  OutcomeKnown'
<1> USE DEF NoTask, Task, None, ReportOf
<1>t. task \in [Process -> [Run -> Task]]
      /\ canceller \in [Process -> [Run -> {None, "publish", "interrupt"}]]
  BY DEF TypeOK
<1>k. \A q \in Process, s \in Run : TaskKnows(task[q][s], status[s], report[s])
  BY DEF OutcomeKnown, TaskKnows
<1>u. \A s \in Run : status[s] \in {"completed", "failed", "cancelled"}
                        => status'[s] = status[s] /\ report'[s] = report[s]
  BY TerminalStays
<1>v. \A q \in Process, s \in Run : TaskKnows(task[q][s], status'[s], report'[s])
  BY <1>k, <1>u DEF TaskKnows
<1>w. \A q \in Process, s \in Run : canceller[q][s] # None => status'[s] = "cancelled"
  BY <1>u DEF OutcomeKnown
<1>q. ASSUME \A q \in Process, s \in Run : TaskKnows(task'[q][s], status'[s], report'[s]),
             \A q \in Process, s \in Run :
                canceller'[q][s] # None => status'[s] = "cancelled"
      PROVE  OutcomeKnown'
  BY <1>q DEF OutcomeKnown, TaskKnows
<1>p. ASSUME NEW p \in Process, NEW r \in Run, NEW t, TaskKnows(t, status'[r], report'[r]),
             task' = [task EXCEPT ![p][r] = t], UNCHANGED canceller
      PROVE  OutcomeKnown'
  <2>1. \A q \in Process, s \in Run :
           task'[q][s] = IF q = p /\ s = r THEN t ELSE task[q][s]
    BY <1>t, <1>p
  <2>2. QED
    BY <1>p, <1>q, <1>v, <1>w, <2>1
<1>g. ASSUME NEW p \in Process, NEW r \in Run, NEW pc, Goto(p, r, pc), UNCHANGED canceller,
             pc \in {"completed", "seal", "log"}
                => status'[r] = "completed" /\ report'[r] = ReportOf(task[p][r]),
             pc = "failed" => status'[r] = "failed",
             pc \in {"working", "complete"} => task[p][r].result # None
      PROVE  OutcomeKnown'
  <2>1. TaskKnows(MovedTo(task[p][r], pc), status'[r], report'[r])
    BY <1>t, <1>g DEF TaskKnows, MovedTo
  <2>2. QED
    BY <1>p, <1>g, <2>1 DEF Goto
<1>r. ASSUME NEW p \in Process, NEW r \in Run, Raise(p, r), UNCHANGED canceller
      PROVE  OutcomeKnown'
  <2>1. TaskKnows(Raised(task[p][r]), status'[r], report'[r])
    BY <1>t DEF TaskKnows, Raised, RaisedTo, MovedTo
  <2>2. QED
    BY <1>p, <1>r, <2>1 DEF Raise
<1>1. ASSUME NEW p \in Process, NEW r \in Run, Submit(p, r) PROVE OutcomeKnown'
  <2> DEFINE own == r \notin SyncRun
             new == [NoTask EXCEPT !.pc = "accept", !.owned = own, !.scope = Asked(r)]
  <2>1. task' = [task EXCEPT ![p][r] = new] /\ UNCHANGED canceller
    BY <1>1 DEF Submit
  <2>2. new.pc = "accept"
    OBVIOUS
  <2>3. TaskKnows(new, status'[r], report'[r])
    <3> HIDE DEF new
    <3>1. QED
      BY <2>2 DEF TaskKnows
  <2>4. QED
    <3> HIDE DEF new
    <3>1. QED
      BY <1>p, <2>1, <2>3
<1>2. ASSUME NEW p \in Process, NEW r \in Run, Accept(p, r) PROVE OutcomeKnown'
  BY <1>2, <1>g DEF Accept
<1>3. ASSUME NEW p \in Process, NEW r \in Run, CancelRow(p, r) PROVE OutcomeKnown'
  <2>1. status'[r] = "cancelled"
    BY <1>3 DEF CancelRow, Store!MarkCancelled, Store!Set, TypeOK, Store!TypeOK
  <2>2. \A q \in Process, s \in Run :
           canceller'[q][s] = IF q = p /\ s = r THEN "publish" ELSE canceller[q][s]
    BY <1>3, <1>t DEF CancelRow
  <2>3. UNCHANGED task
    BY <1>3 DEF CancelRow
  <2>4. QED
    BY <1>q, <1>v, <1>w, <2>1, <2>2, <2>3
<1>4. ASSUME NEW p \in Process, NEW r \in Run, CancelStep(p, r) PROVE OutcomeKnown'
  <2>1. \A q \in Process, s \in Run :
           canceller'[q][s] # None => canceller[q][s] # None
    <3>1. CASE CancelPublish(p, r)
      BY <3>1, <1>t DEF CancelPublish
    <3>2. CASE CancelTask(p, r)
      BY <3>2, <1>t DEF CancelTask
    <3>3. QED
      BY <1>4, <3>1, <3>2 DEF CancelStep
  <2>2. \A q \in Process, s \in Run : /\ task'[q][s].pc = task[q][s].pc
                                      /\ task'[q][s].result = task[q][s].result
    <3>1. CASE UNCHANGED task
      BY <3>1
    <3>2. CASE task' = [task EXCEPT ![p][r].cancel = TRUE]
      BY <1>t, <3>2
    <3>3. QED
      BY <1>4, <3>1, <3>2 DEF CancelStep, CancelPublish, CancelTask
  <2>3. \A q \in Process, s \in Run : TaskKnows(task'[q][s], status'[s], report'[s])
    BY <1>v, <2>2 DEF TaskKnows
  <2>4. QED
    BY <1>q, <1>w, <2>1, <2>3
<1>5. ASSUME NEW p \in Process, NEW r \in Run, Claim(p, r) PROVE OutcomeKnown'
  <2>1. PICK t : /\ task' = [task EXCEPT ![p][r] = t]
                 /\ t = [MovedTo(task[p][r], "claimed") EXCEPT
                           !.token = claims + 1, !.attempt = lease[r].attempt + 1]
    BY <1>5 DEF Claim
  <2>2. TaskKnows(t, status'[r], report'[r])
    BY <1>t, <2>1 DEF TaskKnows, MovedTo
  <2>3. QED
    BY <1>5, <1>p, <2>1, <2>2 DEF Claim
<1>6. ASSUME NEW p \in Process, NEW r \in Run,
             ClaimRefused(p, r) \/ AuditClaim(p, r) \/ Announce(p, r)
             \/ AuditEnd(p, r) \/ Release(p, r)
      PROVE  OutcomeKnown'
  <2>1. \E pc \in {None, "open", "lookup", "release"} : Goto(p, r, pc)
    BY <1>6 DEF ClaimRefused, AuditClaim, Announce, AuditEnd, Release
  <2>2. UNCHANGED canceller
    BY <1>6 DEF ClaimRefused, AuditClaim, Announce, AuditEnd, Release
  <2>3. QED
    BY <1>g, <2>1, <2>2
<1>7. ASSUME NEW p \in Process, NEW r \in Run, Open(p, r) PROVE OutcomeKnown'
  <2> DEFINE new == [task[p][r] EXCEPT !.pc = "start", !.beat = TRUE]
  <2>1. TaskKnows(new, status'[r], report'[r])
    BY <1>t DEF TaskKnows
  <2>2. Raise(p, r) \/ task' = [task EXCEPT ![p][r] = new]
    BY <1>7 DEF Open
  <2>3. UNCHANGED canceller
    BY <1>7 DEF Open
  <2>4. QED
    BY <1>p, <1>r, <2>1, <2>2, <2>3
<1>8. ASSUME NEW p \in Process, NEW r \in Run, Start(p, r) PROVE OutcomeKnown'
  <2>1. UNCHANGED canceller /\ (Raise(p, r) \/ Goto(p, r, "announce"))
    BY <1>8 DEF Start
  <2>2. QED
    BY <1>g, <1>r, <2>1
<1>9. ASSUME NEW p \in Process, NEW r \in Run, CacheHit(p, r) PROVE OutcomeKnown'
  <2> DEFINE new == [task[p][r] EXCEPT !.pc = "complete", !.hit = TRUE,
                                       !.result = cache[task[p][r].scope]]
  <2>1. TaskKnows(new, status'[r], report'[r])
    BY <1>9, <1>t DEF CacheHit, TaskKnows
  <2>2. task' = [task EXCEPT ![p][r] = new] /\ UNCHANGED canceller
    BY <1>9 DEF CacheHit
  <2>3. QED
    BY <1>p, <2>1, <2>2
<1>10. ASSUME NEW p \in Process, NEW r \in Run, Launch(p, r) PROVE OutcomeKnown'
  <2> DEFINE s == IF task[p][r].resume THEN thread[r] ELSE task[p][r].scope
             new == [task[p][r] EXCEPT !.pc = "working", !.result = s]
  <2>1. UNCHANGED canceller
    BY <1>10 DEF Launch
  <2>2. CASE task[p][r].resume /\ thread[r] = None
    BY <1>10, <1>r, <2>1, <2>2 DEF Launch
  <2>3. CASE ~(task[p][r].resume /\ thread[r] = None)
    <3>1. s # None
      BY <2>3, <1>t DEF Scope
    <3>2. TaskKnows(new, status'[r], report'[r])
      BY <3>1, <1>t DEF TaskKnows
    <3>3. task' = [task EXCEPT ![p][r] = new]
      BY <1>10, <2>3 DEF Launch
    <3>4. QED
      BY <1>p, <2>1, <3>2, <3>3
  <2>4. QED
    BY <2>2, <2>3
<1>11. ASSUME NEW p \in Process, NEW r \in Run, WorkflowReturns(p, r) PROVE OutcomeKnown'
  <2>1. UNCHANGED canceller /\ (Raise(p, r) \/ Goto(p, r, "complete"))
    BY <1>11 DEF WorkflowReturns
  <2>2. task[p][r].result # None
    BY <1>11 DEF WorkflowReturns, At, OutcomeKnown
  <2>3. QED
    BY <1>g, <1>r, <2>1, <2>2
<1>11d. ASSUME NEW p \in Process, NEW r \in Run, DirectAnswer(p, r) PROVE OutcomeKnown'
  <2> DEFINE new == [task[p][r] EXCEPT !.pc = "complete", !.result = "answer"]
  <2>1. UNCHANGED canceller /\ task' = [task EXCEPT ![p][r] = new]
    BY <1>11d DEF DirectAnswer
  <2>2. TaskKnows(new, status'[r], report'[r])
    BY <1>t DEF TaskKnows
  <2>3. QED
    BY <1>p, <2>1, <2>2
<1>12. ASSUME NEW p \in Process, NEW r \in Run, Complete(p, r) PROVE OutcomeKnown'
  <2>1. UNCHANGED canceller
    BY <1>12 DEF Complete
  <2>2. CASE Raise(p, r)
    BY <1>r, <2>1, <2>2
  <2>3. CASE /\ Store!Set(r, "completed") /\ Goto(p, r, "completed")
             /\ report' = [report EXCEPT ![r] = ReportOf(task[p][r])]
    <3>1. status'[r] = "completed" /\ report'[r] = ReportOf(task[p][r])
      BY <2>3 DEF Store!Set, TypeOK, Store!TypeOK
    <3>2. QED
      BY <1>g, <2>1, <2>3, <3>1
  <2>4. QED
    BY <1>12, <2>2, <2>3 DEF Complete
<1>13. ASSUME NEW p \in Process, NEW r \in Run, PublishCompleted(p, r) PROVE OutcomeKnown'
  <2>1. /\ UNCHANGED canceller
        /\ status'[r] = "completed" /\ report'[r] = ReportOf(task[p][r])
    BY <1>13, <1>v DEF PublishCompleted, At, TaskKnows
  <2>2. Goto(p, r, "seal") \/ Goto(p, r, None)
    BY <1>13 DEF PublishCompleted
  <2>3. QED
    BY <1>g, <2>1, <2>2
<1>14. ASSUME NEW p \in Process, NEW r \in Run, Fail(p, r) PROVE OutcomeKnown'
  <2>1. UNCHANGED canceller
    BY <1>14 DEF Fail
  <2>2. CASE Raise(p, r)
    BY <1>r, <2>1, <2>2
  <2>3. CASE Store!MarkFailed(r) /\ Goto(p, r, "failed")
    <3>1. status'[r] = "failed"
      BY <2>3 DEF Store!MarkFailed, Store!Set, TypeOK, Store!TypeOK
    <3>2. QED
      BY <1>g, <2>1, <2>3, <3>1
  <2>4. QED
    BY <1>14, <2>2, <2>3 DEF Fail
<1>15. ASSUME NEW p \in Process, NEW r \in Run, PublishFailed(p, r) PROVE OutcomeKnown'
  <2>1. UNCHANGED canceller /\ (Goto(p, r, "abort") \/ Goto(p, r, None))
    BY <1>15 DEF PublishFailed
  <2>2. QED
    BY <1>g, <2>1
<1>16. ASSUME NEW p \in Process, NEW r \in Run, Seal(p, r) PROVE OutcomeKnown'
  <2>1. /\ UNCHANGED canceller
        /\ status'[r] = "completed" /\ report'[r] = ReportOf(task[p][r])
    BY <1>16, <1>v DEF Seal, At, TaskKnows
  <2>2. Raise(p, r) \/ Goto(p, r, "log")
    BY <1>16 DEF Seal
  <2>3. QED
    BY <1>g, <1>r, <2>1, <2>2
<1>17. ASSUME NEW p \in Process, NEW r \in Run, Interrupt(p, r) PROVE OutcomeKnown'
  <2>1. TaskKnows(Cancelled(task[p][r]), status'[r], report'[r])
    BY <1>t DEF TaskKnows, Cancelled, CancelledTo, MovedTo
  <2>2. QED
    BY <1>17, <1>p, <2>1 DEF Interrupt
<1>18. ASSUME NEW p \in Process, NEW r \in Run, DbError(p, r) PROVE OutcomeKnown'
  BY <1>18, <1>r DEF DbError
<1>19. ASSUME NEW p \in Process, NEW r \in Run,
              HeartbeatCancelsOwner(p, r) \/ HeartbeatDies(p, r)
       PROVE  OutcomeKnown'
  <2> DEFINE cancelled == [task[p][r] EXCEPT !.cancel = TRUE, !.beat = FALSE]
             silent    == [task[p][r] EXCEPT !.beat = FALSE]
  <2>1. TaskKnows(cancelled, status'[r], report'[r]) /\ TaskKnows(silent, status'[r], report'[r])
    BY <1>t, <1>v DEF TaskKnows
  <2>2. CASE HeartbeatCancelsOwner(p, r)
    BY <1>p, <2>1, <2>2 DEF HeartbeatCancelsOwner
  <2>3. CASE HeartbeatDies(p, r)
    BY <1>p, <2>1, <2>3 DEF HeartbeatDies
  <2>4. QED
    BY <1>19, <2>2, <2>3
<1>20. ASSUME NEW p \in Process, Crash(p) \/ Exit(p) PROVE OutcomeKnown'
  <2>1. /\ \A q \in Process, s \in Run :
              task'[q][s] = IF q = p THEN NoTask ELSE task[q][s]
        /\ \A q \in Process, s \in Run :
              canceller'[q][s] = IF q = p THEN None ELSE canceller[q][s]
    <3>1. /\ task' = [task EXCEPT ![p] = [r \in Run |-> NoTask]]
          /\ canceller' = [canceller EXCEPT ![p] = [r \in Run |-> None]]
      BY <1>20 DEF Crash, Exit, Dead
    <3>2. QED
      BY <1>t, <3>1
  <2>2. \A q \in Process, s \in Run : TaskKnows(task'[q][s], status'[s], report'[s])
    BY <1>v, <2>1 DEF TaskKnows
  <2>3. QED
    BY <1>q, <1>w, <2>1, <2>2
<1>21. ASSUME NEW p \in Process, Close(p) PROVE OutcomeKnown'
  <2>1. \A q \in Process, s \in Run : /\ task'[q][s].pc = task[q][s].pc
                                      /\ task'[q][s].result = task[q][s].result
    BY <1>21, <1>t DEF Close
  <2>2. \A q \in Process, s \in Run : TaskKnows(task'[q][s], status'[s], report'[s])
    BY <1>v, <2>1 DEF TaskKnows
  <2>3. UNCHANGED canceller
    BY <1>21 DEF Close
  <2>4. QED
    BY <1>q, <1>w, <2>2, <2>3
<1>22. ASSUME NEW p \in Process, Restart(p) PROVE OutcomeKnown'
  <2>1. \A q \in Process, s \in Run :
           task'[q][s].pc \in {None, "claim"} \/ task'[q][s] = task[q][s]
    BY <1>22, <1>t DEF Restart
  <2>2. \A q \in Process, s \in Run : TaskKnows(task'[q][s], status'[s], report'[s])
    BY <1>v, <2>1 DEF TaskKnows
  <2>3. UNCHANGED canceller
    BY <1>22 DEF Restart
  <2>4. QED
    BY <1>q, <1>w, <2>2, <2>3
<1>23. ASSUME UNCHANGED <<task, canceller>> PROVE OutcomeKnown'
  BY <1>23, <1>q, <1>v, <1>w
<1>24. QED
  BY <1>1, <1>2, <1>3, <1>4, <1>5, <1>6, <1>7, <1>8, <1>9, <1>10, <1>11, <1>11d, <1>12,
     <1>13, <1>14, <1>15, <1>16, <1>17, <1>18, <1>19, <1>20, <1>21, <1>22, <1>23
     DEF Next, TaskStep, AgentStep, HeartbeatRenews, Tick, vars

-----------------------------------------------------------------------------
(* Ownership.                                                              *)

WorkerPC == {"claimed", "open"} \cup Body

\* WorkerHoldsLease, of one task and its run's lease.
HoldsLease(t, l) ==
    t.owned /\ ~t.cancel /\ t.pc \in WorkerPC
       => t.token # 0 /\ l.token = t.token /\ l.left > 0 /\ (t.pc \in Body => t.beat)

\* A worker that may still act keeps its lease, if no heartbeat is late or fails.
LEMMA LeaseStep ==
    ASSUME TypeOK, Attempted, TokensUnique, WorkerHoldsLease, [Next]_vars
    PROVE  WorkerHoldsLease'
<1> SUFFICES ASSUME Fault \cap {"late", "db"} = {}
             PROVE  \A q \in Process, s \in Run : HoldsLease(task'[q][s], lease'[s])
  BY DEF WorkerHoldsLease, HoldsLease, OwnsLease, WorkerPC
<1> DEFINE AllHold == \A q \in Process, s \in Run : HoldsLease(task'[q][s], lease'[s])
<1> USE DEF NoTask, Task, None, Body, WorkerPC
<1>t. task \in [Process -> [Run -> Task]] /\ lease \in [Run -> Lease]
  BY DEF TypeOK
<1>f. "late" \notin Fault /\ "db" \notin Fault
  OBVIOUS
<1>k. \A q \in Process, s \in Run : HoldsLease(task[q][s], lease[s])
  BY DEF WorkerHoldsLease, HoldsLease, OwnsLease
<1>p. ASSUME NEW p \in Process, NEW r \in Run, NEW n, HoldsLease(n, lease[r]),
             task' = [task EXCEPT ![p][r] = n], UNCHANGED lease
      PROVE  AllHold
  <2>1. \A q \in Process, s \in Run :
           task'[q][s] = IF q = p /\ s = r THEN n ELSE task[q][s]
    BY <1>t, <1>p
  <2>2. QED
    BY <1>p, <1>k, <2>1
<1>g. ASSUME NEW p \in Process, NEW r \in Run, NEW pc, Goto(p, r, pc), UNCHANGED lease,
             \/ pc \notin WorkerPC
             \/ ~task[p][r].owned
             \/ pc = "open" /\ At(p, r, "claimed")
             \/ task[p][r].pc \in Body /\ ~task[p][r].cancel
      PROVE  AllHold
  <2>1. HoldsLease(task[p][r], lease[r])
    BY <1>k
  <2>2. HoldsLease(MovedTo(task[p][r], pc), lease[r])
    BY <1>t, <1>g, <2>1 DEF HoldsLease, MovedTo, At
  <2>3. QED
    BY <1>p, <1>g, <2>2 DEF Goto
<1>r. ASSUME NEW p \in Process, NEW r \in Run, Raise(p, r), UNCHANGED lease,
             ~task[p][r].cancel
      PROVE  AllHold
  <2>1. HoldsLease(task[p][r], lease[r])
    BY <1>k
  <2>2. HoldsLease(Raised(task[p][r]), lease[r])
    BY <1>t, <1>r, <2>1 DEF HoldsLease, Raised, RaisedTo, MovedTo
  <2>3. QED
    BY <1>p, <1>r, <2>2 DEF Raise
<1>1. ASSUME NEW p \in Process, NEW r \in Run, Submit(p, r) PROVE AllHold
  <2> DEFINE own == r \notin SyncRun
             new == [NoTask EXCEPT !.pc = "accept", !.owned = own, !.scope = Asked(r)]
  <2>1. task' = [task EXCEPT ![p][r] = new] /\ UNCHANGED lease
    BY <1>1 DEF Submit
  <2>2. new.pc = "accept"
    OBVIOUS
  <2>3. HoldsLease(new, lease[r])
    <3> HIDE DEF new
    <3>1. QED
      BY <2>2 DEF HoldsLease
  <2>4. QED
    <3> HIDE DEF new
    <3>1. QED
      BY <1>p, <2>1, <2>3
<1>2. ASSUME NEW p \in Process, NEW r \in Run, Accept(p, r) PROVE AllHold
  <2>1. UNCHANGED lease
    BY <1>2 DEF Accept, rowVars
  <2>2. Goto(p, r, "claim") \/ (~task[p][r].owned /\ Goto(p, r, "start"))
    BY <1>2 DEF Accept
  <2>3. QED
    BY <1>g, <2>1, <2>2
<1>3. ASSUME NEW p \in Process, NEW r \in Run, CancelTask(p, r) PROVE AllHold
  <2>1. UNCHANGED lease
    BY <1>3 DEF CancelTask, rowVars
  <2>2. HoldsLease([task[p][r] EXCEPT !.cancel = TRUE], lease[r])
    BY <1>t DEF HoldsLease
  <2>3. CASE task' = task
    BY <1>k, <2>1, <2>3
  <2>4. CASE task' = [task EXCEPT ![p][r] = [task[p][r] EXCEPT !.cancel = TRUE]]
    BY <1>p, <2>1, <2>2, <2>4
  <2>5. QED
    BY <1>3, <2>3, <2>4 DEF CancelTask
<1>4. ASSUME NEW p \in Process, NEW r \in Run, Claim(p, r) PROVE AllHold
  <2>1. \A q \in Process, s \in Run :
           q # p \/ s # r => task'[q][s] = task[q][s]
    BY <1>4, <1>t DEF Claim
  <2>2. /\ task'[p][r].pc = "claimed" /\ task'[p][r].token = claims + 1
        /\ lease'[r].token = claims + 1 /\ lease'[r].left = TTL
    BY <1>4, <1>t DEF Claim, MovedTo
  <2>3. claims + 1 # 0 /\ TTL > 0
    BY JobsAssumption DEF TypeOK
  <2>4. HoldsLease(task'[p][r], lease'[r])
    BY <2>2, <2>3 DEF HoldsLease
  <2>5. ASSUME NEW q \in Process, q # p PROVE HoldsLease(task'[q][r], lease'[r])
    <3>1. HoldsLease(task[q][r], lease[r]) /\ ~(lease[r].left > 0)
      BY <1>4, <1>k DEF Claim, Claimable
    <3>2. QED
      BY <2>1, <2>5, <3>1 DEF HoldsLease
  <2>6. \A s \in Run : s # r => lease'[s] = lease[s]
    BY <1>4, <1>t DEF Claim
  <2>7. QED
    BY <1>k, <2>1, <2>4, <2>5, <2>6
<1>5. ASSUME NEW p \in Process, NEW r \in Run, AuditClaim(p, r) PROVE AllHold
  BY <1>5, <1>g DEF AuditClaim
<1>6. ASSUME NEW p \in Process, NEW r \in Run, Open(p, r) PROVE AllHold
  <2> DEFINE new == [task[p][r] EXCEPT !.pc = "start", !.beat = TRUE]
  <2>1. HoldsLease(task[p][r], lease[r])
    BY <1>k
  <2>2. task[p][r].pc = "open" /\ ~task[p][r].cancel /\ UNCHANGED lease
    BY <1>6 DEF Open, At
  <2>3. HoldsLease(new, lease[r])
    BY <1>t, <2>1, <2>2 DEF HoldsLease
  <2>4. Raise(p, r) \/ task' = [task EXCEPT ![p][r] = new]
    BY <1>6 DEF Open
  <2>5. QED
    BY <1>p, <1>r, <2>2, <2>3, <2>4
<1>7. ASSUME NEW p \in Process, NEW r \in Run,
             \/ Start(p, r) \/ Announce(p, r) \/ WorkflowReturns(p, r)
             \/ Complete(p, r) \/ Fail(p, r)
      PROVE  AllHold
  <2>1. task[p][r].pc \in Body /\ ~task[p][r].cancel
    BY <1>7 DEF Start, Announce, WorkflowReturns, Complete, Fail, At
  <2>2. UNCHANGED lease
    BY <1>7 DEF Start, Announce, WorkflowReturns, Complete, Fail, rowVars
  <2>3. Raise(p, r) \/ \E pc : Goto(p, r, pc)
    BY <1>7 DEF Start, Announce, WorkflowReturns, Complete, Fail
  <2>4. QED
    BY <1>g, <1>r, <2>1, <2>2, <2>3
<1>8. ASSUME NEW p \in Process, NEW r \in Run,
             CacheHit(p, r) \/ Launch(p, r) \/ DirectAnswer(p, r)
      PROVE  AllHold
  <2>1. task[p][r].pc \in {"lookup", "working"} /\ ~task[p][r].cancel /\ UNCHANGED lease
    BY <1>8 DEF CacheHit, Launch, DirectAnswer, At, rowVars
  <2>2. HoldsLease(task[p][r], lease[r])
    BY <1>k
  <2>3. \A c : /\ HoldsLease([task[p][r] EXCEPT !.pc = "working", !.result = c], lease[r])
               /\ HoldsLease([task[p][r] EXCEPT !.pc = "complete", !.result = c], lease[r])
               /\ HoldsLease([task[p][r] EXCEPT !.pc = "complete", !.hit = TRUE,
                                                !.result = c], lease[r])
    BY <1>t, <2>1, <2>2 DEF HoldsLease
  <2>4. \/ Raise(p, r)
        \/ \E c : task' = [task EXCEPT ![p][r] =
                             [task[p][r] EXCEPT !.pc = "working", !.result = c]]
        \/ \E c : task' = [task EXCEPT ![p][r] =
                             [task[p][r] EXCEPT !.pc = "complete", !.result = c]]
        \/ \E c : task' = [task EXCEPT ![p][r] =
                             [task[p][r] EXCEPT !.pc = "complete", !.hit = TRUE,
                                                !.result = c]]
    BY <1>8 DEF CacheHit, Launch, DirectAnswer
  <2>5. QED
    BY <1>p, <1>r, <2>1, <2>3, <2>4
<1>9. ASSUME NEW p \in Process, NEW r \in Run,
             \/ ClaimRefused(p, r) \/ PublishCompleted(p, r) \/ PublishFailed(p, r)
             \/ Seal(p, r) \/ AuditEnd(p, r)
      PROVE  AllHold
  <2>1. UNCHANGED lease
    BY <1>9 DEF ClaimRefused, PublishCompleted, PublishFailed, Seal, AuditEnd, rowVars
  <2>2. ~task[p][r].cancel
    BY <1>9 DEF ClaimRefused, PublishCompleted, PublishFailed, Seal, AuditEnd, At
  <2>3. Raise(p, r) \/ \E pc \in {None, "seal", "abort", "log", "release"} : Goto(p, r, pc)
    BY <1>9 DEF ClaimRefused, PublishCompleted, PublishFailed, Seal, AuditEnd
  <2>4. QED
    BY <1>g, <1>r, <2>1, <2>2, <2>3
<1>10. ASSUME NEW p \in Process, NEW r \in Run, Release(p, r) PROVE AllHold
  <2>1. /\ \A q \in Process, s \in Run : q # p \/ s # r => task'[q][s] = task[q][s]
        /\ task'[p][r] = NoTask
    BY <1>10, <1>t DEF Release, Goto, MovedTo
  <2>2. HoldsLease(task'[p][r], lease'[r])
    BY <2>1 DEF HoldsLease
  <2>3. \A s \in Run : s # r => lease'[s] = lease[s]
    BY <1>10, <1>t DEF Release
  <2>4. ASSUME NEW q \in Process, q # p PROVE HoldsLease(task'[q][r], lease'[r])
    <3>1. HoldsLease(task[q][r], lease[r]) /\ task'[q][r] = task[q][r]
      BY <1>k, <2>1, <2>4
    <3>2. CASE OwnsLease(p, r)
      <4>1. task[p][r].token = lease[r].token /\ task[p][r].token # 0
        BY <3>2 DEF OwnsLease
      <4>2. task[q][r].token # task[p][r].token
        BY <2>4, <4>1 DEF TokensUnique
      <4>3. QED
        BY <3>1, <4>1, <4>2 DEF HoldsLease
    <3>3. CASE ~OwnsLease(p, r)
      <4>1. lease'[r] = lease[r]
        BY <1>10, <1>t, <3>3 DEF Release, Released
      <4>2. QED
        BY <3>1, <4>1
    <3>4. QED
      BY <3>2, <3>3
  <2>5. QED
    BY <1>k, <2>1, <2>2, <2>3, <2>4
<1>11. ASSUME NEW p \in Process, NEW r \in Run, Interrupt(p, r) PROVE AllHold
  <2>1. HoldsLease(Cancelled(task[p][r]), lease[r])
    BY <1>t DEF HoldsLease, Cancelled, CancelledTo, MovedTo
  <2>2. QED
    BY <1>11, <1>p, <2>1 DEF Interrupt, rowVars
<1>12. ASSUME NEW p \in Process, NEW r \in Run, HeartbeatRenews(p, r) PROVE AllHold
  <2>1. \A s \in Run : /\ lease'[s].token = lease[s].token
                       /\ lease[s].left > 0 => lease'[s].left > 0
    BY <1>12, <1>t, JobsAssumption DEF HeartbeatRenews, Lease
  <2>2. UNCHANGED task
    BY <1>12 DEF HeartbeatRenews
  <2>3. QED
    BY <1>k, <2>1, <2>2 DEF HoldsLease
<1>13. ASSUME NEW p \in Process, NEW r \in Run, HeartbeatCancelsOwner(p, r) PROVE AllHold
  <2>1. HoldsLease([task[p][r] EXCEPT !.cancel = TRUE, !.beat = FALSE], lease[r])
    BY <1>t DEF HoldsLease
  <2>2. QED
    BY <1>13, <1>p, <2>1 DEF HeartbeatCancelsOwner, rowVars
<1>14. ASSUME NEW p \in Process, Crash(p) \/ Exit(p) PROVE AllHold
  <2>1. /\ task' = [task EXCEPT ![p] = [r \in Run |-> NoTask]]
        /\ UNCHANGED lease
    BY <1>14 DEF Crash, Exit, Dead, rowVars
  <2>2. \A q \in Process, s \in Run :
           task'[q][s] = IF q = p THEN NoTask ELSE task[q][s]
    BY <1>t, <2>1
  <2>3. QED
    BY <1>k, <2>1, <2>2 DEF HoldsLease
<1>15. ASSUME NEW p \in Process, Close(p) PROVE AllHold
  <2>1. UNCHANGED lease
    BY <1>15 DEF Close, rowVars
  <2>2. \A q \in Process, s \in Run :
           task'[q][s] = task[q][s] \/ task'[q][s] = [task[q][s] EXCEPT !.cancel = TRUE]
    BY <1>15, <1>t DEF Close
  <2>3. \A q \in Process, s \in Run :
           HoldsLease([task[q][s] EXCEPT !.cancel = TRUE], lease[s])
    BY <1>t DEF HoldsLease
  <2>4. ASSUME NEW q \in Process, NEW s \in Run
        PROVE  HoldsLease(task'[q][s], lease[s])
    <3>1. CASE task'[q][s] = task[q][s]
      BY <1>k, <3>1
    <3>2. CASE task'[q][s] = [task[q][s] EXCEPT !.cancel = TRUE]
      BY <2>3, <3>2
    <3>3. QED
      BY <2>2, <3>1, <3>2
  <2>5. QED
    BY <2>1, <2>4
<1>16. ASSUME NEW p \in Process, Restart(p) PROVE AllHold
  <2>1. UNCHANGED lease
    BY <1>16 DEF Restart, rowVars
  <2>2. \A q \in Process, s \in Run :
           task'[q][s].pc \in {None, "claim"} \/ task'[q][s] = task[q][s]
    BY <1>16, <1>t DEF Restart
  <2>3. QED
    BY <1>k, <2>1, <2>2 DEF HoldsLease
<1>17. ASSUME Tick PROVE AllHold
  <2>1. ASSUME NEW q \in Process, NEW s \in Run
        PROVE  HoldsLease(task[q][s], lease'[s])
    <3>1. HoldsLease(task[q][s], lease[s])
      BY <1>k
    <3>2. lease'[s].token = lease[s].token
      BY <1>17, <1>t DEF Tick, Lease
    <3>3. lease[s].left # 1 /\ lease[s].left > 0 => lease'[s].left > 0
      BY <1>17, <1>t DEF Tick, Lease
    <3>4. Tended(q, s) => lease[s].left # 1
      BY <1>17, <1>f DEF Tick
    <3>5. QED
      BY <3>1, <3>2, <3>3, <3>4 DEF HoldsLease, Tended, OwnsLease
  <2>2. UNCHANGED task
    BY <1>17 DEF Tick
  <2>3. QED
    BY <2>1, <2>2
<1>18. ASSUME UNCHANGED <<task, lease>> PROVE AllHold
  BY <1>k, <1>18
<1>19. QED
  BY <1>1, <1>2, <1>3, <1>4, <1>5, <1>6, <1>7, <1>8, <1>9, <1>10, <1>11, <1>12,
     <1>13, <1>14, <1>15, <1>16, <1>17, <1>18, <1>f
     DEF Next, TaskStep, CancelStep, CancelRow, CancelPublish, AgentStep, DbError,
         HeartbeatDies, vars, rowVars

-----------------------------------------------------------------------------
(* Theorems.                                                               *)

\* The inductive invariant holds in every reachable state.
LEMMA Invariance == Spec => []JobsInv
<1>1. Init => JobsInv
  <2>1. Init => TypeOK
    BY InitType
  <2>2. Init => Attempted /\ OutcomeKnown /\ WorkerHoldsLease
    BY DEF Init, Attempted, OutcomeKnown, WorkerHoldsLease, NoTask, None, Opening, Body
  <2>3. Init => TokensUnique
    BY DEF Init, TokensUnique, NoTask, NoLease
  <2>4. QED
    BY <2>1, <2>2, <2>3 DEF JobsInv
<1>2. JobsInv /\ [Next]_vars => JobsInv'
  BY TypeStep, AttemptStep, TokenStep, OutcomeStep, LeaseStep DEF JobsInv
<1>3. QED
  BY <1>1, <1>2, PTL DEF Spec

\* Every variable keeps its type; above all, no checkpoint is ever appended
\* with a negative sequence (repositories/durability.py:37).
THEOREM TypeCorrect == Spec => []TypeOK
BY Invariance, PTL DEF JobsInv

\* At most one job task executes a run, whatever processes crash, shut down,
\* restart or cancel, provided that heartbeats are in time and do not fail.
THEOREM ExclusiveOwnership ==
    ASSUME Fault \cap {"late", "db"} = {}
    PROVE  Spec => []OneWorkerPerRun
<1>1. JobsInv => OneWorkerPerRun
  <2> SUFFICES ASSUME JobsInv, NEW r \in Run, NEW p \in Process, NEW q \in Process,
                      task[p][r].owned /\ Executing(p, r),
                      task[q][r].owned /\ Executing(q, r)
               PROVE  p = q
    BY DEF OneWorkerPerRun
  <2>1. OwnsLease(p, r) /\ OwnsLease(q, r)
    BY DEF JobsInv, WorkerHoldsLease, Executing
  <2>2. QED
    BY <2>1 DEF OwnsLease, JobsInv, TokensUnique
<1>2. QED
  BY <1>1, Invariance, PTL

\* The detailed system implements the run table's promise: one terminal
\* status per run, never rewritten, with the report of a completed run.
THEOREM Refinement == Spec => Lifecycle
<1>1. Init => Store!Init
  BY DEF Init
<1>2. JobsInv /\ [Next]_vars => [Store!Next]_<<status, report>>
  BY RefinementStep DEF JobsInv
<1>3. QED
  BY <1>1, <1>2, Invariance, PTL DEF Spec, Lifecycle, Store!Spec, Store!vars

\* A run has a report only once it is completed, and it is the report of the
\* worker that seals the run, however many workers compete for it: the promise
\* of mark_completed's single transaction.
THEOREM ReportsAreFinal == Spec => []ReportOfTheWinner
<1> DEFINE OnlyCompleted == \A r \in Run : report[r] # None => status[r] = "completed"
<1>1. Init => OnlyCompleted
  BY DEF Init, Store!Init, Store!NoReport, None
<1>2. ASSUME JobsInv, OnlyCompleted, [Next]_vars
      PROVE  OnlyCompleted'
  <2>1. [Store!Next]_<<status, report>>
    BY <1>2, RefinementStep DEF JobsInv
  <2>2. /\ status \in [Run -> Store!Status]
        /\ report \in [Run -> Scope \cup {Store!NoReport}]
    BY <1>2 DEF JobsInv, TypeOK, Store!TypeOK
  <2>3. ASSUME NEW r \in Run, Store!MarkCompleted(r) PROVE OnlyCompleted'
    <3>1. PICK s : report' = [report EXCEPT ![r] = s]
      BY <2>3 DEF Store!MarkCompleted
    <3>2. status' = [status EXCEPT ![r] = "completed"]
      BY <2>3 DEF Store!MarkCompleted, Store!Set
    <3>3. QED
      BY <1>2, <2>2, <3>1, <3>2
  <2>4. ASSUME NEW r \in Run, NEW s, status[r] # "completed", Store!Set(r, s),
               UNCHANGED report
        PROVE  OnlyCompleted'
    BY <1>2, <2>2, <2>4 DEF Store!Set
  <2>5. ASSUME NEW r \in Run, \/ Store!Create(r) \/ Store!MarkRunning(r)
                              \/ Store!MarkFailed(r) \/ Store!MarkCancelled(r)
        PROVE  OnlyCompleted'
    BY <2>4, <2>5 DEF Store!Create, Store!MarkRunning, Store!MarkFailed,
       Store!MarkCancelled, Store!ActiveStatus
  <2>6. ASSUME UNCHANGED <<status, report>> PROVE OnlyCompleted'
    BY <1>2, <2>6
  <2>7. QED
    BY <2>1, <2>3, <2>5, <2>6 DEF Store!Next
<1>3. JobsInv /\ OnlyCompleted => ReportOfTheWinner
  BY DEF JobsInv, OutcomeKnown, ReportOfTheWinner
<1>4. QED
  BY <1>1, <1>2, <1>3, Invariance, PTL DEF Spec

\* A terminal snapshot never announces an outcome the row does not have: every
\* publisher of one has seen its own transaction commit, and a terminal row
\* stays as it is.
THEOREM SnapshotsAreTruthful == Spec => []SnapshotNeverLies
<1>1. Init => SnapshotNeverLies
  BY DEF Init, SnapshotNeverLies, TerminalStatus, Store!TerminalStatus, None
<1>2. ASSUME JobsInv, SnapshotNeverLies, [Next]_vars
      PROVE  SnapshotNeverLies'
  <2> USE DEF TerminalStatus, Store!TerminalStatus
  <2>u. \A s \in Run : status[s] \in TerminalStatus => status'[s] = status[s]
    BY <1>2, TerminalStays DEF JobsInv
  <2>s. ASSUME UNCHANGED progress PROVE SnapshotNeverLies'
    BY <1>2, <2>s, <2>u DEF SnapshotNeverLies
  <2>p. ASSUME NEW r \in Run, NEW s, Publish(r, s),
               s \in TerminalStatus => status'[r] = s
        PROVE  SnapshotNeverLies'
    <3>1. CASE progress' = [progress EXCEPT ![r] = s]
      <4>1. progress \in [Run -> {None} \cup ActiveStatus \cup TerminalStatus]
        BY <1>2 DEF JobsInv, TypeOK
      <4>2. \A q \in Run : progress'[q] = IF q = r THEN s ELSE progress[q]
        BY <3>1, <4>1
      <4>3. QED
        BY <1>2, <2>p, <2>u, <4>2 DEF SnapshotNeverLies
    <3>2. QED
      BY <2>p, <2>s, <3>1 DEF Publish
  <2>1. ASSUME NEW p \in Process, NEW r \in Run, Accept(p, r) \/ Announce(p, r)
        PROVE  SnapshotNeverLies'
    BY <2>1, <2>p DEF Accept, Announce
  <2>2. ASSUME NEW p \in Process, NEW r \in Run, CancelPublish(p, r)
        PROVE  SnapshotNeverLies'
    <3>1. status[r] = "cancelled"
      BY <1>2, <2>2 DEF CancelPublish, JobsInv, OutcomeKnown, None
    <3>2. QED
      BY <2>2, <2>p, <2>u, <3>1 DEF CancelPublish
  <2>3. ASSUME NEW p \in Process, NEW r \in Run, PublishCompleted(p, r)
        PROVE  SnapshotNeverLies'
    <3>1. status[r] = "completed"
      BY <1>2, <2>3 DEF PublishCompleted, At, JobsInv, OutcomeKnown
    <3>2. QED
      BY <2>3, <2>p, <2>u, <3>1 DEF PublishCompleted
  <2>4. ASSUME NEW p \in Process, NEW r \in Run, PublishFailed(p, r)
        PROVE  SnapshotNeverLies'
    <3>1. status[r] = "failed"
      BY <1>2, <2>4 DEF PublishFailed, At, JobsInv, OutcomeKnown
    <3>2. QED
      BY <2>4, <2>p, <2>u, <3>1 DEF PublishFailed
  <2>5. ASSUME NEW p \in Process, NEW r \in Run,
               \/ Submit(p, r) \/ CancelRow(p, r) \/ CancelTask(p, r)
               \/ Claim(p, r) \/ ClaimRefused(p, r) \/ AuditClaim(p, r) \/ Open(p, r)
               \/ Start(p, r) \/ CacheHit(p, r) \/ Launch(p, r)
               \/ WorkflowReturns(p, r) \/ DirectAnswer(p, r)
               \/ Complete(p, r) \/ Fail(p, r)
               \/ Seal(p, r) \/ AuditEnd(p, r) \/ Release(p, r) \/ Interrupt(p, r)
               \/ DbError(p, r) \/ HeartbeatRenews(p, r)
               \/ HeartbeatCancelsOwner(p, r) \/ HeartbeatDies(p, r)
        PROVE  UNCHANGED progress
    BY <2>5 DEF Submit, CancelRow, CancelTask, Claim, ClaimRefused, AuditClaim, Open,
       Start, CacheHit, Launch, WorkflowReturns, DirectAnswer, Complete, Fail, Seal, AuditEnd,
       Release, Interrupt, DbError, HeartbeatRenews, HeartbeatCancelsOwner,
       HeartbeatDies
  <2>6. ASSUME NEW p \in Process, NEW r \in Run, AgentStep(p, r)
        PROVE  SnapshotNeverLies'
    BY <2>6, <2>p DEF AgentStep
  <2>7. ASSUME \/ \E p \in Process : Crash(p) \/ Close(p) \/ Exit(p) \/ Restart(p)
               \/ Tick \/ UNCHANGED vars
        PROVE  UNCHANGED progress
    BY <2>7 DEF Crash, Close, Exit, Restart, Tick, vars
  <2>8. QED
    BY <1>2, <2>s, <2>1, <2>2, <2>3, <2>4, <2>5, <2>6, <2>7
       DEF Next, TaskStep, CancelStep
<1>3. QED
  BY <1>1, <1>2, Invariance, PTL DEF Spec

\* No worker that lost the race for its run writes a terminal checkpoint.
THEOREM SealsAreTruthful == Spec => []SealedMeansCompleted
<1>1. Init => SealedMeansCompleted
  BY DEF Init, SealedMeansCompleted
<1>2. ASSUME JobsInv, SealedMeansCompleted, [Next]_vars
      PROVE  SealedMeansCompleted'
  <2>u. \A s \in Run : status[s] = "completed" => status'[s] = "completed"
    BY <1>2, TerminalStays DEF JobsInv
  <2>c. checkpoints \in [Run -> SUBSET [seq : Nat,
                                        node : {"queued", "resumed", "completed"}]]
    BY <1>2 DEF JobsInv, TypeOK
  <2>s. ASSUME UNCHANGED checkpoints PROVE SealedMeansCompleted'
    BY <1>2, <2>s, <2>u DEF SealedMeansCompleted
  <2>a. ASSUME NEW r \in Run, NEW c,
               checkpoints' = [checkpoints EXCEPT ![r] = @ \cup {c}],
               c.node = "completed" => status[r] = "completed"
        PROVE  SealedMeansCompleted'
    <3>1. \A q \in Run : checkpoints'[q] = IF q = r THEN checkpoints[q] \cup {c}
                                           ELSE checkpoints[q]
      BY <2>a, <2>c
    <3>2. QED
      BY <1>2, <2>a, <2>u, <3>1 DEF SealedMeansCompleted
  <2>1. ASSUME NEW p \in Process, NEW r \in Run, Open(p, r)
        PROVE  SealedMeansCompleted'
    <3> DEFINE c == [seq  |-> OpenSeq(task[p][r]),
                     node |-> IF task[p][r].resume THEN "resumed" ELSE "queued"]
    <3>1. CASE UNCHANGED checkpoints
      BY <3>1, <2>s
    <3>2. CASE checkpoints' = [checkpoints EXCEPT ![r] = @ \cup {c}]
      <4>1. c.node # "completed"
        OBVIOUS
      <4> HIDE DEF c
      <4>2. QED
        BY <2>a, <3>2, <4>1
    <3>3. QED
      BY <2>1, <3>1, <3>2 DEF Open
  <2>2. ASSUME NEW p \in Process, NEW r \in Run, Seal(p, r)
        PROVE  SealedMeansCompleted'
    <3> DEFINE c == [seq |-> SealSeq(task[p][r]), node |-> "completed"]
    <3>1. status[r] = "completed"
      BY <1>2, <2>2 DEF Seal, At, JobsInv, OutcomeKnown
    <3>2. CASE UNCHANGED checkpoints
      BY <3>2, <2>s
    <3>3. CASE checkpoints' = [checkpoints EXCEPT ![r] = @ \cup {c}]
      <4> HIDE DEF c
      <4>1. QED
        BY <2>a, <3>1, <3>3
    <3>4. QED
      BY <2>2, <3>2, <3>3 DEF Seal
  <2>3. ASSUME NEW p \in Process, NEW r \in Run,
               \/ Submit(p, r) \/ CancelRow(p, r) \/ CancelStep(p, r)
               \/ Accept(p, r) \/ Claim(p, r) \/ ClaimRefused(p, r) \/ AuditClaim(p, r)
               \/ Start(p, r) \/ Announce(p, r) \/ CacheHit(p, r) \/ Launch(p, r)
               \/ AgentStep(p, r) \/ WorkflowReturns(p, r) \/ DirectAnswer(p, r)
               \/ Complete(p, r) \/ PublishCompleted(p, r)
               \/ Fail(p, r) \/ PublishFailed(p, r)
               \/ AuditEnd(p, r) \/ Release(p, r) \/ Interrupt(p, r)
               \/ DbError(p, r) \/ HeartbeatRenews(p, r)
               \/ HeartbeatCancelsOwner(p, r) \/ HeartbeatDies(p, r)
        PROVE  UNCHANGED checkpoints
    BY <2>3 DEF Submit, CancelRow, CancelStep, CancelPublish, CancelTask, Accept,
       Claim, ClaimRefused, AuditClaim, Start, Announce, CacheHit, Launch, AgentStep,
       WorkflowReturns, DirectAnswer, Complete, PublishCompleted, Fail, PublishFailed,
       AuditEnd, Release, Interrupt, DbError, HeartbeatRenews, HeartbeatCancelsOwner,
       HeartbeatDies, rowVars
  <2>4. ASSUME \/ \E p \in Process : Crash(p) \/ Close(p) \/ Exit(p) \/ Restart(p)
               \/ Tick \/ UNCHANGED vars
        PROVE  UNCHANGED checkpoints
    <3>1. ASSUME NEW p \in Process, Crash(p) \/ Close(p) \/ Exit(p) \/ Restart(p)
          PROVE  UNCHANGED checkpoints
      <4>1. UNCHANGED rowVars
        BY <3>1, Zenon DEF Crash, Close, Exit, Restart
      <4>2. QED
        BY <4>1 DEF rowVars
    <3>2. QED
      BY <2>4, <3>1 DEF Tick, vars
  <2>5. QED
    BY <1>2, <2>s, <2>1, <2>2, <2>3, <2>4 DEF Next, TaskStep
<1>3. QED
  BY <1>1, <1>2, Invariance, PTL DEF Spec

\* No worker is deprived of an unexpired lease, not even by a former owner of
\* the run that releases late.
THEOREM LeasesAreFenced == Spec => LeaseIsFenced
<1> DEFINE Fenced == \A r \in Run :
                        lease[r].left > 0 /\ lease'[r].token # lease[r].token
                           => \E p \in Process : OwnsLease(p, r) /\ task[p][r].pc = "release"
<1>1. ASSUME JobsInv, [Next]_vars PROVE [Fenced]_vars
  <2>t. lease \in [Run -> Lease]
    BY <1>1 DEF JobsInv, TypeOK
  <2>1. ASSUME NEW p \in Process, NEW r \in Run, Claim(p, r) PROVE Fenced
    BY <2>1, <2>t DEF Claim, Claimable, Lease
  <2>2. ASSUME NEW p \in Process, NEW r \in Run, Release(p, r) PROVE Fenced
    <3>1. CASE OwnsLease(p, r)
      BY <2>2, <2>t, <3>1 DEF Release, At
    <3>2. CASE ~OwnsLease(p, r)
      BY <2>2, <2>t, <3>2 DEF Release, Released
    <3>3. QED
      BY <3>1, <3>2
  <2>3. ASSUME NEW p \in Process, NEW r \in Run, HeartbeatRenews(p, r) PROVE Fenced
    BY <2>3, <2>t DEF HeartbeatRenews, Lease
  <2>4. ASSUME Tick PROVE Fenced
    BY <2>4, <2>t DEF Tick, Lease
  <2>5. ASSUME NEW p \in Process, NEW r \in Run,
               \/ Submit(p, r) \/ CancelRow(p, r) \/ CancelStep(p, r) \/ Accept(p, r)
               \/ ClaimRefused(p, r) \/ AuditClaim(p, r) \/ Open(p, r)
               \/ Start(p, r) \/ Announce(p, r) \/ CacheHit(p, r) \/ Launch(p, r)
               \/ AgentStep(p, r) \/ WorkflowReturns(p, r) \/ DirectAnswer(p, r)
               \/ Complete(p, r)
               \/ PublishCompleted(p, r) \/ Fail(p, r) \/ PublishFailed(p, r)
               \/ Seal(p, r) \/ AuditEnd(p, r) \/ Interrupt(p, r) \/ DbError(p, r)
               \/ HeartbeatCancelsOwner(p, r) \/ HeartbeatDies(p, r)
        PROVE  UNCHANGED lease
    BY <2>5 DEF Submit, CancelRow, CancelStep, CancelPublish, CancelTask, Accept,
       ClaimRefused, AuditClaim, Open, Start, Announce, CacheHit, Launch, AgentStep,
       WorkflowReturns, DirectAnswer, Complete, PublishCompleted, Fail, PublishFailed, Seal,
       AuditEnd, Interrupt, DbError, HeartbeatCancelsOwner, HeartbeatDies, rowVars
  <2>6. ASSUME \/ \E p \in Process : Crash(p) \/ Close(p) \/ Exit(p) \/ Restart(p)
               \/ UNCHANGED vars
        PROVE  UNCHANGED lease
    BY <2>6 DEF Crash, Close, Exit, Restart, vars, rowVars
  <2>7. UNCHANGED lease => Fenced
    OBVIOUS
  <2>8. QED
    BY <1>1, <2>1, <2>2, <2>3, <2>4, <2>5, <2>6, <2>7 DEF Next, TaskStep
<1>2. QED
  BY <1>1, Invariance, PTL DEF Spec, LeaseIsFenced
===========================================================================

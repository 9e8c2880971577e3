# Verification of the Enterprise Agentic Research Platform

TLA+ models of the platform's stateful core, the TLC runs that check them on
small instances, and theorems that TLAPS checks for every instance.

## The system

A FastAPI application answers research questions. A client submits a query,
either synchronously (`POST /research-runs`) or as a durable job
(`POST /research-runs/jobs`); a LangGraph workflow of eight agents searches the
web and the tenant's private documents, judges the evidence and writes a cited
report. PostgreSQL holds everything durable, Redis holds caches, locks, rate
counters and progress snapshots, Milvus (or memory) the vectors. Several API
processes share these stores; inside a process everything runs on one asyncio
event loop, so code interleaves exactly at `await`.

### Inventory

| Component | State | Operations | Hard behaviour | What makes it correct |
|---|---|---|---|---|
| Durable jobs and leases (`services/research/jobs.py`, `db/repositories/durability.py`) | leases, checkpoints, audit events (PostgreSQL); tasks, heartbeats (process) | start, submit, cancel, close, claim, renew, release, seal | processes race for a run; crash, restart, shutdown; heartbeat against completion; expired leases | one worker per run; an unexpired lease is not taken away; every accepted run settles; interrupted runs can be taken up |
| Run lifecycle and execution (`services/research/execution.py`, `db/repositories/research_runs.py`, `reports.py`) | run status, report; snapshot; cached result | queue, execute, cancel, the four `mark_*` transitions | workers, cancel requests and synchronous requests race for one row | one terminal status, never rewritten; a report only with it; snapshots agree with the row |
| Idempotent execution (`services/research/idempotency.py`, `services/cache/locks.py`) | Redis lock and completed record | acquire, renew, record, replay, release | lock expiry during a long execution, lost renewals, retry after a crash | one execution per key while its lock lives; a record is final; a lost lock stops its execution |
| Circuit breaker, retry, search (`core/`, `services/search/`) | breaker state, trial flag, opening time | call, success, failure, backoff | concurrent calls of different eras, cancellation of a trial | one trial at a time; never stuck open |
| Agent workflow (`workflow/graph.py`, `agents/`) | graph state, iteration counters | eight nodes, conditional edges, repair loop | bounded loops, parallel scouts, resumed supersteps | rounds and repairs bounded; no update lost at a join; citations audited before the end |
| Private documents (`services/knowledge/`) | document rows, stored objects, vectors | upload, index, resolve, delete | three stores, no common transaction; delete during indexing | ready means indexed; nothing is left behind but by a failure |
| Progress and event stream (`services/cache/progress.py`, `api/research.py`) | latest snapshot per run | publish, poll | lost and reordered writes, poller misses states | the stream ends with the run's outcome |
| Rate limiter (`services/cache/rate_limits.py`) | Redis counter with expiry | increment | increment and expiry are two facts; Redis failure | never more than the limit per window; fail closed |
| Result cache (`services/cache/research_results.py`, `keys.py`) | results by tenant, provider, query, scope | get, set | recovered runs, changed documents | an answer belongs to its key |
| Sessions and tenants (`services/auth/`) | sessions, users, tenants | register, login, resolve, logout | registration race, expiry | one account per address; no session outlives its expiry or logout |
| API layer, lifespan, configuration | process life | startup, shutdown | order of startup and shutdown | see durable jobs |
| Vector store and indexing (`services/knowledge/indexing.py`, `chunking.py`, `services/vector_store/`) | the Milvus collection, its first-use flag and lock | chunk, embed, initialise, upsert | concurrent first use, batches against chunks, partial failure | an indexed document is found by every word; nothing is written in part |
| MCP, LLM, embedding clients; rendering; evaluation; frontend; migrations | none, or third party | | | outcomes are inputs of the models, or not modelled, see below |

Components interact by calls within a process and through the shared stores
between processes; there are no messages between processes.

## Modules

| Module | Role |
|---|---|
| `RunLifecycle` | the abstract specification: what the run and report tables promise a client |
| `ResearchJobs` | processes, job tasks, heartbeats, cancel requests, leases, checkpoints, snapshots and result cache; implements `RunLifecycle` (`INSTANCE ... WITH`, property `Lifecycle`) |
| `ResearchJobsProofs` | theorems about `ResearchJobs` |
| `CircuitBreaker`, `CircuitBreakerProofs` | the breaker under `SearchExecutor`: retries, timeouts, late completions; its theorems |
| `RedisStore` | one Redis key: set, set if absent, compare-and-delete, compare-and-extend, increment, expiry |
| `IdempotentRequests`, `IdempotentRequestsProofs` | submissions with an `Idempotency-Key` behind the rate limiter; instantiates `RedisStore` twice, for locks and records and for the counter; its theorems |
| `AgentWorkflow`, `AgentWorkflowProofs` | one run inside LangGraph: both graphs, all agents, the quality gate, the step trace, crash and resume; its theorems |
| `KnowledgeDocuments`, `KnowledgeDocumentsProofs` | uploads and deletions over a row, a stored object and vectors; its theorems |
| `DocumentIndexing`, `DocumentIndexingProofs` | inside one upload: chunks, embedding batches, the Milvus collection's first use; its theorems |
| `AuthSessions`, `AuthSessionsProofs` | accounts, login sessions and the client's cookie; its theorems |
| `MC...` | the instance of each module for TLC: symmetry, and constants that are functions or records |

The modules follow the cuts the code has. A run's workflow is one await of its
job (`working` in `ResearchJobs`), what happens inside is `AgentWorkflow`; an
execution is one await of an idempotent request (`executing`), what happens inside
is `ResearchJobs`; an upsert is one call of an upload, what precedes it is
`DocumentIndexing`. Everything the outer module lets the inner one do (return,
raise, never return, be cancelled, die) is an outcome it has.

### How `ResearchJobs` corresponds to the code

A *task* is the asyncio task of one process working on one run: a job of
`ResearchJobManager._execute_owned`, or a synchronous request in
`ResearchExecutionService.execute` (`owned = FALSE`). Its `pc` names the await it
is about to perform; one action per await:

| `pc` | await | action |
|---|---|---|
| `accept` | snapshot of `queue()`, then `_schedule` | `Accept` |
| `claim` | `claim_lease` | `Claim`, `ClaimRefused` |
| `claimed`, `open` | `worker.claimed`, opening checkpoint | `AuditClaim`, `Open` |
| `start`, `announce`, `lookup` | `mark_running`, snapshot, result cache | `Start`, `Announce`, `CacheHit`, `Launch` |
| `working` | `workflow.ainvoke` | `AgentStep`, `WorkflowReturns`, `DirectAnswer` |
| `complete`, `completed` | `mark_completed`; snapshot and result cache | `Complete`, `PublishCompleted` |
| `fail`, `failed` | `mark_failed`; snapshot | `Fail`, `PublishFailed` |
| `seal`, `log` | terminal checkpoint, `worker.completed` | `Seal`, `AuditEnd` |
| `abort`, `release` | `except`: `worker.interrupted`; `finally`: `release_lease` | `AuditEnd`, `Release` |

An exception at an await goes where `RaisedTo` says, a `CancelledError` where
`CancelledTo` says: together they are the code's nested try blocks. A pending
cancellation (`cancel`) is set by a cancel request, by `close()` or by the
heartbeat, and is raised at the await the task is in (`Interrupt`). PostgreSQL
operations are single short transactions and therefore single steps. Each row of
`research_worker_leases` is `lease[r]`; `left` counts the ticks until
`expires_at`, and tokens are numbers in the order they are issued.

`Fault` selects what the environment may do: crashes, graceful shutdowns, cancel
requests, workflow errors, failed transactions, lost Redis writes, and heartbeats
later than the lease. `heartbeat_seconds < lease_ttl_seconds` is enforced by the
constructor, so without `"late"` a lease that is being tended does not expire.

Abstractions: a query, its tenant and its model are one; what a run asked for is
its document scope only; a report is the scope it was retrieved from, and a
direct answer is a final state without a report. The LangGraph checkpointer is
external: a thread, once it has saved anything, remembers the scope of the run,
and resuming a thread that never saved anything raises. A failed transaction is
one that was rolled back; a commit whose acknowledgement is lost is not modelled.

### How `CircuitBreaker` corresponds to the code

One `Caller` is one permit of the executor's semaphore: a search task begins
(`Admit` or `Reject` from `idle`), tries again after a backoff, and ends. The
breaker's lock is never held across another await and acquiring it therefore
never suspends, so `_before_call` is one step with the start of the call, and
`_on_success` or `_on_failure` one step with its end. Between them anything may
happen: other calls end, the circuit opens, the reset timeout elapses, the
task's own `asyncio.timeout` fires (`Cancel`, which the breaker does not see:
`except Exception` does not catch `CancelledError`). `wait` counts down to the
next trial, `left` to the task's timeout; both are advanced by `Tick`, which
waits for a timeout that is due. `failures` stops at `Threshold`, as the code
compares it with nothing larger. The search itself is external: it returns,
raises a retryable error or another one. The sleep of a backoff may end at any
time (full jitter).

In the application as it is wired, the search executor's client is
`AcademicAwareSearchClient`, which turns every `Exception` of its two clients into an
empty result (`composite.py:51-76`): the executor's own breaker sees no failure, and
the one that can open is the academic breaker (`graph.py:1006`), called under the same
`asyncio.timeout` and the same semaphore. What is shown holds of every breaker used
this way.

### How `IdempotentRequests` corresponds to the code

A *request* is one HTTP call to `POST /research-runs` or `/research-runs/jobs`;
`pc` names its next await:

| `pc` | await | action |
|---|---|---|
| `limit` | `_enforce_rate_limit`: the increment script | `Limit` |
| `documents` | `_resolve_document_ids` | `Resolve`, `AcceptJob` |
| `lookup` | the completed record | `Lookup` |
| `acquire` | `SET NX EX` of the lock | `Acquire` |
| `recheck` | the record again, under the lock | `Recheck` |
| `executing` | the wrapped execution, with the renewal task beside it | `Return`, `Raise`, `Renew`, `Interrupt` |
| `store` | the completed record | `Store` |
| `release` | `finally`: compare-and-delete | `Release` |

A Redis command that raises may have been applied or not (`Attempted`), so a lock
may be held by somebody who never learned of it. The renewal task renews or finds
the lock lost, and then cancels the execution, which leaves through `finally`.
Only the faults `"slow"` and `"redis"` let a lock run out under its owner: by default
the renewal interval is a third of the lifetime, and without either fault `Tick` waits
for a renewal that is due. `overrun` remembers that it happened, because mutual exclusion is promised
by a lock only while it lives: `OwnerHoldsLock`, `OneExecutionPerKey` and
`RecordIsFinal` all end with an overrun of the key, and after it the code promises
only that the execution which lost its lock is stopped. A renewal that Redis answers
(`Renew`) and one that it does not (`RenewUnanswered`: the loop only tries again an
interval later) are two actions, because nothing obliges Redis to answer: a process
that stays cut off goes on executing, and `LostLockStopsExecution` is stated relative
to an answer. A fingerprint is the payload; a response is a run,
the payload it answers and whether its audit is in it. Refusals are not told apart.
A record that cannot be read back, which `cache/idempotency.py:110-114` deletes and
takes for absent, is not modelled: every record was written by this code.

### How `AgentWorkflow` corresponds to the code

One action per node of the two graphs `build_research_graph_for_client` can build
(`"eight"`, and `"short"` when no Local Scout is configured); `st` holds the
channels of `ResearchState`. LangGraph is external and modelled by what the code
relies on: `next` is the current superstep, its nodes read what the previous one
left, return in any order (`writes`), and the last one merges the updates and
follows the edges (`EndSuperstep`). Checkpoints are saved asynchronously, so a
crash finds the running superstep's start (with any of its returned updates) or
the one before (`saved`); `Resume` goes on there with a new step recorder.

A search returns *results*, and two results may be of one source (`Id` is the
`source_id`): the page without content in one answer and with it in another, the
chunk with another score. The scouts merge by id and the last result wins (`Merge`),
whatever it says, and the judge then drops the web results without content
(`Normalized`). A page that was evidence in one round therefore leaves it when a later
round finds it blank; `EvidenceIsEveryPool` and `NothingIsForgotten` are worded for
that. Which source is the best one is decided by the score before it is rounded to
four decimals, in exact arithmetic.

What a model says is an input: any route and risk flag, any gap list and follow-up
list of `GapSets`, any analysis, any report of `Report` (the sources it cites,
invented ones among them, and whether it leaves a claim uncited); what a search
returns is any subset of its sources. The agents' own rules are modelled in full:
fallbacks after an unusable answer, removal of attempted queries, the budget of
rounds, the join of both scouts' pools and of the MCP source, the merge of results
for one page, the weighted score, the citation audit and the repair loop of the
Writer.

### How `KnowledgeDocuments` and `DocumentIndexing` correspond to the code

In `KnowledgeDocuments` a *task* is one upload or delete request and `pc` its next
call; a document's status in PostgreSQL (`row`), its source object (`objects`) and
its vectors (`vectors`) are three stores without a common transaction. Every call
may raise before or after its effect. A vector id is the digest of filename and
content, so a file uploaded again has the same one. Three history variables say
which weaker promises still hold where the code cannot keep the full one:
`reopened` (a `mark_failed` took a row out of `deleting`), `outrun`
(vectors were written for a row that was no longer being indexed) and `lost` (a
call failed or a process died, and left something behind). What a property says of
documents without these marks it does not say of the others; what happens to those is
the run `documents_scope` and the list of known disagreements. `mark_failed` itself may fail and is then swallowed; a row that
was in a transient status stays there.

`DocumentIndexing` opens the call that `KnowledgeDocuments` treats as one: the
chunk arithmetic of `chunk_document` over words, the batches given to the embedding
provider, and the double-checked `initialize` of the Milvus collection, which the
jobs of one process share through `initLock` and other processes race for.

### How `AuthSessions` corresponds to the code

A request reads in one step and commits in a later one, as handlers do in a READ
COMMITTED transaction; authenticated handlers resolve the session first, in a
transaction of its own. A commit may fail with or without its effect
(`MaxFaults`), and a response may be lost, so that the client's cookie lags behind
the server. A password is the text that reaches the hash: `Strip` is what the
schemas of registration and login do to it and the schema of a change does not.
`Fold` is the normalisation of addresses. `seen`, `dead` and `loggedOut` are
history: the passwords stored during a login, whether a token was dead when the
request was sent, and the logouts that were answered.

## Runs

| Run | Instance | Shows |
|---|---|---|
| `jobs_faults` | 2 processes, 1 scoped run, all seven faults | the refinement of `RunLifecycle`, lease fencing, truthful snapshots and terminal checkpoints, reports |
| `jobs_exclusion` | 2 processes, 1 run; crash, shutdown, cancel, work, redis | one worker per job; after a cancellation every worker stops, in whichever process, even if the workflow never returns; every accepted run settles if workflows return and no process goes down |
| `breaker_calls` | 3 callers, threshold 2 | at most one call while half-open; count, trial flag and state agree |
| `requests_faults` | 2 requests, 1 key, 2 payloads, all faults | one execution per key, final records, own payloads, the allowance; orphan locks expire, lost locks stop their execution once Redis answers, a rate window ends |
| `workflow_runs` | both graphs; 3 web results of 2 sources on 1 page, 2 results of 1 private chunk, 1 MCP result; 1 round, 2 attempts, 1 crash | evidence is the last result of every source, rounds are new, a completed report is supported, a refused one comes after the last attempt, nothing is forgotten, the work is bounded |
| `documents_faults` | 3 requests, 2 document ids, 1 content under 2 names, all faults | what ties row, object and vectors together |
| `documents_indexing` | 3 jobs, up to 8 words, chunks of 3 overlapping by 1, batches of 2 | every word is indexed, no partial writes, the overlap, one creation of the collection |
| `sessions_faults` | 2 requests, 5 sent, 1 failed commit, 1 clock step | one account per address, dead tokens refused, logins decided by the password, no lost update |

Four runs end in a violation, each of one sentence of the repository's
documentation, comments or messages (quoted in `PROJECT.json`):

| Run | What the code does |
|---|---|
| `jobs_shutdown` | after a graceful shutdown the opening checkpoint of the next claim collides with the first one |
| `jobs_sync_recovery` | a starting process executes a live process's synchronous run a second time |
| `breaker_trial` | a trial that times out leaves the circuit half-open and rejecting for ever |
| `documents_scope` | a failed upload takes its document out of `deleting`; a second deletion, a new upload of the same file, and the first deletion removes the vectors of a ready document |

The sizes of the larger runs, in distinct states: `jobs_faults` 2.2 million,
`documents_faults` 1.7 million, `workflow_runs` 1.0 million, `requests_faults` and
`jobs_exclusion` 260 thousand each, with liveness. Each of them finishes in less than
three minutes with two workers.

### Bounds

- *Runs, keys, documents.* Leases, tasks, snapshots, locks and rows of different
  runs or keys share nothing but the event loop, so one run and one key are enough;
  `documents_faults` needs two ids because the same file uploaded again gets a new
  one, and two names because the duplicate check compares contents and the vector id
  both.
- *Actors.* Two processes give every race between an owner and a rival;
  `MaxRestarts = 1` gives a dead owner, a live rival and a restarted process at
  once. Three document requests are an upload, its deletion and a second upload of
  the same file. Three callers are a trial, a late call and a rejected one.
- *Clocks.* `TTL` is 1 tick where a lease need only expire and 2 where heartbeats
  must have room to be in time; `LockTTL = 3`, `Window = 2` and `RecordTTL = 1`
  let each of them expire during the others: a lock outlives a window, so that the next
  window's requests find it, a window outlives a record, and two ticks of a window
  leave room for an increment in the middle that must not prolong it. `RunId` has as
  many ids as record and replies can name at once, and one more. `Limit` and `Reset`
  keep the order of the code's 15 s and 30 s.
- *Data.* The web results of `workflow_runs` are one page found with content, without
  content and as a paper, so that a blank result can come before and after a full one;
  the private results are one chunk with two scores; one citation is invented; one topic was planned and
  one is for the Local Scout only, and the coverage gap is a third. One supplementary
  round (`MaxIterations = 1`; the code's default is 2) reaches both sides of the
  budget's comparison. Eight words are three whole chunks and a rest, over two
  batches. Five requests of `sessions_faults` are a registration, a change, a logout
  and two more.

`CHECK_DEADLOCK FALSE` stands where the system may really stop: all runs settled
(`jobs_`), the graph ended (`workflow_runs`), every id used or left behind by a
failure (`documents_faults`), every job done (`documents_indexing`), every request
sent and the clock at its bound (`sessions_faults`).

What the properties need is worth stating. With a failed heartbeat transaction
(`"db"`), which ends the heartbeat task silently, or a heartbeat later than the
lease (`"late"`), a run can have two workers. `OneTrial` needs a task timeout
shorter than the reset timeout; the breaker of the Anthropic client, whose timeout is
120 s, has no such guarantee. `OneExecutionPerKey` ends with the lock's life,
`ReadyIsSearchable` with the reopening of a deletion,
`OrphansAreOutrun` with an upload outrun by its deletion, and `TransientHasOwner` and
`ObjectHasOwner` with a failure that left something behind.

### Fairness

Fairness is weak, and only of what the event loop does by itself.

- `ResearchJobs`: a task's next await returns, a served cancel request goes on, a
  heartbeat fires, time passes, a closing process exits, and a process that is down
  is started again (within `MaxRestarts`). asyncio runs ready callbacks in order and
  the database and Redis clients have timeouts. Nothing obliges a workflow to return
  in `LiveSpec`; `EveryRunSettles` has it as a hypothesis, because every agent call
  in the workflow has a timeout and a bounded number of retries, and `WorkIsBounded`
  of `AgentWorkflow` shows that its loops end. Its other hypothesis is that no process
  goes down: a run whose lease outlives its dead owner may be missed by `start()`.
- `IdempotentRequests`: a request's next await returns and time passes. An execution
  need not return, and a renewal need not reach Redis; `LostLockStopsExecution` has
  the fairness of the answered renewal as its hypothesis, request by request.
- `AgentWorkflow`: none. In particular a run left by a dead process need not be
  resumed: `start()` lists the recoverable runs once, and may miss it.

No fault is assumed to happen, and none is assumed to stop.

### Known disagreements

Where the code and a sentence of its documentation part, the models contain what
the code does. Four cases are runs, above. The following were seen in the same
way, by checking the sentence as a property of the model; no run is kept for them,
and the properties that are checked are worded so that they hold beside them.

| Code | Sentence | What the model does |
|---|---|---|
| `services/research/jobs.py:94` | `docs/architecture.md:109` | a process restarted within the lease's lifetime does not list the run, and nobody claims it later |
| `jobs.py:307` | `docs/architecture.md:91` | a heartbeat between completion and sealing finds the run no longer active and interrupts its own owner: no terminal checkpoint, no fault needed |
| `jobs.py:152` | `docs/architecture.md:98` | a worker publishes `running` over the snapshot `cancelled` |
| `jobs.py:97` | `docs/status.md:50` | a run recovered from its row has no `document_ids` and searches the whole corpus |
| `core/circuit_breaker.py:105` | `circuit_breaker.py:26` | a call admitted before the circuit opened succeeds and closes it before its reset timeout |
| `services/knowledge/management.py:185` | `docs/architecture.md:249` | a document deleted while it is being indexed leaves its vectors behind, no fault needed |
| `db/repositories/documents.py:237` | `services/knowledge/management.py:252` | a deletion whose process died cannot be taken up again: the row stays in `deleting`, which `mark_deleting` does not accept |
| `services/research/idempotency.py:420` | `docs/reliability.md:47` | a replay has neither the citation audit nor the human-review flag of the original |
| `workflow/graph.py:211` | `docs/reliability.md:61` | a direct answer in a high-risk domain has no review decision |
| `services/research/execution.py:609` | `docs/workflow.md:72` | agent-step rows after a resume collide with the earlier ones and are lost |
| `workflow/graph.py:560` | `services/search/results.py:45` | one page found as web page in one round and as paper in the next counts twice |
| `workflow/graph.py:764` | `README.md:123` | two supplementary rounds by default where the text says one |
| `schemas/auth.py:40` | `README.md:188` | a changed password keeps its white space, login strips it: the account's new password is refused |

`mark_indexing` also accepts a failed row (`db/repositories/documents.py:178`): a
deletion that removed the object and then failed lets the upload that was still
pending index the document and mark it ready, without a source object.

Two concurrent password changes that verified the same password both succeed; the
later commit wins.

## Proofs

`ResearchJobsProofs` proves, for every set of processes and runs, every `TTL`
and `MaxRestarts`, and every set of faults (from `JobsAssumption` alone):

| Theorem | Statement |
|---|---|
| `Invariance` | `Spec => []JobsInv`, the inductive invariant itself |
| `TypeCorrect` | `Spec => []TypeOK` |
| `ReportsAreFinal` | `Spec => []ReportOfTheWinner` |
| `SnapshotsAreTruthful` | `Spec => []SnapshotNeverLies` |
| `SealsAreTruthful` | `Spec => []SealedMeansCompleted` |
| `LeasesAreFenced` | `Spec => LeaseIsFenced` |
| `Refinement` | `Spec => Lifecycle`, the refinement of `RunLifecycle` |
| `ExclusiveOwnership` | `Spec => []OneWorkerPerRun`, assuming that heartbeats are neither late nor fail |

They rest on one inductive invariant, `JobsInv`:

- `TypeOK` needs `Attempted` (a task past its claim has an attempt of at least
  one), or an opening checkpoint could have a negative sequence;
- `TokensUnique` (no two tasks carry the same token) makes a lease name one task;
- `OutcomeKnown` says what a task or cancel request past its transaction knows of
  the row and the report; it needs that terminal rows do not change
  (`TerminalStays`), which follows from the refinement step;
- `WorkerHoldsLease` (a worker that may still act holds an unexpired lease and has
  a heartbeat) is what exclusive ownership follows from; a `Tick` preserves it
  only because a tended lease does not run out.

`Invariance` combines one lemma per conjunct, each with one step per action.

`CircuitBreakerProofs` proves, for any number of callers and any thresholds and
timeouts (from `BreakerAssumption`), `OneTrialAtATime` (`Spec => []OneTrial`) and
`BreakerCountsAgree` (`Spec => [](TypeOK /\ CountsAgree)`). Their inductive
invariant `BreakerInv` adds `CallsEndBeforeTrial`: while the circuit is open every
call in flight has less time left than the circuit has to wait, so none of them
is left when the next trial begins. `AttemptsLeft` bounds the retries.

`IdempotentRequestsProofs` proves, for any number of requests and keys, any
lifetimes, any allowance and every set of faults (from `RequestsAssumption`, and
`FreshRunAssumption`: whatever runs the records and replies refer to, one is left):

| Theorem | Statement |
|---|---|
| `RequestsInvariant` | `Spec => []RequestsInv`, the inductive invariant |
| `RequestsTyped` | `Spec => []TypeOK` |
| `OwnersHoldTheirLock` | `Spec => []OwnerHoldsLock` |
| `ExclusiveExecution` | `Spec => []OneExecutionPerKey` |
| `RecordsAreFinal` | `Spec => RecordIsFinal` |
| `OwnAnswers` | `Spec => []AnswersItsOwnPayload` |
| `AllowanceIsKept` | `Spec => []AllowanceHolds` |

`RequestsInv` adds to the types and these properties that only a request with a key
goes near the record and the lock (`KeyedAtTheStore`), that a request about to
record has a response and a payload (`StoresAReply`), and that the counter counts
every request it let through (`CounterCounts`). Its core is `OwnershipPreserved`: a
request becomes an owner only by an acquire that found no lock (`BecomingAnOwner`),
no other command takes a live lock away (`LockStaysHeld`: set-if-absent and both
scripts leave an entry with another value alone), and only the owner records
(`OnlyTheOwnerRecords`).

The theorems about the lock and the record carry the exemption of their properties: a
key whose lock has run out under its owner is outside of them.

`KnowledgeDocumentsProofs` proves, for any finite sets of requests and documents,
any names and contents and every set of faults (from `DocumentsAssumption` and
`NoneIsNoRow`):

| Theorem | Statement |
|---|---|
| `Invariance` | `Spec => []DocumentsInv`, the inductive invariant |
| `TypeCorrect` | `Spec => []TypeOK` |
| `Searchable` | `Spec => []ReadyIsSearchable` |
| `NoneLeftBehind` | `Spec => []TransientHasOwner` |
| `NoObjectLeftBehind` | `Spec => []ObjectHasOwner` |
| `NoOtherOrphans` | `Spec => []OrphansAreOutrun` |

`DocumentsInv` says what a request may rely on between two of its calls: nobody
knows a new id before its row is committed (`NewIdIsPrivate`), one upload at most
works on a document (`OneUploader`), `mark_deleting` reserves the row for one deletion
until somebody reopens it (`ReservedIsDeleting`, `OneDeleter`), and while an upload is
still indexing a document that is being deleted there is one cleanup of it
(`OneCleanupPerUpload`).
`UploadIsComplete` and `CleanedUp` are the two directions: what an upload has stored
is still there unless a deletion has begun, what a deletion has removed is gone
unless an upload outran it. `OrphansAreOutrun` needs `CleanedUp`, `ReadyIsSearchable`
needs `UploadIsComplete`, and both need the single reservation. `EnoughIds` counts: as
many ids are free as uploads are about to draw one, which is why the sets are finite.

`DocumentIndexingProofs` proves, for any number of jobs, any document length, chunk
size, overlap and batch size (from `IndexingAssumption`):

| Theorem | Statement |
|---|---|
| `Invariance` | `Spec => []IndexingInv`, the inductive invariant |
| `CollectionIsReadyOnce` | `Spec => []CollectionReadyOnce` |
| `WritesAreWhole` | `Spec => []NoPartialWrites` |
| `WordsAreIndexed` | `Spec => []EveryWordIndexed` |
| `ChunksDoOverlap` | `Spec => []ChunksOverlap` |

`EmbeddedInOrder` (the n-th vector is the n-th chunk's, and a job goes on to its
upsert only with a vector for each) makes the rows of an upsert whole and their
vectors right; `InitializerHoldsLock` and `LoadedWhenReady` carry the double-checked
initialisation. That the positions of the chunks are `0 .. n - 1` is a lemma without
induction (`InitialSegment`): a finite set of numbers that contains with each number
all smaller ones is an initial segment, by counting.

`AuthSessionsProofs` proves, for any requests, addresses, passwords and lifetimes
and any number of failed commits (from `ConstantsAssumption`):

| Theorem | Statement |
|---|---|
| `Invariance` | `Spec => []SessionsInv`, the inductive invariant |
| `OneAccount` | `Spec => []OneAccountPerAddress` |
| `LogoutIsFinal` | `Spec => []DeadTokensAreRefused` |
| `LoginIsFair` | `Spec => []LoginIsDecidedByThePassword` |
| `UpdatesAreKept` | `Spec => UpdatesAreNotLost` |

`SessionsInv` says which rows exist (`StoredFolded`, `RegisteredWhole`; by `TypeOK`
users and sessions are numbered without gaps, so that a new row never replaces one),
what a request knows at each step (`RequestShape`), and that a dead token stays dead
(`LoggedOutIsRevoked`, `DeadStaysDead`). A login is decided between a read and a
commit, so its property needs `UpToDate` (what is stored now has been seen since the
login was sent) and `VerifiedIsSeen` (the password it verified is among what was
seen).

`AgentWorkflowProofs` proves, for any plan, gaps, finite results, scores, reports and
bounds (from `BoundsAssumption`; `IdAssumption`: what the id of a source stands for;
and `NoneAssumption`: the value of an empty channel is no report and no status):

| Theorem | Statement |
|---|---|
| `Invariance` | `Spec => []WorkflowInv`, the inductive invariant |
| `TypeCorrect` | `Spec => []TypeOK` |
| `EvidenceIsJoined` | `Spec => []EvidenceIsEveryPool` |
| `RoundsStayNew` | `Spec => []RoundsAreNew` |
| `OnlySupportedReports` | `Spec => []CompletedReportIsSupported` |
| `RefusedAtTheEnd` | `Spec => []RefusedOnlyWhenExhausted` |
| `WorkStaysBounded` | `Spec => []WorkIsBounded` |
| `NothingForgotten` | `Spec => NothingIsForgotten` |

`EvidenceIsJoined` says that the evidence is one result of every source, its last one,
without the blank ones; that no two results of it are of one source needs
`IdAssumption`. `RefusedAtTheEnd` counts: a refused report of the eight-agent graph is
the `MaxWriterAttempts`-th draft, and one of the short graph comes after
`MaxReflectionAttempts` reports. `NothingForgotten` lets a source leave the evidence
only for a later blank result of it.

None of these properties is inductive: they say what the channels hold at the end of
a loop, and nothing of what each node finds on the way there. `WorkflowInv` says
that. `Sound` is about the values wherever the run is, `Ready` about what one node
may rely on (no round searched before the planner, a new round before the scouts,
the joined evidence before the Writer), `Position` that the nodes of a superstep are
a legal one and each is ready. All three are about a graph, values and nodes rather
than about the variables, because a crash may go back to the superstep before: the
invariant states them of `saved` too. `ScoutFits` says what the update of a scout
that returned first may hold; it is about the values that the scout read, which is
why it is still true when the other scout returns, or when a resumed process runs
the other scout again. `NewRound` is why rounds are new: before the scouts, what
they will search was attempted, but occurs in no outcome.

One lemma per node shows `Advance`: the superstep ends with values that are sound,
nodes that are ready or a run that is finished, and with pools, outcomes and
attempted queries that only grew (`Grows`). For the scouts it is `Advance` or
`Waits`. `AdvanceKeepsInv` and `WaitingKeepsInv` then preserve the invariant once
for all nodes; repair, exception, crash and resume have a lemma each. `Budget` is what
makes the work bounded inductive: the rows written so far, and those that the rounds
and attempts left can still cause, are at most the bound.

Model-checked only: the liveness properties (`CancelStopsWork`, `EveryRunSettles`,
`OrphanLockExpires`, `LostLockStopsExecution`, `WindowEnds`), as fairness is out of the
prover's reach. Every other property that a passing run checks is a theorem.

## Plan

Done: durable jobs with the run lifecycle, the breaker, idempotent requests with the
rate limiter, the workflow, documents and their indexing, sessions. Left, in this
order:

1. The event stream of one client against the snapshots of `ResearchJobs`.
2. The result cache against changes of the documents it was retrieved from.
3. The composition of `ResearchJobs` with `AgentWorkflow` in one state space, which
   the two modules' sizes put out of TLC's reach today.

## Not modelled

- The polling event stream (`api/research.py`): it reads the snapshot whose truth
  `SnapshotNeverLies` states, and ends with a terminal one; its own state is the last
  value sent.
- The composite search client and the providers' HTTP clients, the MCP server and
  client, LLM and embedding HTTP calls: translation of remote protocols without state
  of their own. Their results and failures are inputs of the models, and their
  breakers are instances of `CircuitBreaker`.
- Reading runs and reports back, report rendering and exports, readiness, request
  validation and dependency wiring: no state changes.
- The short graph's private scout, and graphs without a quality pipeline: no caller
  builds them.
- The evaluation harness (offline, sequential), migrations, infrastructure, the
  frontend and the tests.

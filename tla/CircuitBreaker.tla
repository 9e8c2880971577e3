---------------------------- MODULE CircuitBreaker ----------------------------
(***************************************************************************)
(* The circuit breaker (core/circuit_breaker.py) as SearchExecutor         *)
(* (services/search/executor.py) uses it: every search task is bounded by  *)
(* a timeout, retries transient errors with backoff (core/retry.py), and   *)
(* takes each attempt through the breaker.                                 *)
(*                                                                         *)
(* The breaker's lock is never held across another await, so acquiring it  *)
(* does not suspend: the await of the guarded call, and the backoff's      *)
(* sleep, are the only points where tasks interleave.                      *)
(***************************************************************************)
EXTENDS Naturals

CONSTANTS
    Caller,        \* search tasks at once: the permits of max_concurrency
    Threshold,     \* failure_threshold
    Reset,         \* reset_timeout_seconds, in ticks
    Limit,         \* task_timeout_seconds, in ticks
    MaxAttempts    \* max_attempts of call_with_backoff

ASSUME BreakerAssumption == /\ Threshold \in Nat \ {0}
                            /\ Reset \in Nat \ {0}
                            /\ Limit \in Nat \ {0}
                            /\ MaxAttempts \in Nat \ {0}

VARIABLES
    state,     \* closed, open or half_open
    failures,  \* _consecutive_failures, up to Threshold: more is never told apart
    wait,      \* ticks until opened_at + reset_timeout_seconds
    trial,     \* _half_open_trial_in_flight
    call       \* what each caller's task is doing

breaker == <<state, failures, wait, trial>>
vars    == <<state, failures, wait, trial, call>>

Call == [pc      : {"idle", "calling", "backoff"},
         attempt : 0 .. MaxAttempts,
         left    : 0 .. Limit]       \* ticks until asyncio.timeout fires

Idle == [pc |-> "idle", attempt |-> 0, left |-> 0]

Busy(c)    == call[c].pc # "idle"
Calling(c) == call[c].pc = "calling"

Init == /\ state = "closed" /\ failures = 0 /\ wait = 0 /\ trial = FALSE
        /\ call = [c \in Caller |-> Idle]

-----------------------------------------------------------------------------
(* _before_call.                                                           *)

\* Mutant: half-open lets every call through.
AdmitsWhileOnTrial == state = "open" => wait = 0

Admits == /\ state = "open" => wait = 0
          /\ state = "half_open" => ~trial

\* A task begins, or its backoff is over.  The first one to find the circuit
\* open after its reset timeout is the trial.
Admit(c) ==
    /\ ~Calling(c)
    /\ Admits
    /\ state' = IF state = "open" THEN "half_open" ELSE state
    /\ trial' = (state # "closed")
    /\ call' = [call EXCEPT ![c] =
                  [pc |-> "calling", attempt |-> @.attempt + 1,
                   left |-> IF @.pc = "idle" THEN Limit ELSE @.left]]
    /\ UNCHANGED <<failures, wait>>

\* CircuitBreakerOpenError is not retryable: it ends the task.
Reject(c) ==
    /\ ~Calling(c)
    /\ ~Admits
    /\ call' = [call EXCEPT ![c] = Idle]
    /\ UNCHANGED breaker

(* _on_success and _on_failure.                                            *)

Succeed(c) ==
    /\ Calling(c)
    /\ state' = "closed" /\ failures' = 0 /\ wait' = 0 /\ trial' = FALSE
    /\ call' = [call EXCEPT ![c] = Idle]

\* Mutant: a failure one short of the threshold opens the circuit.
OpensEarly == state = "half_open" \/ failures + 2 >= Threshold

Opens == state = "half_open" \/ failures + 1 >= Threshold

\* call_with_backoff raises what its last attempt raised.
AttemptLeft(c) == call[c].attempt < MaxAttempts

\* A retryable error waits out a backoff while attempts are left.
Fail(c) ==
    /\ Calling(c)
    /\ trial' = FALSE
    /\ failures' = IF state # "half_open" /\ failures < Threshold
                   THEN failures + 1 ELSE failures
    /\ IF Opens THEN state' = "open" /\ wait' = Reset
                ELSE UNCHANGED <<state, wait>>
    /\ \/ call' = [call EXCEPT ![c] = Idle]
       \/ /\ AttemptLeft(c)
          /\ call' = [call EXCEPT ![c].pc = "backoff"]

\* The task's timeout, or the cancellation of the whole run.  CancelledError is
\* not an Exception: the breaker is not told.
Cancel(c) ==
    /\ Busy(c)
    /\ call' = [call EXCEPT ![c] = Idle]
    /\ UNCHANGED breaker

\* Mutant: the timeout does not cover the sleeps between attempts.
NoneDueExceptSleepers == \A c \in Caller : Calling(c) => call[c].left > 0

NoneDue == \A c \in Caller : Busy(c) => call[c].left > 0

\* Time passes; a timeout that is due fires first.
Tick ==
    /\ wait > 0 \/ \E c \in Caller : Busy(c)
    /\ NoneDue
    /\ wait' = IF wait = 0 THEN 0 ELSE wait - 1
    /\ call' = [c \in Caller |->
                  IF Busy(c) THEN [call[c] EXCEPT !.left = @ - 1] ELSE call[c]]
    /\ UNCHANGED <<state, failures, trial>>

Next == \/ \E c \in Caller : Admit(c) \/ Reject(c) \/ Succeed(c) \/ Fail(c) \/ Cancel(c)
        \/ Tick

Spec == Init /\ [][Next]_vars

-----------------------------------------------------------------------------
(* Properties.                                                             *)

TypeOK == /\ state \in {"closed", "open", "half_open"}
          /\ failures \in 0 .. Threshold
          /\ wait \in 0 .. Reset
          /\ trial \in BOOLEAN
          /\ call \in [Caller -> Call]

\* The circuit is closed exactly while fewer than Threshold failures were
\* counted, and the trial flag is set exactly while it is half-open, whatever
\* calls of earlier eras still complete.
CountsAgree == /\ state = "closed" <=> failures < Threshold
               /\ trial <=> state = "half_open"

\* A task that sleeps has an attempt left.
AttemptsLeft ==
    \A c \in Caller : /\ call[c].pc = "idle" => call[c].attempt = 0
                      /\ call[c].pc = "backoff" => call[c].attempt < MaxAttempts

\* A call outlives the era it was admitted in only until its own timeout: while
\* the circuit is open every call still in flight ends before the next trial.
CallsEndBeforeTrial ==
    Limit < Reset /\ state = "open" =>
        \A c \in Caller : Calling(c) => call[c].left < wait

\* At most one call reaches the dependency while the circuit is half-open,
\* provided that a task's timeout is shorter than the reset timeout.
OneTrial ==
    Limit < Reset /\ state = "half_open" =>
        \A c, d \in Caller : Calling(c) /\ Calling(d) => c = d

\* All of them: what is inductive.
BreakerInv ==
    TypeOK /\ CountsAgree /\ AttemptsLeft /\ CallsEndBeforeTrial /\ OneTrial

\* A half-open circuit rejects calls because a trial is in flight
\* (circuit_breaker.py:97), so there is one.
RejectionIsTrue == state = "half_open" => \E c \in Caller : Calling(c)
=============================================================================

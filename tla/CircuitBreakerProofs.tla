------------------------- MODULE CircuitBreakerProofs -------------------------
(***************************************************************************)
(* The breaker's invariant, for any number of callers, any threshold and   *)
(* any timeouts.                                                           *)
(***************************************************************************)
EXTENDS CircuitBreaker, TLAPS

\* A fresh breaker is closed and nobody is calling.
LEMMA InitHolds == Init => BreakerInv
  <1> SUFFICES ASSUME Init PROVE BreakerInv
    OBVIOUS
  <1> USE BreakerAssumption DEF Init, Idle, Calling
  <1>1. TypeOK
    <2>1. Idle \in Call
      BY DEF Call
    <2>2. call \in [Caller -> Call]
      BY <2>1
    <2>3. failures \in 0 .. Threshold /\ wait \in 0 .. Reset
      OBVIOUS
    <2> QED
      BY <2>2, <2>3 DEF TypeOK
  <1>2. CountsAgree /\ AttemptsLeft
    BY DEF CountsAgree, AttemptsLeft
  <1> QED
    BY <1>1, <1>2 DEF BreakerInv, CallsEndBeforeTrial, OneTrial

\* What a task does is its own affair: the facts about one task's record that
\* make the type and the attempts hold of all of them.
LEMMA OneTaskMoves ==
    ASSUME TypeOK, AttemptsLeft, NEW c \in Caller, NEW t \in Call,
           t.pc = "idle" => t.attempt = 0,
           t.pc = "backoff" => t.attempt < MaxAttempts,
           call' = [call EXCEPT ![c] = t]
    PROVE  call' \in [Caller -> Call] /\ AttemptsLeft'
  BY DEF TypeOK, AttemptsLeft

\* A task that ends.
LEMMA TaskEnds ==
    ASSUME TypeOK, AttemptsLeft, NEW c \in Caller,
           call' = [call EXCEPT ![c] = Idle]
    PROVE  call' \in [Caller -> Call] /\ AttemptsLeft'
  <1>1. Idle \in Call
    BY BreakerAssumption DEF Idle, Call
  <1>2. Idle.pc = "idle" /\ Idle.attempt = 0
    BY DEF Idle
  <1> QED
    BY <1>1, <1>2, OneTaskMoves

\* An admitted call: the trial if the circuit was open, and then alone.
LEMMA AdmitHolds ==
    ASSUME BreakerInv, NEW c \in Caller, Admit(c)
    PROVE  BreakerInv'
  <1> USE BreakerAssumption
  <1> DEFINE n == [pc |-> "calling", attempt |-> call[c].attempt + 1,
                   left |-> IF call[c].pc = "idle" THEN Limit ELSE call[c].left]
  <1>0. TypeOK /\ CountsAgree /\ AttemptsLeft /\ CallsEndBeforeTrial /\ OneTrial
    BY DEF BreakerInv
  <1>1. call' = [call EXCEPT ![c] = n]
    BY <1>0 DEF Admit, TypeOK
  <1>2. n \in Call /\ n.pc = "calling"
    <2>1. call[c] \in Call /\ call[c].pc # "calling"
      BY <1>0 DEF TypeOK, Admit, Calling
    <2>2. call[c].attempt \in 0 .. MaxAttempts /\ call[c].left \in 0 .. Limit
      BY <2>1 DEF Call
    <2>3. call[c].attempt < MaxAttempts
      BY <1>0, <2>1 DEF Call, AttemptsLeft
    <2>4. call[c].attempt + 1 \in 0 .. MaxAttempts
      BY <2>2, <2>3
    <2> QED
      BY <2>2, <2>4 DEF Call
  <1>3. call' \in [Caller -> Call] /\ AttemptsLeft'
    <2> HIDE DEF n
    <2> QED
      BY <1>0, <1>1, <1>2, OneTaskMoves
  <1>4. \/ state = "closed" /\ state' = "closed" /\ trial' = FALSE
        \/ state = "open" /\ wait = 0 /\ state' = "half_open" /\ trial' = TRUE
    BY <1>0 DEF Admit, Admits, CountsAgree, TypeOK
  <1>5. failures' = failures /\ wait' = wait
    BY DEF Admit
  <1>6. TypeOK' /\ CountsAgree'
    BY <1>0, <1>3, <1>4, <1>5 DEF TypeOK, CountsAgree
  <1>7. OneTrial'
    <2> SUFFICES ASSUME Limit < Reset, state' = "half_open", NEW d \in Caller,
                        Calling(d)'
                 PROVE  d = c
      BY DEF OneTrial
    <2>1. CallsEndBeforeTrial /\ state = "open" /\ wait = 0
      BY <1>0, <1>4
    <2>2. ~Calling(d)
      <3>1. call[d].left \in Nat
        BY <1>0 DEF TypeOK, Call
      <3> QED
        BY <2>1, <3>1 DEF CallsEndBeforeTrial
    <2> QED
      BY <1>0, <1>1, <2>2 DEF Calling, TypeOK
  <1>8. CallsEndBeforeTrial'
    BY <1>4 DEF CallsEndBeforeTrial
  <1> QED
    BY <1>3, <1>6, <1>7, <1>8 DEF BreakerInv

\* A call that ends well closes the circuit, whatever its state.
LEMMA SucceedHolds ==
    ASSUME BreakerInv, NEW c \in Caller, Succeed(c)
    PROVE  BreakerInv'
  <1> USE BreakerAssumption DEF BreakerInv
  <1>1. call' \in [Caller -> Call] /\ AttemptsLeft'
    BY TaskEnds DEF Succeed
  <1>2. failures' = 0 /\ failures' \in 0 .. Threshold /\ wait' \in 0 .. Reset
    BY DEF Succeed
  <1>3. trial' = FALSE /\ state' = "closed"
    BY DEF Succeed
  <1>4. TypeOK'
    BY <1>1, <1>2, <1>3 DEF TypeOK
  <1>5. CountsAgree'
    BY <1>2, <1>3 DEF CountsAgree
  <1> QED
    BY <1>1, <1>3, <1>4, <1>5 DEF CallsEndBeforeTrial, OneTrial

\* A failure may open the circuit; the calls still in flight are then all
\* younger than the reset timeout is long.
LEMMA FailHolds ==
    ASSUME BreakerInv, NEW c \in Caller, Fail(c)
    PROVE  BreakerInv'
  <1> USE BreakerAssumption
  <1> DEFINE b == [pc |-> "backoff", attempt |-> call[c].attempt,
                   left |-> call[c].left]
  <1>0. TypeOK /\ CountsAgree /\ AttemptsLeft
    BY DEF BreakerInv
  <1>1. call' \in [Caller -> Call] /\ AttemptsLeft'
    <2>1. CASE call' = [call EXCEPT ![c] = Idle]
      BY <1>0, <2>1, TaskEnds
    <2>2. CASE /\ call[c].attempt < MaxAttempts
               /\ call' = [call EXCEPT ![c].pc = "backoff"]
      <3>1. b \in Call /\ b.pc = "backoff" /\ b.attempt < MaxAttempts
        BY <1>0, <2>2 DEF TypeOK, Call
      <3>2. call' = [call EXCEPT ![c] = b]
        <4>1. call[c] \in Call
          BY <1>0 DEF TypeOK
        <4>2. [call[c] EXCEPT !.pc = "backoff"] = b
          BY <4>1 DEF Call
        <4>3. call' = [call EXCEPT ![c] = [call[c] EXCEPT !.pc = "backoff"]]
          BY <2>2
        <4> HIDE DEF b
        <4> QED
          BY <4>2, <4>3
      <3> HIDE DEF b
      <3> QED
        BY <1>0, <3>1, <3>2, OneTaskMoves
    <2> QED
      BY <2>1, <2>2 DEF Fail, AttemptLeft
  <1>2. state' \in {"closed", "open"} /\ trial' = FALSE
    BY <1>0 DEF Fail, Opens, TypeOK
  <1>3. failures' \in 0 .. Threshold /\ wait' \in 0 .. Reset
    BY <1>0 DEF Fail, Opens, TypeOK
  <1>4. state' = "closed" <=> failures' < Threshold
    BY <1>0 DEF Fail, Opens, TypeOK, CountsAgree
  <1>5. state' = "open" => wait' = Reset
    BY <1>0 DEF Fail, Opens, TypeOK, CountsAgree
  <1>6. CallsEndBeforeTrial'
    BY <1>1, <1>5 DEF CallsEndBeforeTrial, Call
  <1>7. OneTrial'
    BY <1>2 DEF OneTrial
  <1> QED
    BY <1>1, <1>2, <1>3, <1>4, <1>6, <1>7 DEF BreakerInv, TypeOK, CountsAgree

\* A task that is rejected or cancelled only leaves.
LEMMA LeaveHolds ==
    ASSUME BreakerInv, NEW c \in Caller, Reject(c) \/ Cancel(c)
    PROVE  BreakerInv'
  <1> USE DEF BreakerInv
  <1>1. call' = [call EXCEPT ![c] = Idle] /\ UNCHANGED <<state, failures, wait, trial>>
    BY DEF Reject, Cancel, breaker
  <1>2. call' \in [Caller -> Call] /\ AttemptsLeft'
    BY <1>1, TaskEnds
  <1>3. \A d \in Caller : Calling(d)' => Calling(d) /\ call'[d] = call[d]
    BY <1>1 DEF Calling, Idle, TypeOK
  <1> QED
    BY <1>1, <1>2, <1>3
    DEF TypeOK, CountsAgree, CallsEndBeforeTrial, OneTrial, Calling

\* Time brings the next trial and the end of the calls in flight equally near.
LEMMA TickHolds ==
    ASSUME BreakerInv, Tick
    PROVE  BreakerInv'
  <1> USE DEF BreakerInv
  <1>1. ASSUME NEW d \in Caller
        PROVE  /\ call'[d] \in Call
               /\ call'[d].pc = call[d].pc /\ call'[d].attempt = call[d].attempt
               /\ Calling(d) => call'[d].left = call[d].left - 1 /\ call[d].left > 0
    <2> DEFINE older == [pc |-> call[d].pc, attempt |-> call[d].attempt,
                         left |-> call[d].left - 1]
    <2>1. call[d] \in Call
      BY DEF TypeOK
    <2>2. CASE Busy(d)
      <3>1. call'[d] = older
        BY <2>1, <2>2 DEF Tick, Call
      <3>2. call[d].left > 0 /\ call[d].left \in 0 .. Limit
        BY <2>1, <2>2 DEF Tick, NoneDue, Call
      <3>3. call[d].left - 1 \in 0 .. Limit
        BY <3>2, BreakerAssumption
      <3>4. older \in Call
        BY <2>1, <3>3 DEF Call
      <3> QED
        BY <3>1, <3>2, <3>4
    <2>3. CASE ~Busy(d)
      <3>1. call'[d] = call[d] /\ ~Calling(d)
        BY <2>3 DEF Tick, Busy, Calling
      <3> QED
        BY <2>1, <3>1
    <2> QED
      BY <2>2, <2>3
  <1>2. wait' = (IF wait = 0 THEN 0 ELSE wait - 1) /\ UNCHANGED <<state, failures, trial>>
    BY DEF Tick
  <1>3. TypeOK'
    <2>1. wait' \in 0 .. Reset
      BY <1>2, BreakerAssumption DEF TypeOK
    <2>2. call' \in [Caller -> Call]
      BY <1>1 DEF Tick
    <2> QED
      BY <1>2, <2>1, <2>2 DEF TypeOK
  <1>4. CountsAgree' /\ AttemptsLeft'
    BY <1>1, <1>2 DEF CountsAgree, AttemptsLeft
  <1>5. CallsEndBeforeTrial'
    <2> SUFFICES ASSUME Limit < Reset, state = "open", NEW d \in Caller, Calling(d)
                 PROVE  call'[d].left < wait'
      BY <1>1, <1>2 DEF CallsEndBeforeTrial, Calling
    <2>1. call[d].left < wait /\ call[d].left \in Nat /\ wait \in Nat
      BY DEF CallsEndBeforeTrial, TypeOK, Call
    <2> QED
      BY <1>1, <1>2, <2>1
  <1>6. OneTrial'
    BY <1>1, <1>2 DEF OneTrial, Calling
  <1> QED
    BY <1>3, <1>4, <1>5, <1>6

\* The invariant holds in every reachable state.
THEOREM Invariance == Spec => []BreakerInv
  <1>1. BreakerInv /\ [Next]_vars => BreakerInv'
    <2> SUFFICES ASSUME BreakerInv, [Next]_vars PROVE BreakerInv'
      OBVIOUS
    <2>1. ASSUME NEW c \in Caller, Admit(c) PROVE BreakerInv'
      BY <2>1, AdmitHolds
    <2>2. ASSUME NEW c \in Caller, Reject(c) \/ Cancel(c) PROVE BreakerInv'
      BY <2>2, LeaveHolds
    <2>3. ASSUME NEW c \in Caller, Succeed(c) PROVE BreakerInv'
      BY <2>3, SucceedHolds
    <2>4. ASSUME NEW c \in Caller, Fail(c) PROVE BreakerInv'
      BY <2>4, FailHolds
    <2>5. CASE Tick
      BY <2>5, TickHolds
    <2>6. CASE UNCHANGED vars
      BY <2>6 DEF vars, BreakerInv, TypeOK, CountsAgree, AttemptsLeft,
                  CallsEndBeforeTrial, OneTrial, Calling
    <2> QED
      BY <2>1, <2>2, <2>3, <2>4, <2>5, <2>6 DEF Next
  <1> QED
    BY <1>1, InitHolds, PTL DEF Spec

\* While the circuit is half-open at most one call reaches the dependency, for
\* any number of callers, if a task's timeout is shorter than the reset timeout
\* (SearchExecutor: 15 s; CircuitBreaker: 30 s by default).
THEOREM OneTrialAtATime == Spec => []OneTrial
  <1>1. BreakerInv => OneTrial
    BY DEF BreakerInv
  <1> QED
    BY <1>1, Invariance, PTL

\* The failure count and the trial flag agree with the state, even when calls
\* admitted in an earlier state complete late.
THEOREM BreakerCountsAgree == Spec => [](TypeOK /\ CountsAgree)
  <1>1. BreakerInv => TypeOK /\ CountsAgree
    BY DEF BreakerInv
  <1> QED
    BY <1>1, Invariance, PTL
=============================================================================

------------------------------ MODULE Breaker ------------------------------
(***************************************************************************)
(* The circuit breaker in front of one Python engine, in one backend       *)
(* process (backend/src/common/resilience/circuit-breaker.ts).             *)
(***************************************************************************)
EXTENDS Naturals

CONSTANTS
  EngineCalls,   \* calls of exec() that may be under way at one time
  Threshold      \* ENGINE_BREAKER_FAILURES

ASSUME BreakerAssumption == Threshold \in Nat \ {0}

VARIABLES
  breaker,   \* the fields of CircuitBreaker
  work,      \* the state each call under way read, and whether it can fail
  up         \* the engine answers

breakerVars == <<breaker, work, up>>

(* `waited`: openMs has gone by since openedAt.  `failures` stops counting *)
(* at the threshold, beyond which only its comparison with it matters.     *)
BreakerType == [state : {"closed", "open"}, failures : 0..Threshold,
                waited : BOOLEAN, trial : BOOLEAN]

Work == [seen : {"none", "closed", "half_open"}, doomed : BOOLEAN]

NoWork == [seen |-> "none", doomed |-> FALSE]

Closed == [state |-> "closed", failures |-> 0, waited |-> FALSE, trial |-> FALSE]

BreakerInit == /\ breaker = Closed
               /\ work = [c \in EngineCalls |-> NoWork]
               /\ up \in BOOLEAN

CurrentStateStored ==   \* the time gone by is not looked at
  breaker.state

CurrentState == IF breaker.state = "open" /\ breaker.waited THEN "half_open"
                ELSE breaker.state

-----------------------------------------------------------------------------
ExecAnyTrial(c) ==   \* trials are not told apart
  /\ work[c].seen = "none"
  /\ CurrentState # "open"
  /\ work' = [work EXCEPT ![c] = [seen |-> CurrentState, doomed |-> ~up]]
  /\ breaker' = [breaker EXCEPT !.trial = @ \/ CurrentState = "half_open"]
  /\ up' = up

(* exec(), up to the await of the work; a call it refuses changes nothing. *)
Exec(c) ==
  /\ work[c].seen = "none"
  /\ CurrentState = "closed" \/ (CurrentState = "half_open" /\ ~breaker.trial)
  /\ work' = [work EXCEPT ![c] = [seen |-> CurrentState, doomed |-> ~up]]
  /\ breaker' = [breaker EXCEPT !.trial = @ \/ CurrentState = "half_open"]
  /\ up' = up

Cleared(c) == work' = [work EXCEPT ![c] = NoWork]

(* The trial of a call that is one is over: its finally block.             *)
Settled(c) == breaker.trial /\ work[c].seen # "half_open"

OnSuccessKeepsCount(c) ==
  breaker' = [Closed EXCEPT !.failures = breaker.failures, !.trial = Settled(c)]

OnSuccess(c) == breaker' = [Closed EXCEPT !.trial = Settled(c)]

OnFailure(c) ==
  LET failures == IF breaker.failures < Threshold THEN breaker.failures + 1 ELSE Threshold
      opens == CurrentState = "half_open" \/ failures = Threshold
  IN  breaker' = [state |-> IF opens THEN "open" ELSE breaker.state,
                  failures |-> failures,
                  waited |-> breaker.waited /\ ~opens,
                  trial |-> Settled(c)]

Succeed(c) == /\ work[c].seen # "none" /\ up
              /\ OnSuccess(c) /\ Cleared(c)
              /\ up' = up

(* The engine rejects the input: it is up, which a trial reports.          *)
Reject(c) ==
  /\ work[c].seen # "none" /\ up
  /\ IF work[c].seen = "half_open" THEN OnSuccess(c) ELSE breaker' = breaker
  /\ Cleared(c)
  /\ up' = up

(* No response, a timeout or a 5xx.                                        *)
Unavailable(c) == /\ work[c].seen # "none" /\ work[c].doomed
                  /\ OnFailure(c) /\ Cleared(c)
                  /\ up' = up

Elapse == /\ breaker.state = "open" /\ ~breaker.waited
          /\ breaker' = [breaker EXCEPT !.waited = TRUE]
          /\ UNCHANGED <<work, up>>

(* The engine stops, which a call under way may notice, and starts.        *)
EngineFlips == /\ up' = ~up
               /\ work' = [c \in EngineCalls |->
                             [work[c] EXCEPT !.doomed = (@ \/ up) /\ work[c].seen # "none"]]
               /\ breaker' = breaker

Settles(c) == Succeed(c) \/ Reject(c) \/ Unavailable(c)

BreakerNext == \/ \E c \in EngineCalls : Exec(c) \/ Settles(c)
               \/ Elapse \/ EngineFlips

BreakerSpec == BreakerInit /\ [][BreakerNext]_breakerVars

-----------------------------------------------------------------------------
(* What the breaker and the calls can be.                                  *)
BreakerTypeOK == /\ breaker \in BreakerType
                 /\ work \in [EngineCalls -> Work]
                 /\ up \in BOOLEAN

(* The circuit is open exactly when as many calls in a row as the          *)
(* threshold have failed, whatever order calls that began before it opened *)
(* end in.                                                                 *)
OpenAfterFailures == breaker.state = "open" <=> breaker.failures = Threshold

(* "One trial at a time": the flag is up exactly while a trial is under    *)
(* way, and no second one is.                                              *)
OneTrial ==
  /\ breaker.trial <=> \E c \in EngineCalls : work[c].seen = "half_open"
  /\ \A c, d \in EngineCalls :
       (work[c].seen = "half_open" /\ work[d].seen = "half_open") => c = d

(* Once the engine stays up, and as long as calls come, the circuit closes *)
(* again, and again after each late failure.                               *)
BreakerRecovers == <>[]up => []<>(breaker.state = "closed")
=============================================================================

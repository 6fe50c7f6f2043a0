--------------------------- MODULE CircuitBreaker ---------------------------
(***************************************************************************)
(* core/utils/circuit_breaker.py: one breaker shared by every coroutine    *)
(* that calls Redis (core/redis/client.py) or the LLM (LiteLLMProvider).   *)
(*                                                                         *)
(* The coroutines run on one event loop, so a handler is atomic between    *)
(* two awaits.  call_async awaits in two places, the protected call and    *)
(* the back-off sleep; whatever other coroutines do to the breaker         *)
(* meanwhile happens there, and so may a cancellation.                     *)
(***************************************************************************)
EXTENDS Integers, FiniteSets

CONSTANTS
    Calls,              \* the coroutines that may be inside call_async together
    FailureThreshold,   \* failure_threshold
    RecoveryTimeout,    \* recovery_timeout_s, in ticks
    HalfOpenMaxCalls,   \* half_open_max_calls
    MaxAttempts,        \* max_attempts of call_async
    None                \* Python's None, the initial opened_at

ASSUME CallsFinite == IsFiniteSet(Calls)
ASSUME ThresholdPos == FailureThreshold \in Nat \ {0}
ASSUME RecoveryNat == RecoveryTimeout \in Nat
ASSUME HalfOpenPos == HalfOpenMaxCalls \in Nat \ {0}
ASSUME AttemptsPos == MaxAttempts \in Nat \ {0}
ASSUME NoneIsNoTime == None \notin 0..RecoveryTimeout

VARIABLES
    breaker,    \* the dataclass: state, failure_count, opened_at, half_open_calls
    pc,         \* where each coroutine is
    attempt,    \* its local attempt counter
    probing,    \* history: the attempts now running that half_open_calls counts
    lost        \* history: attempts it counts that were cancelled

vars == <<breaker, pc, attempt, probing, lost>>

Breakers ==
    [state : {"CLOSED", "OPEN", "HALF_OPEN"},
     failure_count : 0..FailureThreshold,
     opened_at : (0..RecoveryTimeout) \cup {None},
     half_open_calls : Nat]

Inside == {"running", "sleeping"}
AtRest == {"idle", "ok", "failed", "blocked", "cancelled"}

-----------------------------------------------------------------------------
(* The methods of CircuitBreaker, as functions of the dataclass.  opened_at *)
(* holds the time elapsed since the stamp, stopped at RecoveryTimeout, and  *)
(* failure_count stops at FailureThreshold: the code only asks whether each *)
(* has reached that value.                                                  *)

NewBreaker ==
    [state |-> "CLOSED", failure_count |-> 0, opened_at |-> None, half_open_calls |-> 0]

TransitionToOpen(b) ==
    [b EXCEPT !.state = "OPEN", !.opened_at = 0, !.half_open_calls = 0]

TransitionToHalfOpen(b) ==
    [b EXCEPT !.state = "HALF_OPEN", !.half_open_calls = 0]

(* mutation: failure_count survives a recovery *)
TransitionToClosedKeepsCount(b) ==
    [b EXCEPT !.state = "CLOSED", !.opened_at = None, !.half_open_calls = 0]

TransitionToClosed(b) ==
    [b EXCEPT !.state = "CLOSED", !.failure_count = 0, !.opened_at = None,
              !.half_open_calls = 0]

Elapsed(b) == b.opened_at = RecoveryTimeout

CanAttempt(b) ==
    \/ b.state = "CLOSED"
    \/ b.state = "OPEN" /\ Elapsed(b)
    \/ b.state = "HALF_OPEN" /\ b.half_open_calls < HalfOpenMaxCalls

(* mutation: the elapsed breaker lets a call in but stays OPEN *)
AdmittedStaysOpen(b) == b

Admitted(b) ==
    IF b.state = "OPEN" THEN TransitionToHalfOpen(b) ELSE b

(* mutation: probes are not counted *)
CountAttemptForgets(b) == b

CountAttempt(b) ==
    IF b.state = "HALF_OPEN" THEN [b EXCEPT !.half_open_calls = @ + 1] ELSE b

(* mutation: a success closes an OPEN breaker only *)
RecordSuccessInOpenOnly(b) ==
    IF b.state = "OPEN" THEN TransitionToClosed(b) ELSE [b EXCEPT !.failure_count = 0]

RecordSuccess(b) ==
    IF b.state \in {"OPEN", "HALF_OPEN"}
      THEN TransitionToClosed(b)
      ELSE [b EXCEPT !.failure_count = 0]

OneMore(n) == IF n < FailureThreshold THEN n + 1 ELSE n

(* mutation: the breaker opens without a time stamp *)
RecordFailureUnstamped(b) ==
    LET counted == [b EXCEPT !.failure_count = OneMore(@)]
    IN  IF b.state = "HALF_OPEN" \/ counted.failure_count >= FailureThreshold
          THEN [counted EXCEPT !.state = "OPEN", !.half_open_calls = 0]
          ELSE counted

(* mutation: a failed probe does not re-open the breaker *)
RecordFailureInClosedOnly(b) ==
    LET counted == [b EXCEPT !.failure_count = OneMore(@)]
    IN  IF b.state = "CLOSED" /\ counted.failure_count >= FailureThreshold
          THEN TransitionToOpen(counted)
          ELSE counted

RecordFailure(b) ==
    LET counted == [b EXCEPT !.failure_count = OneMore(@)]
    IN  IF b.state = "HALF_OPEN" \/ counted.failure_count >= FailureThreshold
          THEN TransitionToOpen(counted)
          ELSE counted

-----------------------------------------------------------------------------
(* call_async, cut at its awaits.                                          *)

Init ==
    /\ breaker = NewBreaker
    /\ pc = [c \in Calls |-> "idle"]
    /\ attempt = [c \in Calls |-> 0]
    /\ probing = {}
    /\ lost = 0

(* An attempt begins: it is counted if the breaker is HALF_OPEN by then. *)
BeginAttempt(c, b) ==
    /\ breaker' = CountAttempt(b)
    /\ pc' = [pc EXCEPT ![c] = "running"]
    /\ attempt' = [attempt EXCEPT ![c] = @ + 1]
    /\ probing' = IF b.state = "HALF_OPEN" THEN probing \cup {c} ELSE probing

(* A new call passes _can_attempt, the only time it is asked. *)
Start(c) ==
    /\ pc[c] \in AtRest
    /\ CanAttempt(breaker)
    /\ BeginAttempt(c, Admitted(breaker))
    /\ UNCHANGED lost

(* A new call is refused with CircuitOpenError. *)
Block(c) ==
    /\ pc[c] \in AtRest
    /\ ~CanAttempt(breaker)
    /\ pc' = [pc EXCEPT ![c] = "blocked"]
    /\ UNCHANGED <<breaker, attempt, probing, lost>>

(* The protected call returns. *)
Succeed(c) ==
    /\ pc[c] = "running"
    /\ breaker' = RecordSuccess(breaker)
    /\ pc' = [pc EXCEPT ![c] = "ok"]
    /\ attempt' = [attempt EXCEPT ![c] = 0]
    /\ probing' = {}
    /\ lost' = 0

(* The protected call raises, or wait_for times it out. *)
Fail(c) ==
    /\ pc[c] = "running"
    /\ breaker' = RecordFailure(breaker)
    /\ IF attempt[c] >= MaxAttempts
         THEN /\ pc' = [pc EXCEPT ![c] = "failed"]
              /\ attempt' = [attempt EXCEPT ![c] = 0]
         ELSE /\ pc' = [pc EXCEPT ![c] = "sleeping"]
              /\ UNCHANGED attempt
    /\ probing' = {}
    /\ lost' = 0

(* The back-off is over; the loop goes on without asking _can_attempt. *)
Retry(c) ==
    /\ pc[c] = "sleeping"
    /\ BeginAttempt(c, breaker)
    /\ UNCHANGED lost

(* The task is cancelled (a /stop, or the caller's own wait_for: the skills *)
(* router gives an LLM call 1.5 s).  CancelledError is not an Exception, so *)
(* neither handler of call_async sees it and the breaker is left as it is.  *)
Cancel(c) ==
    /\ pc[c] \in Inside
    /\ pc' = [pc EXCEPT ![c] = "cancelled"]
    /\ attempt' = [attempt EXCEPT ![c] = 0]
    /\ probing' = probing \ {c}
    /\ lost' = IF c \in probing THEN lost + 1 ELSE lost
    /\ UNCHANGED breaker

Tick ==
    /\ breaker.opened_at # None
    /\ breaker.opened_at < RecoveryTimeout
    /\ breaker' = [breaker EXCEPT !.opened_at = @ + 1]
    /\ UNCHANGED <<pc, attempt, probing, lost>>

Next ==
    \/ Tick
    \/ \E c \in Calls :
          Start(c) \/ Block(c) \/ Succeed(c) \/ Fail(c) \/ Retry(c) \/ Cancel(c)

(* Time passes, a protected call ends (wait_for bounds it), a sleep ends,   *)
(* and callers keep coming (the metrics socket pings Redis every 2 s, every *)
(* message asks the LLM).  Nothing says that a cancellation ever happens.   *)
Fairness ==
    /\ WF_vars(Tick)
    /\ \A c \in Calls : /\ WF_vars(Start(c))
                        /\ WF_vars(Succeed(c) \/ Fail(c))
                        /\ WF_vars(Retry(c))

Spec == Init /\ [][Next]_vars
FairSpec == Spec /\ Fairness

-----------------------------------------------------------------------------
(* Properties.                                                             *)

(* The shape of the dataclass and of the coroutines' locals. *)
TypeOK ==
    /\ breaker \in Breakers
    /\ pc \in [Calls -> Inside \cup AtRest]
    /\ attempt \in [Calls -> 0..MaxAttempts]
    /\ probing \in SUBSET Calls
    /\ lost \in Nat

(* The assertion of _can_attempt: an OPEN breaker knows when it opened. *)
OpenHasTimestamp == breaker.state = "OPEN" => breaker.opened_at # None

(* The breaker is CLOSED exactly while fewer than failure_threshold failures *)
(* have been recorded since the last reset: a recovery never leaves a count  *)
(* that would trip the breaker at the next single failure, and retries that  *)
(* fail while it is OPEN never bring it back under the threshold.            *)
ClosedBelowThreshold ==
    breaker.state = "CLOSED" <=> breaker.failure_count < FailureThreshold

(* A HALF_OPEN breaker that refuses calls is waiting for a probe that is     *)
(* still running, unless a probe was cancelled.  A cancelled probe keeps its *)
(* place in half_open_calls and nothing in HALF_OPEN ever takes it back.     *)
RefusalHasProbe ==
    breaker.state = "HALF_OPEN" /\ ~CanAttempt(breaker) =>
        \/ \E c \in probing : pc[c] = "running"
        \/ lost > 0

(* Of the calls that a HALF_OPEN breaker let in, at most half_open_max_calls *)
(* run their first attempt.  (Retries of calls admitted before the breaker   *)
(* opened come on top: they are counted but never refused.)                  *)
FreshProbes == {c \in probing : attempt[c] = 1}
FreshProbeLimit == Cardinality(FreshProbes) <= HalfOpenMaxCalls

(* An OPEN breaker is eventually tried again: failing retries of the calls   *)
(* already inside push opened_at forward, but only finitely often.           *)
LeavesOpen == breaker.state = "OPEN" ~> breaker.state # "OPEN"

(* A HALF_OPEN breaker eventually decides, unless a probe was cancelled. *)
HalfOpenDecides == breaker.state = "HALF_OPEN" ~> (breaker.state # "HALF_OPEN" \/ lost > 0)
=============================================================================

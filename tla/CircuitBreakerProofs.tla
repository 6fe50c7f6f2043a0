------------------------ MODULE CircuitBreakerProofs ------------------------
(***************************************************************************)
(* What CircuitBreaker.tla checks on three coroutines, for any finite set  *)
(* of them and any thresholds.  half_open_calls is shared, it is reset by  *)
(* every transition and nothing decrements it: the invariant accounts for  *)
(* each unit of it by a probe that is running or was cancelled.            *)
(***************************************************************************)
EXTENDS CircuitBreaker, FiniteSetTheorems, TLAPS

(* Every unit of half_open_calls is a running probe or a cancelled one, and *)
(* outside HALF_OPEN there is none of either.                               *)
ProbeAccounting ==
    /\ breaker.half_open_calls = Cardinality(probing) + lost
    /\ breaker.state # "HALF_OPEN" => probing = {} /\ lost = 0
    /\ \A c \in probing : pc[c] = "running"

(* A call at rest has no attempt; one that sleeps has tried and may again. *)
Locals ==
    \A c \in Calls :
       /\ pc[c] \in AtRest => attempt[c] = 0
       /\ pc[c] = "sleeping" => attempt[c] # 0 /\ attempt[c] < MaxAttempts
       /\ pc[c] = "running" => attempt[c] # 0

IInv ==
    /\ TypeOK
    /\ OpenHasTimestamp
    /\ ClosedBelowThreshold
    /\ Locals
    /\ ProbeAccounting
    /\ FreshProbeLimit

-----------------------------------------------------------------------------
(* What the methods of the dataclass return.                               *)

(* The values that the transitions set are in the fields' types. *)
LEMMA Stamps ==
    /\ 0 \in (0..RecoveryTimeout) \cup {None}
    /\ None \in (0..RecoveryTimeout) \cup {None}
    /\ 0 \in 0..FailureThreshold
    /\ 0 \in Nat
  BY RecoveryNat, ThresholdPos

(* The three transitions keep the dataclass well formed. *)
LEMMA TransitionsTyped ==
    ASSUME NEW b \in Breakers
    PROVE  /\ TransitionToOpen(b) \in Breakers
           /\ TransitionToHalfOpen(b) \in Breakers
           /\ TransitionToClosed(b) \in Breakers
  <1>1. TransitionToOpen(b) \in Breakers
    BY Stamps DEF Breakers, TransitionToOpen
  <1>2. TransitionToHalfOpen(b) \in Breakers
    BY DEF Breakers, TransitionToHalfOpen
  <1>3. TransitionToClosed(b) \in Breakers
    BY Stamps DEF Breakers, TransitionToClosed
  <1>4. QED
    BY <1>1, <1>2, <1>3

(* _record_success closes the breaker and forgets its failures. *)
LEMMA RecordSuccessResult ==
    ASSUME NEW b \in Breakers
    PROVE  /\ RecordSuccess(b) \in Breakers
           /\ RecordSuccess(b).state = "CLOSED"
           /\ RecordSuccess(b).failure_count = 0
           /\ b.state # "CLOSED" => RecordSuccess(b).half_open_calls = 0
           /\ b.state = "CLOSED" => RecordSuccess(b).half_open_calls = b.half_open_calls
  <1>1. CASE b.state = "CLOSED"
    BY <1>1, ThresholdPos DEF Breakers, RecordSuccess
  <1>2. CASE b.state # "CLOSED"
    <2>1. RecordSuccess(b) = TransitionToClosed(b)
      BY <1>2 DEF Breakers, RecordSuccess
    <2>2. RecordSuccess(b) \in Breakers
      BY <2>1, TransitionsTyped
    <2>3. QED
      BY <1>2, <2>1, <2>2 DEF Breakers, TransitionToClosed
  <1>3. QED
    BY <1>1, <1>2

(* _record_failure counts; it leaves the breaker CLOSED only below the       *)
(* threshold, stamps it otherwise when it opens, and never leaves a HALF_OPEN *)
(* one.                                                                      *)
LEMMA RecordFailureResult ==
    ASSUME NEW b \in Breakers,
           b.state = "CLOSED" <=> b.failure_count < FailureThreshold
    PROVE  LET r == RecordFailure(b)
           IN  /\ r \in Breakers
               /\ r.state \in {"CLOSED", "OPEN"}
               /\ r.state = "CLOSED" <=> r.failure_count < FailureThreshold
               /\ r.state = "OPEN" => r.opened_at = 0 /\ r.half_open_calls = 0
               /\ r.state = "CLOSED" => /\ b.state = "CLOSED"
                                        /\ r.half_open_calls = b.half_open_calls
  <1>1. OneMore(b.failure_count) \in 0..FailureThreshold
    BY ThresholdPos DEF Breakers, OneMore
  <1>2. [b EXCEPT !.failure_count = OneMore(@)] \in Breakers
    BY <1>1 DEF Breakers
  <1>3. b.state # "CLOSED" => OneMore(b.failure_count) = FailureThreshold
    BY ThresholdPos DEF Breakers, OneMore
  <1> DEFINE counted == [b EXCEPT !.failure_count = OneMore(@)]
  <1>4. CASE RecordFailure(b) = TransitionToOpen(counted)
    <2>1. RecordFailure(b) \in Breakers
      BY <1>2, <1>4, TransitionsTyped
    <2>2. /\ RecordFailure(b).state = "OPEN"
          /\ RecordFailure(b).opened_at = 0
          /\ RecordFailure(b).half_open_calls = 0
          /\ RecordFailure(b).failure_count = OneMore(b.failure_count)
      BY <1>4 DEF Breakers, TransitionToOpen
    <2>3. OneMore(b.failure_count) >= FailureThreshold
      BY <1>1, <1>3, <1>4, <2>2, ThresholdPos DEF RecordFailure, Breakers, OneMore
    <2>4. QED
      BY <1>1, <2>1, <2>2, <2>3, ThresholdPos
  <1>5. CASE RecordFailure(b) # TransitionToOpen(counted)
    <2>1. RecordFailure(b) = counted /\ b.state # "HALF_OPEN"
                                    /\ ~(counted.failure_count >= FailureThreshold)
      BY <1>5 DEF RecordFailure
    <2>2. counted.failure_count = OneMore(b.failure_count) /\ counted.state = b.state
            /\ counted.half_open_calls = b.half_open_calls
      BY DEF Breakers
    <2>3. b.state = "CLOSED"
      BY <1>1, <1>3, <2>1, <2>2, ThresholdPos
    <2>4. QED
      BY <1>1, <1>2, <2>1, <2>2, <2>3, ThresholdPos
  <1>6. QED
    BY <1>4, <1>5

(* What an attempt finds: admission turns an OPEN breaker HALF_OPEN with an  *)
(* empty count, and a HALF_OPEN one is counted once more.                    *)
LEMMA AttemptResult ==
    ASSUME NEW b \in Breakers
    PROVE  /\ Admitted(b) \in Breakers
           /\ CountAttempt(b) \in Breakers
           /\ CountAttempt(b).state = b.state
           /\ CountAttempt(b).failure_count = b.failure_count
           /\ CountAttempt(b).opened_at = b.opened_at
           /\ b.state = "HALF_OPEN" =>
                CountAttempt(b).half_open_calls = b.half_open_calls + 1
           /\ b.state # "HALF_OPEN" =>
                CountAttempt(b).half_open_calls = b.half_open_calls
           /\ Admitted(b).failure_count = b.failure_count
           /\ b.state = "OPEN" => /\ Admitted(b).state = "HALF_OPEN"
                                  /\ Admitted(b).half_open_calls = 0
           /\ b.state # "OPEN" => Admitted(b) = b
  BY TransitionsTyped DEF Breakers, Admitted, CountAttempt, TransitionToHalfOpen

-----------------------------------------------------------------------------
(* The inductive invariant.                                                *)

LEMMA Finite == TypeOK => /\ IsFiniteSet(probing)
                          /\ Cardinality(probing) \in Nat
                          /\ IsFiniteSet(FreshProbes)
                          /\ Cardinality(FreshProbes) \in Nat
                          /\ Cardinality(FreshProbes) <= Cardinality(probing)
  BY CallsFinite, FS_Subset, FS_CardinalityType DEF TypeOK, FreshProbes

LEMMA InitIInv == Init => IInv
  <1> SUFFICES ASSUME Init
               PROVE  IInv
    OBVIOUS
  <1>1. TypeOK
    BY Stamps, AttemptsPos DEF Init, TypeOK, Breakers, NewBreaker, AtRest
  <1>2. OpenHasTimestamp /\ ClosedBelowThreshold /\ Locals
    BY ThresholdPos, AttemptsPos
    DEF Init, NewBreaker, OpenHasTimestamp, ClosedBelowThreshold, Locals
  <1>3. ProbeAccounting
    BY FS_EmptySet DEF Init, NewBreaker, ProbeAccounting
  <1>4. FreshProbeLimit
    <2>1. FreshProbes = {}
      BY DEF Init, FreshProbes
    <2>2. QED
      BY <2>1, FS_EmptySet, HalfOpenPos DEF FreshProbeLimit
  <1>5. QED
    BY <1>1, <1>2, <1>3, <1>4 DEF IInv

(* An attempt that begins on a breaker b, already accounted for, keeps the    *)
(* invariant: a counted attempt adds itself to the running probes.            *)
LEMMA BeginKeepsIInv ==
    ASSUME TypeOK, Locals, FreshProbeLimit,
           NEW c \in Calls, NEW b \in Breakers,
           BeginAttempt(c, b), UNCHANGED lost,
           c \notin probing, attempt[c] < MaxAttempts,
           b.state = "OPEN" => b.opened_at # None,
           b.state = "CLOSED" <=> b.failure_count < FailureThreshold,
           b.half_open_calls = Cardinality(probing) + lost,
           b.state # "HALF_OPEN" => probing = {} /\ lost = 0,
           \A d \in probing : pc[d] = "running",
           b.state = "HALF_OPEN" /\ attempt[c] = 0 => b.half_open_calls < HalfOpenMaxCalls
    PROVE  IInv'
  <1> USE DEF BeginAttempt
  <1>1. TypeOK'
    BY AttemptResult, AttemptsPos DEF TypeOK, Inside
  <1>2. OpenHasTimestamp' /\ ClosedBelowThreshold'
    BY AttemptResult DEF OpenHasTimestamp, ClosedBelowThreshold
  <1>3. Locals'
    BY AttemptsPos DEF Locals, TypeOK, AtRest
  <1>4. ProbeAccounting'
    <2>1. CASE b.state = "HALF_OPEN"
      <3>1. Cardinality(probing') = Cardinality(probing) + 1
        BY <2>1, Finite, FS_AddElement
      <3>2. breaker'.half_open_calls = b.half_open_calls + 1 /\ breaker'.state = "HALF_OPEN"
        BY <2>1, AttemptResult
      <3>3. breaker'.half_open_calls = Cardinality(probing') + lost'
        BY <3>1, <3>2, Finite DEF TypeOK
      <3>4. \A d \in probing' : pc'[d] = "running"
        BY <2>1 DEF TypeOK
      <3>5. QED
        BY <3>2, <3>3, <3>4 DEF ProbeAccounting
    <2>2. CASE b.state # "HALF_OPEN"
      BY <2>2, AttemptResult DEF ProbeAccounting, TypeOK
    <2>3. QED
      BY <2>1, <2>2
  <1>5. FreshProbeLimit'
    <2>1. CASE b.state = "HALF_OPEN" /\ attempt[c] = 0
      <3>1. FreshProbes' \subseteq FreshProbes \cup {c}
        BY <2>1 DEF FreshProbes, TypeOK
      <3>2. Cardinality(FreshProbes \cup {c}) <= Cardinality(FreshProbes) + 1
        <4>1. IsFiniteSet(FreshProbes) /\ Cardinality(FreshProbes) \in Nat
          BY Finite
        <4>2. Cardinality(FreshProbes \cup {c}) =
                IF c \in FreshProbes THEN Cardinality(FreshProbes)
                                     ELSE Cardinality(FreshProbes) + 1
          BY <4>1, FS_AddElement
        <4>3. QED
          BY <4>1, <4>2
      <3>3. Cardinality(FreshProbes') <= Cardinality(FreshProbes \cup {c})
        BY <3>1, Finite, FS_AddElement, FS_Subset
      <3>4. Cardinality(FreshProbes) < HalfOpenMaxCalls
        BY <2>1, Finite, HalfOpenPos DEF TypeOK
      <3>5. /\ Cardinality(FreshProbes \cup {c}) \in Nat
            /\ Cardinality(FreshProbes') \in Nat
        BY <3>1, Finite, FS_AddElement, FS_Subset, FS_CardinalityType
      <3>6. QED
        BY <3>2, <3>3, <3>4, <3>5, Finite, HalfOpenPos DEF FreshProbeLimit
    <2>2. CASE ~(b.state = "HALF_OPEN" /\ attempt[c] = 0)
      <3>1. FreshProbes' \subseteq FreshProbes
        BY <2>2 DEF FreshProbes, TypeOK
      <3>2. Cardinality(FreshProbes') <= Cardinality(FreshProbes) /\ Cardinality(FreshProbes') \in Nat
        BY <3>1, Finite, FS_Subset, FS_CardinalityType
      <3>3. QED
        BY <3>2, Finite, HalfOpenPos DEF FreshProbeLimit
    <2>3. QED
      BY <2>1, <2>2
  <1>6. QED
    BY <1>1, <1>2, <1>3, <1>4, <1>5 DEF IInv

(* A step that ends an attempt and closes or opens the breaker leaves no     *)
(* probe behind.                                                             *)
LEMMA EndKeepsIInv ==
    ASSUME probing' = {}, lost' = 0, breaker'.half_open_calls = 0
    PROVE  ProbeAccounting' /\ FreshProbeLimit'
  <1>1. ProbeAccounting'
    BY FS_EmptySet DEF ProbeAccounting
  <1>2. FreshProbes' = {}
    BY DEF FreshProbes
  <1>3. FreshProbeLimit'
    BY <1>2, FS_EmptySet, HalfOpenPos DEF FreshProbeLimit
  <1>4. QED
    BY <1>1, <1>3

LEMMA NextIInv == IInv /\ [Next]_vars => IInv'
  <1> SUFFICES ASSUME IInv, [Next]_vars
               PROVE  IInv'
    OBVIOUS
  <1> USE DEF IInv
  <1>0. breaker \in Breakers
    BY DEF TypeOK
  <1>1. ASSUME NEW c \in Calls, Start(c)
        PROVE  IInv'
    <2> DEFINE b == Admitted(breaker)
    <2>1. b \in Breakers /\ BeginAttempt(c, b) /\ UNCHANGED lost
      BY <1>0, <1>1, AttemptResult DEF Start
    <2>2. pc[c] \in AtRest /\ attempt[c] = 0
      BY <1>1 DEF Start, Locals
    <2>3. c \notin probing /\ attempt[c] < MaxAttempts
      BY <2>2, AttemptsPos DEF ProbeAccounting, AtRest
    <2>4. CASE breaker.state = "OPEN"
      <3>1. b.state = "HALF_OPEN" /\ b.half_open_calls = 0
              /\ b.failure_count = breaker.failure_count
        BY <1>0, <2>4, AttemptResult
      <3>2. probing = {} /\ lost = 0 /\ ~(b.failure_count < FailureThreshold)
        BY <2>4, <3>1 DEF ProbeAccounting, ClosedBelowThreshold
      <3> HIDE DEF b
      <3>3. QED
        BY <2>1, <2>2, <2>3, <3>1, <3>2, FS_EmptySet, HalfOpenPos, BeginKeepsIInv
    <2>5. CASE breaker.state # "OPEN"
      <3>1. b = breaker
        BY <1>0, <2>5, AttemptResult
      <3>2. b.state = "HALF_OPEN" => b.half_open_calls < HalfOpenMaxCalls
        BY <1>1, <2>5, <3>1 DEF Start, CanAttempt
      <3> HIDE DEF b
      <3>3. QED
        BY <2>1, <2>2, <2>3, <2>5, <3>1, <3>2, BeginKeepsIInv
        DEF ProbeAccounting, ClosedBelowThreshold
    <2>6. QED
      BY <2>4, <2>5
  <1>2. ASSUME NEW c \in Calls, Block(c)
        PROVE  IInv'
    <2> USE <1>2 DEF Block
    <2>1. TypeOK' /\ OpenHasTimestamp' /\ ClosedBelowThreshold'
      BY DEF TypeOK, AtRest, OpenHasTimestamp, ClosedBelowThreshold
    <2>2. Locals' /\ ProbeAccounting'
      BY DEF TypeOK, Locals, ProbeAccounting, AtRest
    <2>3. FreshProbeLimit'
      BY DEF FreshProbeLimit, FreshProbes
    <2>4. QED
      BY <2>1, <2>2, <2>3
  <1>3. ASSUME NEW c \in Calls, Succeed(c)
        PROVE  IInv'
    <2> USE <1>3 DEF Succeed
    <2>1. TypeOK'
      BY <1>0, RecordSuccessResult, AttemptsPos DEF TypeOK, AtRest
    <2>2. OpenHasTimestamp' /\ ClosedBelowThreshold'
      BY <1>0, RecordSuccessResult, ThresholdPos DEF OpenHasTimestamp, ClosedBelowThreshold
    <2>3. Locals'
      BY AttemptsPos DEF TypeOK, Locals
    <2>4. breaker.state = "CLOSED" => breaker.half_open_calls = 0
      BY FS_EmptySet DEF ProbeAccounting
    <2>5. breaker'.half_open_calls = 0
      BY <1>0, <2>4, RecordSuccessResult
    <2>6. QED
      BY <2>1, <2>2, <2>3, <2>5, EndKeepsIInv
  <1>4. ASSUME NEW c \in Calls, Fail(c)
        PROVE  IInv'
    <2> USE <1>4 DEF Fail
    <2>1. breaker.state = "CLOSED" <=> breaker.failure_count < FailureThreshold
      BY DEF ClosedBelowThreshold
    <2>2. TypeOK'
      BY <1>0, <2>1, RecordFailureResult, AttemptsPos DEF TypeOK, AtRest, Inside
    <2>3. OpenHasTimestamp'
      BY <1>0, <2>1, RecordFailureResult, NoneIsNoTime, RecoveryNat DEF OpenHasTimestamp
    <2>4. ClosedBelowThreshold'
      BY <1>0, <2>1, RecordFailureResult DEF ClosedBelowThreshold
    <2>5. Locals'
      BY AttemptsPos DEF TypeOK, Locals, AtRest
    <2>6. breaker.state = "CLOSED" => breaker.half_open_calls = 0
      BY FS_EmptySet DEF ProbeAccounting
    <2>7. breaker'.half_open_calls = 0
      BY <1>0, <2>1, <2>6, RecordFailureResult
    <2>8. QED
      BY <2>2, <2>3, <2>4, <2>5, <2>7, EndKeepsIInv
  <1>5. ASSUME NEW c \in Calls, Retry(c)
        PROVE  IInv'
    <2>1. BeginAttempt(c, breaker) /\ UNCHANGED lost
      BY <1>5 DEF Retry
    <2>2. attempt[c] < MaxAttempts /\ attempt[c] # 0
      BY <1>5 DEF Retry, Locals
    <2>3. c \notin probing
      BY <1>5 DEF Retry, ProbeAccounting
    <2>4. QED
      BY <1>0, <2>1, <2>2, <2>3, BeginKeepsIInv
      DEF ProbeAccounting, OpenHasTimestamp, ClosedBelowThreshold
  <1>6. ASSUME NEW c \in Calls, Cancel(c)
        PROVE  IInv'
    <2> USE <1>6 DEF Cancel
    <2>1. TypeOK'
      BY AttemptsPos DEF TypeOK, AtRest
    <2>2. OpenHasTimestamp' /\ ClosedBelowThreshold'
      BY DEF OpenHasTimestamp, ClosedBelowThreshold
    <2>3. Locals'
      BY AttemptsPos DEF TypeOK, Locals
    <2>4. ProbeAccounting'
      <3>1. CASE c \in probing
        <4>1. Cardinality(probing') = Cardinality(probing) - 1
          BY <3>1, Finite, FS_RemoveElement
        <4>2. breaker'.half_open_calls = Cardinality(probing') + lost'
          BY <3>1, <4>1, Finite DEF ProbeAccounting, TypeOK
        <4>3. QED
          BY <3>1, <4>2 DEF ProbeAccounting, TypeOK
      <3>2. CASE c \notin probing
        <4>1. probing' = probing
          BY <3>2
        <4>2. QED
          BY <3>2, <4>1 DEF ProbeAccounting, TypeOK
      <3>3. QED
        BY <3>1, <3>2
    <2>5. FreshProbeLimit'
      <3>1. FreshProbes' \subseteq FreshProbes
        BY DEF FreshProbes, TypeOK
      <3>2. Cardinality(FreshProbes') <= Cardinality(FreshProbes) /\ Cardinality(FreshProbes') \in Nat
        BY <3>1, Finite, FS_Subset, FS_CardinalityType
      <3>3. QED
        BY <3>2, Finite, HalfOpenPos DEF FreshProbeLimit
    <2>6. QED
      BY <2>1, <2>2, <2>3, <2>4, <2>5
  <1>7. CASE Tick
    <2> USE <1>7 DEF Tick
    <2>1. breaker.opened_at \in 0..RecoveryTimeout
      BY DEF TypeOK, Breakers
    <2>2. breaker.opened_at + 1 \in 0..RecoveryTimeout
      BY <2>1, RecoveryNat
    <2>3. /\ breaker' \in Breakers
          /\ breaker'.opened_at = breaker.opened_at + 1
          /\ breaker'.state = breaker.state
          /\ breaker'.failure_count = breaker.failure_count
          /\ breaker'.half_open_calls = breaker.half_open_calls
      BY <1>0, <2>2 DEF Breakers
    <2>4. OpenHasTimestamp'
      BY <2>2, <2>3, NoneIsNoTime DEF OpenHasTimestamp
    <2>5. TypeOK' /\ ClosedBelowThreshold' /\ Locals' /\ ProbeAccounting'
      BY <2>3 DEF TypeOK, ClosedBelowThreshold, Locals, ProbeAccounting
    <2>6. FreshProbeLimit'
      BY DEF FreshProbeLimit, FreshProbes
    <2>7. QED
      BY <2>4, <2>5, <2>6
  <1>8. CASE UNCHANGED vars
    BY <1>8 DEF vars, TypeOK, OpenHasTimestamp, ClosedBelowThreshold, Locals,
                ProbeAccounting, FreshProbeLimit, FreshProbes
  <1>9. QED
    BY <1>1, <1>2, <1>3, <1>4, <1>5, <1>6, <1>7, <1>8 DEF Next

LEMMA Invariant == Spec => []IInv
  BY InitIInv, NextIInv, PTL DEF Spec

-----------------------------------------------------------------------------
(* The theorems.                                                           *)

(* The dataclass and the locals of call_async keep their types; in           *)
(* particular no call makes more than max_attempts attempts.                 *)
THEOREM TypeCorrect == Spec => []TypeOK
  BY Invariant, PTL DEF IInv

(* The assertion at circuit_breaker.py:49 never fails. *)
THEOREM AssertionHolds == Spec => []OpenHasTimestamp
  BY Invariant, PTL DEF IInv

(* The breaker is CLOSED exactly while the recorded failures stay below the  *)
(* threshold, so the code's test of HALF_OPEN in _record_failure never       *)
(* decides anything by itself.                                               *)
THEOREM Threshold == Spec => []ClosedBelowThreshold
  BY Invariant, PTL DEF IInv

(* First attempts that probe a HALF_OPEN breaker stay within                 *)
(* half_open_max_calls, whatever retries and cancellations happen.           *)
THEOREM ProbeLimit == Spec => []FreshProbeLimit
  BY Invariant, PTL DEF IInv

(* A HALF_OPEN breaker refuses calls only while a probe runs, or for ever    *)
(* after one was cancelled.                                                  *)
THEOREM Refusals == Spec => []RefusalHasProbe
  <1>1. IInv => RefusalHasProbe
    <2> SUFFICES ASSUME IInv, breaker.state = "HALF_OPEN", ~CanAttempt(breaker), lost <= 0
                 PROVE  \E c \in probing : pc[c] = "running"
      BY DEF RefusalHasProbe, IInv, TypeOK
    <2>1. breaker.half_open_calls > 0
      BY HalfOpenPos DEF CanAttempt, IInv, TypeOK, Breakers
    <2>2. Cardinality(probing) > 0
      BY <2>1, Finite DEF IInv, ProbeAccounting, TypeOK
    <2>3. probing # {}
      BY <2>2, FS_EmptySet
    <2>4. QED
      BY <2>3 DEF IInv, ProbeAccounting
  <1>2. QED
    BY Invariant, <1>1, PTL
=============================================================================

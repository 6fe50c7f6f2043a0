---------------------------- MODULE AgentTurnProofs ----------------------------
(***************************************************************************)
(* Proofs about AgentTurn and the calls of ModelCalls in it: their type    *)
(* invariant, GivesUpLast (a call tries all it may before it gives up),    *)
(* RetriesBounded (the nested loops' product bounds what a call requests)  *)
(* and RoutingSettles (the router decides a text once, or once for every   *)
(* turn that overlaps), for any number of retries, attempts, rounds,       *)
(* iterations, texts and overlapping turns.                                *)
(***************************************************************************)
EXTENDS AgentTurn, TLAPS

\* A call is at a provider and model that exist; a second provider only in a pair.
Placed ==
    \/ call[Me].provider = 1 /\ call[Me].model \in {1, 2}
    \/ call[Me].provider = 2 /\ call[Me].model = 1 /\ setup = "pair"

Under(T, p, m) == \E how \in {"failed", "refused"} : <<p, m, how>> \in T

\* All models before the call's have been tried.
Behind ==
    call[Me].phase \in {"due", "asking"} =>
        /\ call[Me].provider = 2 \/ call[Me].model = 2 => Under(tried[Me], "primary", 1)
        /\ call[Me].provider = 2 => Under(tried[Me], "primary", 2)

\* A call has an outcome when it has ended, and not before.
Outcome == call[Me].result # "none" => call[Me].phase = "ended"

\* The rounds of chat_with_retry are only used without a router.
OneRound == call[Me].round > 1 => call[Me].retried /\ ~Routed

\* The completions of one model, and of the models and rounds before the call's.
ModelCost == BreakerAttempts * RetryAttempts
Before ==
    (call[Me].round - 1) * RoundCost
        + ((call[Me].provider - 1) * 2 + (call[Me].model - 1)) * ModelCost

\* What a call has requested is bounded by how far it is.
Spent ==
    /\ call[Me].phase = "idle" => asked[Me] = 0
    /\ call[Me].phase = "due" => asked[Me] <= Before
    /\ call[Me].phase = "asking" =>
           asked[Me] <= Before + (call[Me].attempt - 1) * RetryAttempts + call[Me].completion
    /\ call[Me].phase = "ended" => asked[Me] <= call[Me].round * RoundCost

\* A call without an answer has tried all it could: GivesUpLast, spelt out for the
\* two providers.
GaveUp ==
    call[Me].result \in {"error", "crash"} =>
        /\ Under(tried[Me], "primary", 1) /\ Under(tried[Me], "primary", 2)
        /\ call[Me].provider = 2 => Under(tried[Me], "secondary", 1)
        /\ call[Me].result = "crash" \/ (call[Me].provider = 1 /\ setup = "pair") =>
               IF call[Me].provider = 2
               THEN <<"secondary", 1, "refused">> \in tried[Me]
               ELSE <<"primary", 2, "refused">> \in tried[Me]

\* Where a call is and what it has behind it.
Course == Placed /\ Behind /\ Outcome /\ OneRound /\ GaveUp

CallInv == CallTypeOK /\ Course /\ Spent

CallRecords ==
    [phase : {"idle", "due", "asking", "ended"}, retried : BOOLEAN,
     round : 1 .. Rounds, provider : 1 .. 2, model : 1 .. 2,
     attempt : 1 .. BreakerAttempts, completion : 1 .. RetryAttempts,
     result : {"none", "answer", "error", "crash", "cancelled"}]

Marks == ProviderNames \X (1 .. 2) \X {"failed", "refused"}

-----------------------------------------------------------------------------

LEMMA Bounds ==
    /\ Me \in Callers
    /\ RetryAttempts \in Nat \ {0}
    /\ Rounds \in Nat \ {0}
    /\ BreakerAttempts \in Nat \ {0}
    /\ ModelCost \in Nat
<1>1. BreakerAttempts \in Nat \ {0}
  BY CallAssumption DEF BreakerAttempts
<1> QED
  BY <1>1, CallAssumption, TurnAssumption DEF Me, ModelCost

LEMMA Times == \A k \in Nat \ {0}, n \in Nat : (k - 1) * n \in Nat
OBVIOUS

LEMMA Typed ==
    ASSUME CallTypeOK
    PROVE  /\ call \in [Callers -> CallRecords]
           /\ call[Me] \in CallRecords
           /\ setup \in {"plain", "fast", "pair"}
           /\ asked \in [Callers -> Nat]
           /\ willing \in [ProviderNames -> BOOLEAN]
           /\ tried \in [Callers -> SUBSET Marks]
BY Bounds DEF CallTypeOK, CallRecords, Marks

\* Which provider and model a call is at.
LEMMA Names ==
    ASSUME Placed
    PROVE  /\ Provider(Me) = IF call[Me].provider = 1 THEN "primary" ELSE "secondary"
           /\ LastModel(Me) <=> call[Me].provider = 2 \/ call[Me].model = 2
           /\ LastProvider(Me) <=> call[Me].provider = 2 \/ setup # "pair"
           /\ Provider(Me) \in ProviderNames
           /\ Routed <=> setup # "plain"
<1>1. /\ Provider(Me) = IF call[Me].provider = 1 THEN "primary" ELSE "secondary"
      /\ Len(Providers) = IF setup = "pair" THEN 2 ELSE 1
  BY DEF Placed, Provider, Providers
<1>2. Len(Models(Provider(Me))) = IF call[Me].provider = 1 THEN 2 ELSE 1
  BY <1>1 DEF Models, Placed
<1> QED
  BY <1>1, <1>2 DEF Placed, LastModel, LastProvider, ProviderNames, Routed

\* The cost of a round, and where a call is in its rounds.
LEMMA Costs ==
    ASSUME CallTypeOK, Placed
    PROVE  /\ RoundCost \in Nat
           /\ RoundCost = IF setup = "pair" THEN 3 * ModelCost ELSE 2 * ModelCost
           /\ Before \in Nat
           /\ Before + ModelCost <= call[Me].round * RoundCost
           /\ call[Me].round * RoundCost \in Nat
<1>1. /\ RoundCost \in Nat
      /\ RoundCost = IF setup = "pair" THEN 3 * ModelCost ELSE 2 * ModelCost
  BY Bounds DEF RoundCost, ModelCost
<1>2. /\ call[Me].round \in Nat \ {0}
      /\ call[Me].round \in 1 .. Rounds
  BY Typed, Bounds DEF CallRecords
<1> DEFINE k == call[Me].round
           R == RoundCost
           C == ModelCost
<1>3. /\ (k - 1) * R \in Nat /\ k * R \in Nat
      /\ k * R = (k - 1) * R + R
  <2> HIDE DEF R, k
  <2>1. k \in Nat \ {0} /\ R \in Nat
    BY <1>1, <1>2 DEF k, R
  <2> QED
    BY <2>1
<1>4. /\ Before \in Nat
      /\ Before + C <= (k - 1) * R + R
  <2> DEFINE X == (k - 1) * R
  <2>0. /\ X \in Nat
        /\ Before = X + ((call[Me].provider - 1) * 2 + (call[Me].model - 1)) * C
        /\ C \in Nat /\ R = IF setup = "pair" THEN 3 * C ELSE 2 * C
    BY <1>1, <1>3, Bounds DEF Before
  <2> HIDE DEF X, R, C
  <2>1. CASE call[Me].provider = 1 /\ call[Me].model = 1
    BY <2>0, <2>1 DEF X
  <2>2. CASE call[Me].provider = 1 /\ call[Me].model = 2
    BY <2>0, <2>2 DEF X
  <2>3. CASE call[Me].provider = 2 /\ call[Me].model = 1 /\ setup = "pair"
    BY <2>0, <2>3 DEF X
  <2> QED
    BY <2>1, <2>2, <2>3 DEF Placed
<1> QED
  BY <1>1, <1>3, <1>4

\* What the attempts before this one cost.
LEMMA AttemptCosts ==
    ASSUME CallTypeOK
    PROVE  /\ (call[Me].attempt - 1) * RetryAttempts \in Nat
           /\ call[Me].attempt * RetryAttempts = (call[Me].attempt - 1) * RetryAttempts + RetryAttempts
           /\ call[Me].attempt * RetryAttempts <= ModelCost
           /\ call[Me].completion \in 1 .. RetryAttempts
<1> DEFINE a == call[Me].attempt
           b == BreakerAttempts
           m == RetryAttempts
<1>1. /\ a \in 1 .. b /\ b \in Nat \ {0} /\ m \in Nat \ {0}
      /\ call[Me].completion \in 1 .. RetryAttempts
  BY Typed, Bounds DEF CallRecords
<1>2. /\ (a - 1) * m \in Nat
      /\ a * m = (a - 1) * m + m
      /\ a * m <= b * m
  <2> HIDE DEF a, b, m
  <2>1. PICK d \in Nat : b = a + d
    <3>1. b - a \in Nat /\ b = a + (b - a)
      BY <1>1
    <3> QED
      BY <3>1
  <2>2. d * m \in Nat /\ b * m = a * m + d * m /\ (a - 1) * m \in Nat /\ a * m \in Nat
    BY <1>1, <2>1
  <2> QED
    BY <1>1, <2>2
<1> QED
  BY <1>1, <1>2 DEF ModelCost

-----------------------------------------------------------------------------

LEMMA Goes ==
    \A r \in CallRecords : \A p, m \in 1 .. 2 :
        /\ [r EXCEPT !.phase = "due", !.model = m] \in CallRecords
        /\ [r EXCEPT !.phase = "due", !.provider = p, !.model = m] \in CallRecords
BY DEF CallRecords

LEMMA AtRest == Resting \in CallRecords
<1>1. \A k \in 1 .. Rounds, one \in 1 .. 2, a \in 1 .. BreakerAttempts, c \in 1 .. RetryAttempts :
         [phase |-> "idle", retried |-> FALSE, round |-> k, provider |-> one, model |-> one,
          attempt |-> a, completion |-> c, result |-> "none"] \in CallRecords
  BY DEF CallRecords
<1>2. /\ 1 \in 1 .. Rounds /\ 1 \in 1 .. 2
      /\ 1 \in 1 .. BreakerAttempts /\ 1 \in 1 .. RetryAttempts
  <2>1. \A n \in Nat \ {0} : 1 \in 1 .. n
    OBVIOUS
  <2>2. 2 \in Nat \ {0}
    OBVIOUS
  <2> QED
    BY <2>1, <2>2, Bounds
<1> QED
  BY <1>1, <1>2, Zenon DEF Resting

LEMMA Starts ==
    \A r \in CallRecords : \A b \in BOOLEAN, k \in 1 .. Rounds :
        [r EXCEPT !.phase = "due", !.retried = b, !.round = k] \in CallRecords
BY DEF CallRecords

\* A call that has moved to a record of its own.
LEMMA Moved ==
    ASSUME CallTypeOK, NEW new \in CallRecords, call' = [call EXCEPT ![Me] = new]
    PROVE  call' \in [Callers -> CallRecords] /\ call'[Me] = new
BY Typed, Bounds

LEMMA Marked ==
    ASSUME CallTypeOK, NEW p \in ProviderNames, NEW m \in 1 .. 2, NEW how \in {"failed", "refused"},
           tried' = [tried EXCEPT ![Me] = @ \cup {<<p, m, how>>}]
    PROVE  /\ tried' \in [Callers -> SUBSET Marks]
           /\ tried'[Me] = tried[Me] \cup {<<p, m, how>>}
           /\ Under(tried'[Me], p, m)
           /\ \A q, i : Under(tried[Me], q, i) => Under(tried'[Me], q, i)
<1>1. /\ tried' \in [Callers -> SUBSET Marks]
      /\ tried'[Me] = tried[Me] \cup {<<p, m, how>>}
  BY Typed, Bounds DEF Marks
<1> QED
  BY <1>1 DEF Under

\* A model's failure sends the call to the next model, provider or round, or ends
\* it; either way the price of one model, and no more, is behind it.
LEMMA AfterFailure ==
    ASSUME CallTypeOK, Course, call[Me].phase \in {"due", "asking"},
           NEW how \in {"failed", "refused"}, ModelFails(Me, how), setup' = setup
    PROVE  /\ call' \in [Callers -> CallRecords]
           /\ tried' \in [Callers -> SUBSET Marks]
           /\ Course'
           /\ \/ call'[Me].phase = "due" /\ Before' >= Before + ModelCost
              \/ call'[Me].phase = "ended" /\ call'[Me].round = call[Me].round
<1> DEFINE r == call[Me]
<1>0. /\ Placed /\ Behind /\ Outcome /\ OneRound
      /\ r \in CallRecords /\ r.result = "none"
      /\ call \in [Callers -> CallRecords]
      /\ tried \in [Callers -> SUBSET Marks]
      /\ Me \in Callers
  <2>1. Placed /\ Behind /\ Outcome /\ OneRound
    BY DEF Course
  <2> QED
    BY <2>1, Typed, Bounds DEF Outcome
<1>r. r \in CallRecords /\ r.result = "none"
  BY <1>0
<1>a. /\ RoundCost \in Nat /\ RoundCost' = RoundCost
      /\ RoundCost = IF setup = "pair" THEN 3 * ModelCost ELSE 2 * ModelCost
      /\ ModelCost \in Nat /\ Before \in Nat
      /\ Before + ModelCost <= r.round * RoundCost
      /\ r.round * RoundCost \in Nat
  BY <1>0, Costs, Bounds DEF RoundCost
<1>b. r.round \in Nat \ {0} /\ (r.round - 1) * RoundCost \in Nat
  <2>1. r.round \in Nat \ {0}
    BY <1>0, Bounds DEF CallRecords
  <2> QED
    BY <1>a, <2>1, Times
<1>c. /\ Provider(Me) = IF r.provider = 1 THEN "primary" ELSE "secondary"
      /\ LastModel(Me) <=> r.provider = 2 \/ r.model = 2
      /\ LastProvider(Me) <=> r.provider = 2 \/ setup # "pair"
      /\ Provider(Me) \in ProviderNames
      /\ Routed <=> setup # "plain"
      /\ Routed' = Routed
  BY <1>0, Names DEF Routed
<1>d. r.model \in 1 .. 2
  BY <1>0 DEF CallRecords
\* The four ways on.
<1>1. \/ /\ ~LastModel(Me) /\ Tries(Me, how)
         /\ call' = [call EXCEPT ![Me] = [r EXCEPT !.phase = "due", !.model = r.model + 1]]
      \/ /\ LastModel(Me) /\ ~LastProvider(Me) /\ Tries(Me, how)
         /\ call' = [call EXCEPT ![Me] = [r EXCEPT !.phase = "due", !.provider = r.provider + 1,
                                                  !.model = 1]]
      \/ /\ LastModel(Me) /\ LastProvider(Me) /\ Tries(Me, how)
         /\ call' = [call EXCEPT ![Me] = [r EXCEPT !.phase = "ended", !.result = "error"]]
      \/ /\ LastModel(Me) /\ ~Routed /\ r.retried /\ r.round < Rounds
         /\ call' = [call EXCEPT ![Me] = [Resting EXCEPT !.phase = "due", !.retried = TRUE,
                                                        !.round = r.round + 1]]
         /\ tried' = [tried EXCEPT ![Me] = {}]
  BY <1>0 DEF ModelFails, ChatFails, NextProvider, NextRound, End
<1>2. CASE /\ ~LastModel(Me) /\ Tries(Me, how)
           /\ call' = [call EXCEPT ![Me] = [r EXCEPT !.phase = "due", !.model = r.model + 1]]
  <2> DEFINE new == [r EXCEPT !.phase = "due", !.model = r.model + 1]
  <2>1. r.provider = 1 /\ r.model = 1
    BY <1>0, <1>c, <1>2 DEF Placed
  <2>2. /\ new \in CallRecords /\ new.provider = 1 /\ new.model = 2 /\ new.phase = "due"
        /\ new.result = "none" /\ new.round = r.round /\ new.retried = r.retried
    <3>1. new = [r EXCEPT !.phase = "due", !.model = 2]
      BY <2>1
    <3> HIDE DEF new, r
    <3>2. new \in CallRecords
      <4>1. 1 \in 1 .. 2 /\ 2 \in 1 .. 2
        OBVIOUS
      <4> QED
        BY <1>r, <3>1, <4>1, Goes
    <3> QED
      BY <1>r, <2>1, <3>1, <3>2 DEF CallRecords
  <2>3. call' \in [Callers -> CallRecords] /\ call'[Me] = new
    <3> HIDE DEF new
    <3> QED
      BY <1>2, <2>2, Moved DEF new
  <2>4. /\ tried' \in [Callers -> SUBSET Marks]
        /\ Under(tried'[Me], "primary", 1)
    BY <1>2, <1>c, <1>d, <2>1, Marked DEF Tries
  <2> HIDE DEF new
  <2>5. Course'
    BY <1>0, <1>c, <2>2, <2>3, <2>4 DEF Course, Placed, Behind, Outcome, OneRound, GaveUp
  <2>6. Before' >= Before + ModelCost
    <3> DEFINE X == (r.round - 1) * RoundCost
    <3>1. Before' = X + ModelCost /\ Before = X
      BY <1>a, <1>b, <2>1, <2>2, <2>3 DEF Before, ModelCost
    <3> QED
      BY <1>a, <3>1
  <2> QED
    BY <2>2, <2>3, <2>4, <2>5, <2>6
<1>3. CASE /\ LastModel(Me) /\ ~LastProvider(Me) /\ Tries(Me, how)
           /\ call' = [call EXCEPT ![Me] = [r EXCEPT !.phase = "due", !.provider = r.provider + 1,
                                                    !.model = 1]]
  <2> DEFINE new == [r EXCEPT !.phase = "due", !.provider = r.provider + 1, !.model = 1]
  <2>1. r.provider = 1 /\ r.model = 2 /\ setup = "pair"
    BY <1>0, <1>c, <1>3 DEF Placed
  <2>2. /\ new \in CallRecords /\ new.provider = 2 /\ new.model = 1 /\ new.phase = "due"
        /\ new.result = "none" /\ new.round = r.round /\ new.retried = r.retried
    <3>1. new = [r EXCEPT !.phase = "due", !.provider = 2, !.model = 1]
      BY <2>1
    <3> HIDE DEF new, r
    <3>2. new \in CallRecords
      <4>1. 1 \in 1 .. 2 /\ 2 \in 1 .. 2
        OBVIOUS
      <4> QED
        BY <1>r, <3>1, <4>1, Goes
    <3> QED
      BY <1>r, <2>1, <3>1, <3>2 DEF CallRecords
  <2>3. call' \in [Callers -> CallRecords] /\ call'[Me] = new
    <3> HIDE DEF new
    <3> QED
      BY <1>3, <2>2, Moved DEF new
  <2>4. /\ tried' \in [Callers -> SUBSET Marks]
        /\ Under(tried'[Me], "primary", 2)
        /\ Under(tried[Me], "primary", 1) => Under(tried'[Me], "primary", 1)
    BY <1>3, <1>c, <1>d, <2>1, Marked DEF Tries
  <2> HIDE DEF new
  <2>5. Course'
    BY <1>0, <1>c, <2>1, <2>2, <2>3, <2>4 DEF Course, Placed, Behind, Outcome, OneRound, GaveUp
  <2>6. Before' >= Before + ModelCost
    <3> DEFINE X == (r.round - 1) * RoundCost
    <3>1. Before' = X + 2 * ModelCost /\ Before = X + ModelCost
      BY <1>a, <1>b, <2>1, <2>2, <2>3 DEF Before, ModelCost
    <3> QED
      BY <1>a, <1>b, <3>1
  <2> QED
    BY <2>2, <2>3, <2>4, <2>5, <2>6
<1>4. CASE /\ LastModel(Me) /\ LastProvider(Me) /\ Tries(Me, how)
           /\ call' = [call EXCEPT ![Me] = [r EXCEPT !.phase = "ended", !.result = "error"]]
  <2> DEFINE new == [r EXCEPT !.phase = "ended", !.result = "error"]
  <2>2. /\ new \in CallRecords /\ new.provider = r.provider /\ new.model = r.model
        /\ new.phase = "ended" /\ new.result = "error" /\ new.round = r.round
        /\ new.retried = r.retried
    BY <1>0 DEF CallRecords
  <2>3. call' \in [Callers -> CallRecords] /\ call'[Me] = new
    <3> HIDE DEF new
    <3> QED
      BY <1>4, <2>2, Moved DEF new
  <2>4. /\ tried' \in [Callers -> SUBSET Marks]
        /\ Under(tried'[Me], Provider(Me), r.model)
        /\ \A q, i : Under(tried[Me], q, i) => Under(tried'[Me], q, i)
    BY <1>4, <1>c, <1>d, Marked DEF Tries
  <2> HIDE DEF new
  <2>5. Course'
    <3>1. CASE r.provider = 1
      <4>1. r.model = 2 /\ setup # "pair" /\ Under(tried'[Me], "primary", 2)
        BY <1>c, <1>4, <2>4, <3>1
      <4>2. Under(tried'[Me], "primary", 1)
        BY <1>0, <2>4, <4>1 DEF Behind
      <4> QED
        BY <1>0, <1>c, <2>2, <2>3, <3>1, <4>1, <4>2
           DEF Course, Placed, Behind, Outcome, OneRound, GaveUp
    <3>2. CASE r.provider = 2
      <4>1. r.model = 1 /\ setup = "pair" /\ Under(tried'[Me], "secondary", 1)
        BY <1>0, <1>c, <2>4, <3>2 DEF Placed
      <4>2. Under(tried'[Me], "primary", 1) /\ Under(tried'[Me], "primary", 2)
        BY <1>0, <2>4, <3>2 DEF Behind
      <4> QED
        BY <1>0, <1>c, <2>2, <2>3, <3>2, <4>1, <4>2
           DEF Course, Placed, Behind, Outcome, OneRound, GaveUp
    <3> QED
      BY <1>0, <3>1, <3>2 DEF Placed
  <2> QED
    BY <2>2, <2>3, <2>4, <2>5
<1>5. CASE /\ LastModel(Me) /\ ~Routed /\ r.retried /\ r.round < Rounds
           /\ call' = [call EXCEPT ![Me] = [Resting EXCEPT !.phase = "due", !.retried = TRUE,
                                                          !.round = r.round + 1]]
           /\ tried' = [tried EXCEPT ![Me] = {}]
  <2> DEFINE new == [Resting EXCEPT !.phase = "due", !.retried = TRUE, !.round = r.round + 1]
  <2>1. r.round + 1 \in 1 .. Rounds
    BY <1>b, <1>5, Bounds
  <2>2. /\ new \in CallRecords /\ new.provider = 1 /\ new.model = 1 /\ new.phase = "due"
        /\ new.result = "none" /\ new.round = r.round + 1 /\ new.retried = TRUE
    <3>1. new \in CallRecords
      BY <2>1, AtRest, Starts
    <3> QED
      BY <3>1 DEF Resting
  <2>3. call' \in [Callers -> CallRecords] /\ call'[Me] = new
    <3> HIDE DEF new
    <3> QED
      BY <1>5, <2>2, Moved DEF new
  <2>4. tried' \in [Callers -> SUBSET Marks]
    BY <1>0, <1>5
  <2> HIDE DEF new
  <2>0. ~Routed'
    BY <1>c, <1>5
  <2>5. Course'
    BY <2>0, <2>2, <2>3 DEF Course, Placed, Behind, Outcome, OneRound, GaveUp
  <2>6. Before' >= Before + ModelCost
    <3>1. Before' = r.round * RoundCost
      BY <1>a, <1>b, <2>2, <2>3 DEF Before, ModelCost
    <3> QED
      BY <1>a, <3>1
  <2> QED
    BY <2>2, <2>3, <2>4, <2>5, <2>6
<1> QED
  BY <1>1, <1>2, <1>3, <1>4, <1>5

-----------------------------------------------------------------------------

\* A call that ends without a failure of its own, or goes on asking, keeps what is
\* behind it.
LEMMA KeepsCourse ==
    ASSUME CallTypeOK, Course, NEW new \in CallRecords, call' = [call EXCEPT ![Me] = new],
           call[Me].phase \in {"due", "asking"}, setup' = setup, tried' = tried,
           new.provider = call[Me].provider, new.model = call[Me].model,
           new.round = call[Me].round, new.retried = call[Me].retried,
           \/ new.phase = "asking" /\ new.result = "none"
           \/ new.phase = "ended" /\ new.result \in {"answer", "cancelled"}
    PROVE  /\ call' \in [Callers -> CallRecords] /\ call'[Me] = new
           /\ Course'
           /\ Before' = Before /\ RoundCost' = RoundCost
<1>1. call' \in [Callers -> CallRecords] /\ call'[Me] = new
  BY Moved
<1>2. Course'
  BY <1>1 DEF Course, Placed, Behind, Outcome, OneRound, GaveUp, Routed
<1>3. Before' = Before /\ RoundCost' = RoundCost
  BY <1>1 DEF Before, RoundCost, ModelCost
<1> QED
  BY <1>1, <1>2, <1>3

\* How much a call that is at a model may have requested so far.
LEMMA SpentSoFar ==
    ASSUME CallTypeOK, Course, Spent
    PROVE  /\ asked[Me] \in Nat
           /\ call[Me].phase = "due" => asked[Me] <= Before
           /\ call[Me].phase = "asking" => asked[Me] <= Before + ModelCost
           /\ call[Me].phase \in {"due", "asking"} =>
                  asked[Me] <= call[Me].round * RoundCost
<1> DEFINE A == (call[Me].attempt - 1) * RetryAttempts
           N == call[Me].round * RoundCost
<1>1. asked[Me] \in Nat
  BY Typed, Bounds
<1>2. /\ Before \in Nat /\ Before + ModelCost <= N /\ N \in Nat
      /\ ModelCost \in Nat
  BY Costs, Bounds DEF Course
<1>3. A \in Nat /\ A + call[Me].completion <= ModelCost
  BY AttemptCosts, Bounds
<1>4. call[Me].phase = "asking" => asked[Me] <= Before + A + call[Me].completion
  BY DEF Spent
<1>5. call[Me].phase = "due" => asked[Me] <= Before
  BY DEF Spent
<1>6. call[Me].completion \in Nat
  BY AttemptCosts, Bounds
<1> HIDE DEF A, N
<1>7. call[Me].phase = "asking" => asked[Me] <= Before + ModelCost
  BY <1>1, <1>2, <1>3, <1>4, <1>6
<1>8. call[Me].phase \in {"due", "asking"} => asked[Me] <= N
  BY <1>1, <1>2, <1>5, <1>7
<1> QED
  BY <1>1, <1>5, <1>7, <1>8 DEF N

\* The failure of a model leaves the call within its means.
LEMMA FailureSpent ==
    ASSUME CallInv, call[Me].phase \in {"due", "asking"}, setup' = setup, asked' = asked,
           NEW how \in {"failed", "refused"}, ModelFails(Me, how)
    PROVE  /\ call' \in [Callers -> CallRecords]
           /\ tried' \in [Callers -> SUBSET Marks]
           /\ Course' /\ Spent'
<1>1. CallTypeOK /\ Course /\ Spent
  BY DEF CallInv
<1>2. /\ call' \in [Callers -> CallRecords]
      /\ tried' \in [Callers -> SUBSET Marks]
      /\ Course'
      /\ \/ call'[Me].phase = "due" /\ Before' >= Before + ModelCost
         \/ call'[Me].phase = "ended" /\ call'[Me].round = call[Me].round
  BY <1>1, AfterFailure
<1>3. /\ asked[Me] \in Nat /\ asked[Me] <= Before + ModelCost
      /\ asked[Me] <= call[Me].round * RoundCost
      /\ Before \in Nat /\ ModelCost \in Nat
  BY <1>1, SpentSoFar, Costs, Bounds DEF Course
<1>4. RoundCost' = RoundCost
  BY DEF RoundCost
<1>5. ASSUME call'[Me].phase = "due", Before' >= Before + ModelCost
      PROVE  Spent'
  <2>1. asked[Me] <= Before'
    <3>1. Before' \in Int
      <4>1. /\ call'[Me] \in CallRecords
            /\ RoundCost \in Nat
        BY <1>1, <1>2, Bounds, Costs DEF Course
      <4> QED
        BY <4>1, <1>3, <1>4, Bounds DEF Before, CallRecords, ModelCost
    <3> QED
      BY <1>3, <1>5, <3>1
  <2> QED
    BY <1>5, <2>1 DEF Spent
<1>6. ASSUME call'[Me].phase = "ended", call'[Me].round = call[Me].round
      PROVE  Spent'
  <2>1. asked'[Me] <= call'[Me].round * RoundCost'
    BY <1>3, <1>4, <1>6
  <2> QED
    BY <1>6, <2>1 DEF Spent
<1> QED
  BY <1>2, <1>5, <1>6

-----------------------------------------------------------------------------

\* Each step of a call keeps the invariant.
LEMMA CallStepHolds ==
    ASSUME CallInv, CallStep(Me)
    PROVE  CallInv'
<1> DEFINE r == call[Me]
<1>0. /\ CallTypeOK /\ Course /\ Spent
      /\ Placed /\ Behind /\ Outcome
      /\ r \in CallRecords
      /\ setup \in {"plain", "fast", "pair"}
      /\ asked \in [Callers -> Nat]
      /\ willing \in [ProviderNames -> BOOLEAN]
      /\ tried \in [Callers -> SUBSET Marks]
      /\ Me \in Callers
  BY Typed, Bounds DEF CallInv, Course
<1>t. ASSUME call' \in [Callers -> CallRecords], tried' \in [Callers -> SUBSET Marks],
             willing' \in [ProviderNames -> BOOLEAN], asked' \in [Callers -> Nat],
             setup' = setup
      PROVE  CallTypeOK'
  BY <1>0, <1>t DEF CallTypeOK, CallRecords, Marks
<1>p. Provider(Me) \in ProviderNames
  BY <1>0, Names
<1>s. /\ asked[Me] \in Nat
      /\ r.phase = "due" => asked[Me] <= Before
      /\ r.phase \in {"due", "asking"} => asked[Me] <= r.round * RoundCost
  BY <1>0, SpentSoFar
<1>e. ASSUME NEW result \in {"answer", "cancelled"}, r.phase \in {"due", "asking"}, End(Me, result),
             UNCHANGED <<setup, asked, tried>>, willing' \in [ProviderNames -> BOOLEAN]
      PROVE  CallInv'
  <2> DEFINE new == [r EXCEPT !.phase = "ended", !.result = result]
  <2>1. /\ new \in CallRecords /\ call' = [call EXCEPT ![Me] = new]
        /\ new.phase = "ended" /\ new.result = result
        /\ new.provider = r.provider /\ new.model = r.model
        /\ new.round = r.round /\ new.retried = r.retried
    BY <1>0, <1>e DEF End, CallRecords
  <2> HIDE DEF new
  <2>2. /\ call' \in [Callers -> CallRecords] /\ call'[Me] = new
        /\ Course' /\ RoundCost' = RoundCost
    BY <1>0, <1>e, <2>1, KeepsCourse
  <2>3. Spent'
    <3>1. asked'[Me] <= call'[Me].round * RoundCost'
      BY <1>s, <1>e, <2>1, <2>2
    <3> QED
      BY <2>1, <2>2, <3>1 DEF Spent
  <2> QED
    BY <1>0, <1>e, <1>t, <2>2, <2>3 DEF CallInv
<1>f. ASSUME NEW how \in {"failed", "refused"}, ModelFails(Me, how), r.phase \in {"due", "asking"},
             UNCHANGED <<setup, asked>>, willing' \in [ProviderNames -> BOOLEAN]
      PROVE  CallInv'
  BY <1>0, <1>f, <1>t, FailureSpent DEF CallInv
\* One completion more, of the first attempt, the next attempt or the same one.
<1>a. ASSUME NEW a \in 1 .. BreakerAttempts, NEW k \in 1 .. RetryAttempts,
             r.phase \in {"due", "asking"}, r.result = "none",
             call' = [call EXCEPT ![Me] = [r EXCEPT !.phase = "asking", !.attempt = a,
                                                    !.completion = k]],
             Ask(Me), UNCHANGED <<setup, tried>>, willing' \in [ProviderNames -> BOOLEAN],
             asked[Me] + 1 <= Before + (a - 1) * RetryAttempts + k
      PROVE  CallInv'
  <2> DEFINE new == [r EXCEPT !.phase = "asking", !.attempt = a, !.completion = k]
  <2>1. /\ new \in CallRecords
        /\ new.phase = "asking" /\ new.result = "none"
        /\ new.provider = r.provider /\ new.model = r.model
        /\ new.round = r.round /\ new.retried = r.retried
        /\ new.attempt = a /\ new.completion = k
    BY <1>0, <1>a DEF CallRecords
  <2>0. call' = [call EXCEPT ![Me] = new]
    BY <1>a
  <2> HIDE DEF new
  <2>2. /\ call' \in [Callers -> CallRecords] /\ call'[Me] = new
        /\ Course' /\ Before' = Before
    BY <1>0, <1>a, <2>0, <2>1, KeepsCourse
  <2>3. asked' \in [Callers -> Nat] /\ asked'[Me] = asked[Me] + 1
    BY <1>0, <1>a DEF Ask
  <2>4. Spent'
    <3>1. asked'[Me] <= Before' + (call'[Me].attempt - 1) * RetryAttempts + call'[Me].completion
      BY <1>a, <2>1, <2>2, <2>3
    <3> QED
      BY <2>1, <2>2, <3>1 DEF Spent
  <2> QED
    BY <1>0, <1>a, <1>t, <2>2, <2>3, <2>4 DEF CallInv
<1>r. r.phase \in {"due", "asking"} => r.result = "none"
  BY <1>0 DEF Outcome
<1>1. CASE Refused(Me)
  <2>1. /\ r.phase = "due"
        /\ UNCHANGED <<setup, willing, asked>>
    BY <1>1 DEF Refused
  <2>2. CASE ~LastModel(Me)
    BY <1>0, <1>1, <1>f, <2>1, <2>2 DEF Refused
  <2>3. CASE LastModel(Me)
    <3> DEFINE how == IF Routed /\ r.retried THEN "error" ELSE "crash"
               new == [r EXCEPT !.phase = "ended", !.result = how]
    <3>1. /\ call' = [call EXCEPT ![Me] = new]
          /\ tried' = [tried EXCEPT ![Me] = @ \cup {<<Provider(Me), r.model, "refused">>}]
      BY <1>0, <1>1, <2>3 DEF Refused, End, Tries
    <3>2. how \in {"error", "crash"}
      OBVIOUS
    <3>3. /\ new \in CallRecords /\ new.phase = "ended" /\ new.result = how
          /\ new.provider = r.provider /\ new.model = r.model
          /\ new.round = r.round /\ new.retried = r.retried
      <4> HIDE DEF how
      <4> QED
        BY <1>0, <3>2 DEF CallRecords
    <3> HIDE DEF new, how
    <3>4. call' \in [Callers -> CallRecords] /\ call'[Me] = new
      BY <1>0, <3>1, <3>3, Moved
    <3>5. r.model \in 1 .. 2
      BY <1>0 DEF CallRecords
    <3>6. /\ tried' \in [Callers -> SUBSET Marks]
          /\ tried'[Me] = tried[Me] \cup {<<Provider(Me), r.model, "refused">>}
          /\ Under(tried'[Me], Provider(Me), r.model)
          /\ \A q, i : Under(tried[Me], q, i) => Under(tried'[Me], q, i)
      BY <1>0, <1>p, <3>1, <3>5, Marked
    <3>7. GaveUp'
      <4>1. CASE r.provider = 1
        <5>1. r.model = 2 /\ Provider(Me) = "primary"
          BY <1>0, <2>3, <4>1, Names
        <5>2. Under(tried'[Me], "primary", 1) /\ Under(tried'[Me], "primary", 2)
          BY <1>0, <2>1, <3>6, <5>1 DEF Behind
        <5>3. <<"primary", 2, "refused">> \in tried'[Me]
          BY <3>6, <5>1
        <5> QED
          BY <3>3, <3>4, <4>1, <5>2, <5>3 DEF GaveUp
      <4>2. CASE r.provider = 2
        <5>1. r.model = 1 /\ Provider(Me) = "secondary"
          BY <1>0, <4>2, Names DEF Placed
        <5>2. Under(tried'[Me], "primary", 1) /\ Under(tried'[Me], "primary", 2)
              /\ Under(tried'[Me], "secondary", 1)
          BY <1>0, <2>1, <3>6, <4>2, <5>1 DEF Behind
        <5>3. <<"secondary", 1, "refused">> \in tried'[Me]
          BY <3>6, <5>1
        <5> QED
          BY <3>3, <3>4, <4>2, <5>2, <5>3 DEF GaveUp
      <4> QED
        BY <1>0, <4>1, <4>2 DEF Placed
    <3>8. Course'
      BY <1>0, <2>1, <3>3, <3>4, <3>7 DEF Course, Placed, Behind, Outcome, OneRound, Routed
    <3>9. Spent'
      <4>1. RoundCost' = RoundCost /\ asked' = asked
        BY <2>1 DEF RoundCost
      <4>2. asked'[Me] <= call'[Me].round * RoundCost'
        BY <1>s, <2>1, <3>3, <3>4, <4>1
      <4> QED
        BY <3>3, <3>4, <4>2 DEF Spent
    <3> QED
      BY <1>0, <1>t, <2>1, <3>4, <3>6, <3>8, <3>9 DEF CallInv
  <2> QED
    BY <2>2, <2>3
<1>2. CASE Admitted(Me)
  <2>1. /\ r.phase = "due" /\ r.result = "none"
        /\ Ask(Me) /\ UNCHANGED <<setup, tried>>
    BY <1>2, <1>r DEF Admitted
  <2>2. willing' \in [ProviderNames -> BOOLEAN]
    BY <1>0, <1>2 DEF Admitted
  <2>3. PICK one \in (1 .. BreakerAttempts) \cap (1 .. RetryAttempts) : one = 1
    BY Bounds
  <2>4. call' = [call EXCEPT ![Me] = [r EXCEPT !.phase = "asking", !.attempt = one,
                                               !.completion = one]]
    BY <1>0, <1>2, <2>3 DEF Admitted
  <2>5. asked[Me] + 1 <= Before + (one - 1) * RetryAttempts + one
    <3>1. Before \in Nat /\ (one - 1) * RetryAttempts = 0
      BY <1>0, <2>3, Costs, Bounds
    <3> QED
      BY <1>s, <2>1, <2>3, <3>1
  <2> QED
    BY <1>a, <2>1, <2>2, <2>3, <2>4, <2>5
<1>3. CASE Answered(Me)
  <2>1. /\ r.phase = "asking" /\ UNCHANGED <<setup, asked>>
        /\ willing' \in [ProviderNames -> BOOLEAN]
        /\ \/ End(Me, "answer") /\ tried' = tried
           \/ ModelFails(Me, "failed")
    BY <1>0, <1>3 DEF Answered
  <2> QED
    BY <1>e, <1>f, <2>1
<1>4. CASE AskAgain(Me)
  <2>1. /\ r.phase = "asking" /\ r.completion < RetryAttempts /\ Ask(Me)
        /\ UNCHANGED <<setup, willing, tried>>
        /\ r.attempt \in 1 .. BreakerAttempts /\ r.completion \in 1 .. RetryAttempts
    BY <1>0, <1>4 DEF AskAgain, CallRecords
  <2>2. PICK k \in 1 .. RetryAttempts : k = r.completion + 1
    BY <2>1, Bounds
  <2>3. call' = [call EXCEPT ![Me] = [r EXCEPT !.phase = "asking", !.attempt = r.attempt,
                                               !.completion = k]]
    <3>1. call' = [call EXCEPT ![Me] = [r EXCEPT !.completion = k]]
      BY <1>0, <1>4, <2>2 DEF AskAgain
    <3>2. [r EXCEPT !.completion = k]
            = [r EXCEPT !.phase = "asking", !.attempt = r.attempt, !.completion = k]
      BY <1>0, <2>1 DEF CallRecords
    <3> QED
      BY <3>1, <3>2
  <2>4. asked[Me] <= Before + (r.attempt - 1) * RetryAttempts + r.completion
    BY <1>0, <2>1 DEF Spent
  <2>5. asked[Me] + 1 <= Before + (r.attempt - 1) * RetryAttempts + k
    <3> DEFINE A == (r.attempt - 1) * RetryAttempts
    <3>1. A \in Nat /\ Before \in Nat
      BY <1>0, AttemptCosts, Costs
    <3>2. asked[Me] <= Before + A + r.completion
      BY <2>4
    <3> HIDE DEF A
    <3>3. asked[Me] + 1 <= Before + A + k
      BY <1>s, <2>1, <2>2, <3>1, <3>2, Bounds
    <3> QED
      BY <3>3 DEF A
  <2> QED
    BY <1>0, <1>a, <1>r, <2>1, <2>2, <2>3, <2>5
<1>5. CASE AttemptFails(Me)
  <2>1. /\ r.phase = "asking" /\ setup' = setup
        /\ willing' \in [ProviderNames -> BOOLEAN]
        /\ r.attempt \in 1 .. BreakerAttempts /\ r.completion \in 1 .. RetryAttempts
    BY <1>0, <1>p, <1>5 DEF AttemptFails, CallRecords
  <2>2. CASE r.attempt < BreakerAttempts
    <3>1. Ask(Me) /\ tried' = tried
      BY <1>5, <2>2 DEF AttemptFails
    <3>2. PICK a \in 1 .. BreakerAttempts, k \in 1 .. RetryAttempts : a = r.attempt + 1 /\ k = 1
      BY <2>1, <2>2, Bounds
    <3>3. call' = [call EXCEPT ![Me] = [r EXCEPT !.phase = "asking", !.attempt = a,
                                                 !.completion = k]]
      <4>1. call' = [call EXCEPT ![Me] = [r EXCEPT !.attempt = a, !.completion = k]]
        BY <1>0, <1>5, <2>2, <3>2 DEF AttemptFails
      <4>2. [r EXCEPT !.attempt = a, !.completion = k]
              = [r EXCEPT !.phase = "asking", !.attempt = a, !.completion = k]
        BY <1>0, <2>1 DEF CallRecords
      <4> QED
        BY <4>1, <4>2
    <3>4. asked[Me] + 1 <= Before + (a - 1) * RetryAttempts + k
      <4> DEFINE A == (r.attempt - 1) * RetryAttempts
                 B == r.attempt * RetryAttempts
      <4>1. A \in Nat /\ Before \in Nat /\ B = A + RetryAttempts
        BY <1>0, AttemptCosts, Costs
      <4>2. asked[Me] <= Before + A + r.completion
        BY <1>0, <2>1 DEF Spent
      <4>3. (a - 1) * RetryAttempts = B
        <5>1. a - 1 = r.attempt
          BY <2>1, <3>2, Bounds
        <5> QED
          BY <5>1
      <4> HIDE DEF A, B
      <4>4. asked[Me] + 1 <= Before + B + k
        BY <1>s, <2>1, <3>2, <4>1, <4>2, Bounds
      <4> QED
        BY <4>3, <4>4
    <3> QED
      BY <1>a, <1>r, <2>1, <3>1, <3>2, <3>3, <3>4
  <2>3. CASE ~(r.attempt < BreakerAttempts)
    BY <1>5, <1>f, <2>1, <2>3 DEF AttemptFails
  <2> QED
    BY <2>2, <2>3
<1>6. CASE Cancel(Me)
  BY <1>0, <1>6, <1>e DEF Cancel
<1>7. CASE AnswerStored(Me)
  BY <1>0, <1>7, <1>e DEF AnswerStored
<1> QED
  BY <1>1, <1>2, <1>3, <1>4, <1>5, <1>6, <1>7 DEF CallStep

\* The turn begins a call, takes its outcome up, or lets it be; a breaker may
\* change its mind.
LEMMA BeginHolds ==
    ASSUME CallInv, NEW retried \in BOOLEAN, Call(Me, retried)
    PROVE  CallInv'
<1> DEFINE new == [Resting EXCEPT !.phase = "due", !.retried = retried]
<1>1. /\ call' = [call EXCEPT ![Me] = new] /\ call[Me].phase = "idle"
      /\ UNCHANGED <<setup, willing, asked, tried>>
  BY DEF Call
<1>2. /\ new.phase = "due" /\ new.result = "none" /\ new.round = 1
      /\ new.provider = 1 /\ new.model = 1
  BY DEF Resting
<1>3. new \in CallRecords
  <2>1. \A r \in CallRecords : [r EXCEPT !.phase = "due", !.retried = retried] \in CallRecords
    BY DEF CallRecords
  <2> QED
    BY <2>1, AtRest
<1> HIDE DEF new
<1>4. call' \in [Callers -> CallRecords] /\ call'[Me] = new
  BY <1>1, <1>3, Moved DEF CallInv
<1>5. CallTypeOK'
  BY <1>1, <1>4 DEF CallInv, CallTypeOK, CallRecords
<1>6. Course'
  BY <1>2, <1>4 DEF Course, Placed, Behind, Outcome, OneRound, GaveUp
<1>7. Spent'
  <2>1. Before' = (1 - 1) * RoundCost' + ((1 - 1) * 2 + (1 - 1)) * ModelCost
    BY <1>2, <1>4 DEF Before, ModelCost
  <2>2. asked'[Me] = 0 /\ RoundCost' \in Nat
    <3>1. RoundCost' = RoundCost
      BY <1>1 DEF RoundCost
    <3> QED
      BY <1>1, <3>1, Costs DEF CallInv, Course, Spent
  <2>3. asked'[Me] <= Before'
    <3>1. \A x, y \in Nat : (1 - 1) * x + ((1 - 1) * 2 + (1 - 1)) * y = 0
      OBVIOUS
    <3>2. Before' = 0
      BY <2>1, <2>2, <3>1, Bounds
    <3> QED
      BY <2>2, <3>2
  <2> QED
    BY <1>2, <1>4, <2>3 DEF Spent
<1> QED
  BY <1>5, <1>6, <1>7 DEF CallInv

LEMMA ForgetHolds ==
    ASSUME CallInv, Forget(Me)
    PROVE  CallInv'
<1>1. /\ call' = [call EXCEPT ![Me] = Resting]
      /\ asked' = [asked EXCEPT ![Me] = 0]
      /\ tried' = [tried EXCEPT ![Me] = {}]
      /\ UNCHANGED <<setup, willing>>
  BY DEF Forget
<1>2. call' \in [Callers -> CallRecords] /\ call'[Me] = Resting
  BY <1>1, Moved, AtRest DEF CallInv
<1>3. asked' \in [Callers -> Nat] /\ asked'[Me] = 0 /\ tried' \in [Callers -> SUBSET Marks]
  BY <1>1, Typed, Bounds DEF CallInv
<1>4. CallTypeOK'
  BY <1>1, <1>2, <1>3 DEF CallInv, CallTypeOK, CallRecords, Marks
<1>5. Course' /\ Spent'
  BY <1>2, <1>3 DEF Course, Placed, Behind, Outcome, OneRound, GaveUp, Spent, Resting
<1> QED
  BY <1>4, <1>5 DEF CallInv

LEMMA SwingHolds ==
    ASSUME CallInv, NEW p \in ProviderNames, Swing(p)
    PROVE  CallInv'
<1>1. /\ UNCHANGED <<setup, call, asked, tried>>
      /\ willing' \in [ProviderNames -> BOOLEAN]
  BY Typed DEF Swing, CallInv
<1>2. CallTypeOK'
  BY <1>1 DEF CallInv, CallTypeOK
<1>3. Course' /\ Spent'
  BY <1>1 DEF CallInv, Course, Placed, Behind, Outcome, OneRound, GaveUp, Routed, Spent,
              Before, RoundCost, ModelCost
<1> QED
  BY <1>2, <1>3 DEF CallInv

LEMMA CallUnchanged ==
    ASSUME CallInv, UNCHANGED callVars
    PROVE  CallInv'
BY DEF callVars, CallInv, CallTypeOK, Course, Placed, Behind, Outcome, OneRound, GaveUp, Routed,
       Spent, Before, RoundCost, ModelCost

-----------------------------------------------------------------------------

\* The turn's own variables and what turns share keep their ranges.
TurnTypeOK ==
    /\ program \in {"gateway", "api"}
    /\ turn \in [phase : Phases, text : Texts, iteration : Nat]
    /\ turn.iteration \in 1 .. Laps(turn.phase)
    /\ skillFor \in [Texts -> {"unset", "skill", "none"}]
    /\ asking \in [Texts -> 0 .. Others]
    /\ decided \in [Texts -> Nat]
    /\ cached \subseteq Texts
    /\ messages \in 0 .. MaxMessages

\* This turn may still decide a text.
Mine(x) == IF At("routing") /\ turn.text = x THEN 1 ELSE 0

Limit == IF program = "gateway" THEN 1 ELSE 1 + Others

\* The decisions made about a text and those still to come are limited, because nobody
\* asks once there is one; in the gateway nobody else asks at all.
Settling ==
    \A x \in Texts :
        /\ decided[x] + asking[x] + Mine(x) <= Limit
        /\ skillFor[x] = "unset" => decided[x] = 0
        /\ program = "gateway" => asking[x] = 0

TurnInv == TurnTypeOK /\ Settling

\* The steps of the turn itself.
OwnStep == (\E x \in Texts : Receive(x)) \/ TurnStep \/ StopRouting \/ Stop

\* The steps of others on what turns share.
OtherStep == \E x \in Texts : Expire(x) \/ OtherAsks(x) \/ OtherResolves(x) \/ OtherKeeps(x)

LEMMA StepsCalls ==
    ASSUME CallInv, OwnStep \/ OtherStep
    PROVE  CallInv'
<1>1. \/ UNCHANGED callVars
      \/ Forget(Me)
      \/ Call(Me, TRUE) \/ Call(Me, FALSE)
  BY DEF OwnStep, OtherStep, TurnStep, Receive, Expire, Recall, AskForSkill, RouteEnds,
         RouteDirectly, StopRouting, Stop, RunSkill, Look, Measure, Cut, Think, ThoughtEnds,
         RunTools, OtherAsks, OtherResolves, OtherKeeps
<1> QED
  BY <1>1, CallUnchanged, ForgetHolds, BeginHolds

\* Where a step of the turn leads: on to a phase that may come as often as it does.
LEMMA Lap ==
    ASSUME TurnTypeOK, OwnStep
    PROVE  /\ turn' \in [phase : Phases, text : Texts, iteration : Nat]
           /\ turn'.iteration \in 1 .. Laps(turn'.phase)
           /\ turn'.phase = "routing" => AskForSkill
<1> DEFINE Turns == [phase : Phases, text : Texts, iteration : Nat]
           New(p, i) == turn' = [turn EXCEPT !.phase = p, !.iteration = i]
           Fine == /\ turn' \in Turns
                   /\ turn'.iteration \in 1 .. Laps(turn'.phase)
                   /\ turn'.phase = "routing" => AskForSkill
<1>0. /\ turn \in Turns
      /\ turn.iteration \in 1 .. Laps(turn.phase)
      /\ MaxIterations \in Nat \ {0} /\ Consolidations \in Nat \ {0}
  BY TurnAssumption DEF TurnTypeOK
<1>1. ASSUME NEW p \in Phases \ {"routing"}, NEW i \in 1 .. Laps(p), New(p, i)
      PROVE  Fine
  <2>1. turn' \in Turns /\ turn'.phase = p /\ turn'.iteration = i
    <3>1. i \in Nat
      BY <1>0 DEF Laps
    <3> QED
      BY <1>0, <1>1, <3>1
  <2> QED
    BY <1>1, <2>1
<1>2. ASSUME NEW p \in Phases, Go(p)
      PROVE  New(p, turn.iteration)
  BY <1>0, <1>2 DEF Go
<1>3. /\ \A p \in Phases : 1 \in 1 .. Laps(p)
      /\ {"free", "skill", "looking", "measuring", "cutting", "calling", "thinking", "tools"}
             \subseteq Phases \ {"routing"}
  BY <1>0 DEF Laps, Phases
<1>4. TurnOver => Fine
  BY <1>1, <1>3 DEF TurnOver
<1>5. ASSUME NEW x \in Texts, Receive(x)
      PROVE  Fine
  <2>1. PICK p \in {"skill", "choosing"} : turn' = [phase |-> p, text |-> x, iteration |-> 1]
    BY <1>5 DEF Receive
  <2>2. p \in Phases /\ p # "routing" /\ 1 \in 1 .. Laps(p)
    BY <1>3 DEF Phases
  <2> QED
    BY <2>1, <2>2
<1>6. ASSUME NEW p \in {"skill", "looking", "measuring"}, Go(p),
             turn.phase \in {"choosing", "routing", "skill", "looking"}
      PROVE  Fine
  <2>1. turn.iteration = 1
    BY <1>0, <1>6 DEF Laps
  <2> QED
    BY <1>1, <1>2, <1>3, <1>6, <2>1
<1>7. CASE Recall \/ RunSkill \/ Look
  BY <1>4, <1>6, <1>7 DEF Recall, RunSkill, Look, At
<1>8. CASE AskForSkill
  <2>1. turn.iteration = 1 /\ turn.phase = "choosing" /\ Go("routing")
    BY <1>0, <1>8 DEF AskForSkill, At, Laps
  <2>2. "routing" \in Phases
    BY DEF Phases
  <2>3. turn' = [turn EXCEPT !.phase = "routing"]
    BY <2>1 DEF Go
  <2>4. turn' \in Turns /\ turn'.phase = "routing" /\ turn'.iteration = 1
    BY <1>0, <2>1, <2>2, <2>3
  <2> QED
    BY <1>3, <1>8, <2>2, <2>4
<1>9. CASE RouteEnds \/ RouteDirectly
  <2>1. At("routing") /\ \E p \in {"skill", "looking"} : Go(p)
    BY <1>9 DEF RouteEnds, RouteDirectly, Named, Resolve
  <2> QED
    BY <1>6, <2>1 DEF At
<1>10. CASE Measure
  <2>1. CASE Go("cutting")
    <3>1. turn.iteration \in 1 .. Laps("cutting")
      BY <1>0, <1>10 DEF Measure, At, Laps
    <3> QED
      BY <1>1, <1>2, <1>3, <2>1, <3>1
  <2>2. CASE New("calling", 1)
    BY <1>1, <1>3, <2>2
  <2> QED
    BY <1>10, <2>1, <2>2 DEF Measure
<1>11. CASE Cut
  <2>1. CASE /\ turn.iteration < Consolidations
             /\ New("measuring", turn.iteration + 1)
    <3>1. turn.iteration + 1 \in 1 .. Laps("measuring")
      BY <1>0, <2>1 DEF Laps
    <3> QED
      BY <1>1, <1>3, <2>1, <3>1
  <2>2. CASE New("calling", 1)
    BY <1>1, <1>3, <2>2
  <2> QED
    BY <1>4, <1>11, <2>1, <2>2 DEF Cut
<1>12. CASE Think \/ ThoughtEnds
  <2>1. \/ turn.phase \in {"calling", "thinking"} /\ \E p \in {"thinking", "tools"} : Go(p)
        \/ TurnOver
    BY <1>12 DEF Think, ThoughtEnds, At
  <2>2. ASSUME turn.phase \in {"calling", "thinking"}, NEW p \in {"thinking", "tools"}, Go(p)
        PROVE  Fine
    <3>1. turn.iteration \in 1 .. Laps(p)
      BY <1>0, <2>2 DEF Laps
    <3> QED
      BY <1>1, <1>2, <1>3, <2>2, <3>1
  <2> QED
    BY <1>4, <2>1, <2>2
<1>13. CASE RunTools
  <2>1. CASE /\ turn.iteration < MaxIterations
             /\ New("calling", turn.iteration + 1)
    <3>1. turn.iteration + 1 \in 1 .. Laps("calling")
      BY <1>0, <2>1 DEF Laps
    <3> QED
      BY <1>1, <1>3, <2>1, <3>1
  <2> QED
    BY <1>4, <1>13, <2>1 DEF RunTools
<1>14. CASE StopRouting \/ Stop
  BY <1>4, <1>14 DEF StopRouting, Stop
<1> QED
  BY <1>5, <1>7, <1>8, <1>9, <1>10, <1>11, <1>12, <1>13, <1>14 DEF OwnStep, TurnStep

\* What a step of the turn does to what turns share.
LEMMA Shares ==
    ASSUME TurnTypeOK, OwnStep
    PROVE  /\ UNCHANGED <<program, asking>>
           /\ messages' \in 0 .. MaxMessages /\ cached' \subseteq Texts
           /\ \/ UNCHANGED <<skillFor, decided>>
              \/ At("routing") /\ \E skill \in {"skill", "none"} : Remember(turn.text, skill)
<1>0. messages \in 0 .. MaxMessages /\ cached \subseteq Texts /\ turn.text \in Texts
      /\ MaxMessages \in Nat
  BY TurnAssumption DEF TurnTypeOK
<1>1. CASE \E x \in Texts : Receive(x)
  BY <1>0, <1>1 DEF Receive
<1>2. CASE RouteEnds \/ RouteDirectly
  BY <1>0, <1>2 DEF RouteEnds, RouteDirectly, Named, Resolve
<1>3. CASE ThoughtEnds \/ RunTools
  BY <1>0, <1>3 DEF ThoughtEnds, RunTools, Keep
<1>4. CASE Recall \/ AskForSkill \/ RunSkill \/ Look \/ Measure \/ Cut \/ Think
  BY <1>0, <1>4 DEF Recall, AskForSkill, RunSkill, Look, Measure, Cut, Think
<1>5. CASE StopRouting \/ Stop
  BY <1>0, <1>5 DEF StopRouting, Stop
<1> QED
  BY <1>1, <1>2, <1>3, <1>4, <1>5 DEF OwnStep, TurnStep

LEMMA OwnStepTyped ==
    ASSUME TurnTypeOK, OwnStep
    PROVE  TurnTypeOK'
<1>1. \/ UNCHANGED <<skillFor, decided>>
      \/ \E skill \in {"skill", "none"} : Remember(turn.text, skill)
  BY Shares
<1>2. skillFor' \in [Texts -> {"unset", "skill", "none"}] /\ decided' \in [Texts -> Nat]
  BY <1>1 DEF TurnTypeOK, Remember
<1> QED
  BY <1>2, Shares, Lap DEF TurnTypeOK

LEMMA OwnStepSettles ==
    ASSUME TurnInv, OwnStep
    PROVE  Settling'
<1> SUFFICES ASSUME NEW x \in Texts
             PROVE  /\ decided'[x] + asking'[x] + Mine(x)' <= Limit'
                    /\ skillFor'[x] = "unset" => decided'[x] = 0
                    /\ program' = "gateway" => asking'[x] = 0
  BY DEF Settling
<1>0. /\ decided[x] \in Nat /\ asking[x] \in 0 .. Others /\ Others \in Nat
      /\ turn.text \in Texts
      /\ skillFor \in [Texts -> {"unset", "skill", "none"}] /\ decided \in [Texts -> Nat]
      /\ decided[x] + asking[x] + Mine(x) <= Limit
      /\ skillFor[x] = "unset" => decided[x] = 0
      /\ program = "gateway" => asking[x] = 0
      /\ program \in {"gateway", "api"}
  BY TurnAssumption DEF TurnInv, TurnTypeOK, Settling
<1>1. UNCHANGED <<program, asking>> /\ Limit' = Limit /\ Limit \in Nat
  BY <1>0, Shares DEF TurnInv, Limit
<1>2. Mine(x) \in {0, 1} /\ Mine(x)' \in {0, 1}
  BY DEF Mine
<1>3. CASE AskForSkill
  <2>1. turn' = [turn EXCEPT !.phase = "routing"] /\ ~At("routing")
        /\ skillFor[turn.text] = "unset" /\ UNCHANGED <<skillFor, decided>>
    BY <1>3 DEF AskForSkill, Go, At
  <2>2. turn'.text = turn.text
    BY <2>1 DEF TurnInv, TurnTypeOK
  <2>3. CASE x = turn.text
    <3>1. decided[x] = 0
      BY <1>0, <2>1, <2>3
    <3> QED
      BY <1>0, <1>1, <1>2, <2>1, <3>1 DEF Limit
  <2>4. CASE x # turn.text
    <3>1. Mine(x)' = 0
      BY <2>2, <2>4 DEF Mine
    <3> QED
      BY <1>0, <1>1, <1>2, <2>1, <3>1
  <2> QED
    BY <2>3, <2>4
<1>4. CASE ~AskForSkill
  <2>1. Mine(x)' = 0
    BY <1>4, Lap DEF TurnInv, Mine, At
  <2>2. CASE UNCHANGED <<skillFor, decided>>
    BY <1>0, <1>1, <1>2, <2>1, <2>2
  <2>3. CASE At("routing") /\ \E skill \in {"skill", "none"} : Remember(turn.text, skill)
    <3>1. CASE x = turn.text
      <4>1. Mine(x) = 1 /\ decided'[x] = decided[x] + 1 /\ skillFor'[x] # "unset"
        BY <1>0, <2>3, <3>1 DEF Mine, Remember
      <4> QED
        BY <1>0, <1>1, <2>1, <4>1
    <3>2. CASE x # turn.text
      <4>1. decided'[x] = decided[x] /\ skillFor'[x] = skillFor[x]
        BY <1>0, <2>3, <3>2 DEF Remember
      <4> QED
        BY <1>0, <1>1, <1>2, <2>1, <4>1
    <3> QED
      BY <3>1, <3>2
  <2> QED
    BY <2>2, <2>3, Shares DEF TurnInv
<1> QED
  BY <1>3, <1>4

LEMMA OtherStepHolds ==
    ASSUME TurnInv, OtherStep
    PROVE  TurnInv'
<1>0. /\ TurnTypeOK /\ Settling /\ Others \in Nat
      /\ \A x \in Texts : Mine(x) \in {0, 1}
  BY TurnAssumption DEF TurnInv, Mine
<1>1. PICK y \in Texts : Expire(y) \/ OtherAsks(y) \/ OtherResolves(y) \/ OtherKeeps(y)
  BY DEF OtherStep
<1>2. /\ UNCHANGED <<program, turn, messages>> /\ cached' \subseteq Texts
      /\ Limit' = Limit /\ \A x \in Texts : Mine(x)' = Mine(x)
  BY <1>0, <1>1 DEF TurnTypeOK, Expire, OtherAsks, OtherResolves, OtherKeeps, Limit, Mine, At
<1>3. CASE Expire(y) \/ OtherKeeps(y)
  <2>1. UNCHANGED <<skillFor, asking, decided>>
    BY <1>3 DEF Expire, OtherKeeps
  <2> QED
    BY <1>0, <1>2, <2>1 DEF TurnInv, TurnTypeOK, Settling
<1>4. CASE OtherAsks(y)
  <2>1. /\ program = "api" /\ asking[y] < Others /\ skillFor[y] = "unset"
        /\ asking' = [asking EXCEPT ![y] = @ + 1] /\ UNCHANGED <<skillFor, decided>>
    BY <1>4 DEF OtherAsks
  <2>2. TurnTypeOK'
    <3>1. asking[y] + 1 \in 0 .. Others
      BY <1>0, <2>1 DEF TurnTypeOK
    <3>2. asking' \in [Texts -> 0 .. Others]
      BY <1>0, <2>1, <3>1 DEF TurnTypeOK
    <3> QED
      BY <1>0, <1>2, <2>1, <3>2 DEF TurnTypeOK
  <2>3. ASSUME NEW x \in Texts
        PROVE  decided'[x] + asking'[x] + Mine(x)' <= Limit'
    <3>1. CASE x = y
      <4>1. decided[x] = 0 /\ asking'[x] = asking[x] + 1 /\ Limit = 1 + Others
        BY <1>0, <2>1, <3>1 DEF Settling, TurnTypeOK, Limit
      <4> QED
        BY <1>0, <1>2, <2>1, <3>1, <4>1 DEF TurnTypeOK
    <3>2. CASE x # y
      BY <1>0, <1>2, <2>1, <3>2 DEF TurnTypeOK, Settling
    <3> QED
      BY <3>1, <3>2
  <2> QED
    BY <1>0, <1>2, <2>1, <2>2, <2>3 DEF TurnInv, Settling
<1>5. CASE OtherResolves(y)
  <2>1. /\ asking[y] > 0 /\ asking' = [asking EXCEPT ![y] = @ - 1]
        /\ \/ \E skill \in {"skill", "none"} : Remember(y, skill)
           \/ UNCHANGED <<skillFor, decided>>
    BY <1>5 DEF OtherResolves
  <2>2. TurnTypeOK'
    <3>1. asking[y] - 1 \in 0 .. Others
      BY <1>0, <2>1 DEF TurnTypeOK
    <3>2. asking' \in [Texts -> 0 .. Others]
      BY <1>0, <2>1, <3>1 DEF TurnTypeOK
    <3>3. skillFor' \in [Texts -> {"unset", "skill", "none"}] /\ decided' \in [Texts -> Nat]
      BY <1>0, <2>1 DEF TurnTypeOK, Remember
    <3> QED
      BY <1>0, <1>2, <3>2, <3>3 DEF TurnTypeOK
  <2>3. ASSUME NEW x \in Texts
        PROVE  /\ decided'[x] + asking'[x] + Mine(x)' <= Limit'
               /\ skillFor'[x] = "unset" => decided'[x] = 0
               /\ program' = "gateway" => asking'[x] = 0
    <3>0. /\ decided[x] \in Nat /\ asking[x] \in Nat
          /\ decided[x] + asking[x] + Mine(x) <= Limit
          /\ skillFor[x] = "unset" => decided[x] = 0
          /\ program = "gateway" => asking[x] = 0
          /\ Limit \in Nat
      BY <1>0 DEF TurnTypeOK, Settling, Limit
    <3>1. CASE x = y
      <4>1. asking'[x] = asking[x] - 1 /\ program # "gateway"
        BY <1>0, <2>1, <3>0, <3>1 DEF TurnTypeOK
      <4>2. CASE UNCHANGED <<skillFor, decided>>
        BY <1>0, <1>2, <3>0, <4>1, <4>2
      <4>3. CASE \E skill \in {"skill", "none"} : Remember(y, skill)
        <5>1. decided'[x] = decided[x] + 1 /\ skillFor'[x] # "unset"
          BY <1>0, <3>1, <4>3 DEF Remember, TurnTypeOK
        <5> QED
          BY <1>0, <1>2, <3>0, <4>1, <5>1
      <4> QED
        BY <2>1, <4>2, <4>3
    <3>2. CASE x # y
      <4>1. asking'[x] = asking[x] /\ decided'[x] = decided[x] /\ skillFor'[x] = skillFor[x]
        BY <1>0, <2>1, <3>2 DEF Remember, TurnTypeOK
      <4> QED
        BY <1>0, <1>2, <3>0, <4>1
    <3> QED
      BY <3>1, <3>2
  <2> QED
    BY <2>2, <2>3 DEF TurnInv, Settling
<1> QED
  BY <1>1, <1>3, <1>4, <1>5

-----------------------------------------------------------------------------

LEMMA InitHolds == Init => TurnInv /\ CallInv
<1> SUFFICES ASSUME Init PROVE TurnInv /\ CallInv
  OBVIOUS
<1>1. TurnInv
  <2>1. /\ 1 \in 1 .. 1 /\ 0 \in 0 .. MaxMessages /\ 0 \in 0 .. Others
        /\ Others \in Nat
    BY TurnAssumption
  <2>2. TurnTypeOK
    BY <2>1 DEF Init, TurnTypeOK, Phases, Laps
  <2>3. Settling
    BY <2>1 DEF Init, Settling, Mine, At, Limit
  <2> QED
    BY <2>2, <2>3 DEF TurnInv
<1>2. CallTypeOK
  <2>1. call \in [Callers -> CallRecords]
    BY AtRest DEF Init, CallInit
  <2> QED
    BY <2>1 DEF Init, CallInit, CallTypeOK, CallRecords
<1>3. Course /\ Spent
  <2>1. /\ call[Me] = Resting /\ asked[Me] = 0
    BY Bounds DEF Init, CallInit
  <2> QED
    BY <2>1 DEF Course, Placed, Behind, Outcome, OneRound, GaveUp, Spent, Resting
<1> QED
  BY <1>1, <1>2, <1>3 DEF CallInv

LEMMA NextHolds == TurnInv /\ CallInv /\ [Next]_vars => TurnInv' /\ CallInv'
<1> SUFFICES ASSUME TurnInv, CallInv, [Next]_vars PROVE TurnInv' /\ CallInv'
  OBVIOUS
<1>0. ASSUME UNCHANGED turnVars
      PROVE  TurnInv'
  <2>1. Limit' = Limit /\ \A x \in Texts : Mine(x)' = Mine(x)
    BY <1>0 DEF turnVars, Limit, Mine, At
  <2> QED
    BY <1>0, <2>1 DEF turnVars, TurnInv, TurnTypeOK, Settling
<1>1. CASE OwnStep
  BY <1>1, StepsCalls, OwnStepTyped, OwnStepSettles DEF TurnInv
<1>2. CASE OtherStep
  BY <1>2, StepsCalls, OtherStepHolds
<1>3. CASE CallStep(Me) /\ UNCHANGED turnVars
  BY <1>0, <1>3, CallStepHolds
<1>4. CASE (\E p \in ProviderNames : Swing(p)) /\ UNCHANGED turnVars
  BY <1>0, <1>4, SwingHolds
<1>5. CASE UNCHANGED vars
  BY <1>0, <1>5, CallUnchanged DEF vars
<1> QED
  BY <1>1, <1>2, <1>3, <1>4, <1>5 DEF Next, OwnStep, OtherStep

LEMMA Inductive == Spec => [](TurnInv /\ CallInv)
BY InitHolds, NextHolds, PTL DEF Spec

\* The turn and its call keep their shape and their ranges: no loop runs past its end.
THEOREM TurnTypeCorrect == Spec => []TypeOK
<1>1. TurnInv /\ CallInv => TypeOK
  BY DEF TurnInv, TurnTypeOK, CallInv, TypeOK
<1> QED
  BY <1>1, Inductive, PTL

\* Five nested loops never request more completions than their product, and a
\* router keeps chat_with_retry out of it.
THEOREM Bounded == Spec => []RetriesBounded
<1>1. CallInv => RetriesBounded
  <2> SUFFICES ASSUME CallInv
               PROVE  asked[Me] <= RoundCost * (IF call[Me].retried /\ ~Routed THEN Rounds ELSE 1)
    BY TurnAssumption DEF RetriesBounded, Me
  <2> DEFINE k == call[Me].round
  <2>1. /\ asked[Me] \in Nat /\ RoundCost \in Nat
        /\ k \in 1 .. Rounds /\ Rounds \in Nat \ {0}
        /\ call[Me].phase \in {"idle", "due", "asking", "ended"}
    BY SpentSoFar, Costs, Typed, Bounds DEF CallInv, Course, CallRecords
  <2>2. asked[Me] <= k * RoundCost
    <3>1. 0 <= k * RoundCost
      BY <2>1, Costs DEF CallInv, Course
    <3> QED
      BY <2>1, <3>1, SpentSoFar DEF CallInv, Spent
  <2>3. k * RoundCost <= RoundCost * Rounds
    <3>1. PICK d \in Nat : Rounds = k + d
      <4>1. Rounds - k \in Nat /\ Rounds = k + (Rounds - k)
        BY <2>1
      <4> QED
        BY <4>1
    <3> HIDE DEF k
    <3>2. RoundCost * Rounds = k * RoundCost + d * RoundCost /\ d * RoundCost \in Nat
      BY <2>1, <3>1
    <3>3. k * RoundCost \in Nat
      BY <2>1
    <3> QED
      BY <3>2, <3>3
  <2>4. ~(call[Me].retried /\ ~Routed) => k = 1
    BY <2>1 DEF CallInv, Course, OneRound
  <2>5. CASE call[Me].retried /\ ~Routed
    <3>1. k * RoundCost \in Nat /\ RoundCost * Rounds \in Nat
      <4> HIDE DEF k
      <4> QED
        BY <2>1
    <3> QED
      BY <2>1, <2>2, <2>3, <2>5, <3>1
  <2>6. CASE ~(call[Me].retried /\ ~Routed)
    BY <2>1, <2>2, <2>4, <2>6
  <2> QED
    BY <2>5, <2>6
<1> QED
  BY <1>1, Inductive, PTL

\* No call gives up before it has tried all the models it may, for any settings.
THEOREM TriesAll == Spec => []GivesUpLast
<1>1. CallInv => GivesUpLast
  <2> SUFFICES ASSUME CallInv, call[Me].result \in {"error", "crash"}
               PROVE  /\ \A k \in 1 .. call[Me].provider : Exhausted(Me, Providers[k])
                      /\ ~LastProvider(Me) \/ call[Me].result = "crash" =>
                             <<Provider(Me), Len(Models(Provider(Me))), "refused">> \in tried[Me]
    BY TurnAssumption DEF GivesUpLast, Me
  <2>1. Placed /\ GaveUp
    BY DEF CallInv, Course
  <2>2. /\ Providers[1] = "primary"
        /\ setup = "pair" => Providers[2] = "secondary"
        /\ Len(Models("primary")) = 2 /\ Len(Models("secondary")) = 1
    BY DEF Providers, Models
  <2>3. Under(tried[Me], "primary", 1) /\ Under(tried[Me], "primary", 2)
        /\ (call[Me].provider = 2 => Under(tried[Me], "secondary", 1))
    BY <2>1 DEF GaveUp
  <2>4. Exhausted(Me, "primary") /\ (call[Me].provider = 2 => Exhausted(Me, "secondary"))
    <3>1. \A i \in 1 .. 2 : i = 1 \/ i = 2
      OBVIOUS
    <3>2. \A i \in 1 .. 1 : i = 1
      OBVIOUS
    <3> QED
      BY <2>2, <2>3, <3>1, <3>2 DEF Exhausted, Under
  <2>5. \A k \in 1 .. call[Me].provider : Exhausted(Me, Providers[k])
    <3>1. CASE call[Me].provider = 1
      BY <2>2, <2>4, <3>1
    <3>2. CASE call[Me].provider = 2 /\ setup = "pair"
      <4>1. \A k \in 1 .. 2 : k = 1 \/ k = 2
        OBVIOUS
      <4> QED
        BY <2>2, <2>4, <3>2, <4>1
    <3> QED
      BY <2>1, <3>1, <3>2 DEF Placed
  <2>6. ~LastProvider(Me) \/ call[Me].result = "crash" =>
            <<Provider(Me), Len(Models(Provider(Me))), "refused">> \in tried[Me]
    <3> SUFFICES ASSUME ~LastProvider(Me) \/ call[Me].result = "crash"
                 PROVE  <<Provider(Me), Len(Models(Provider(Me))), "refused">> \in tried[Me]
      OBVIOUS
    <3>0. /\ Provider(Me) = IF call[Me].provider = 1 THEN "primary" ELSE "secondary"
          /\ LastProvider(Me) <=> call[Me].provider = 2 \/ setup # "pair"
      BY <2>1, Names
    <3>1. CASE call[Me].provider = 1
      <4>1. Provider(Me) = "primary" /\ Len(Models(Provider(Me))) = 2
        BY <2>2, <3>0, <3>1
      <4>2. <<"primary", 2, "refused">> \in tried[Me]
        BY <2>1, <3>0, <3>1 DEF GaveUp
      <4> QED
        BY <4>1, <4>2
    <3>2. CASE call[Me].provider = 2
      <4>1. Provider(Me) = "secondary" /\ Len(Models(Provider(Me))) = 1
        BY <2>2, <3>0, <3>2
      <4>2. <<"secondary", 1, "refused">> \in tried[Me]
        BY <2>1, <3>0, <3>2 DEF GaveUp
      <4> QED
        BY <4>1, <4>2
    <3> QED
      BY <2>1, <3>1, <3>2 DEF Placed
  <2> QED
    BY <2>5, <2>6
<1> QED
  BY <1>1, Inductive, PTL

\* A text is decided once in the gateway, and in the API once for each of the turns that
\* can overlap at most, for any number of them and any texts, whatever the models do:
\* however the awaits between the router's check and its store interleave, nobody asks
\* about a text that has been decided (router.py:206, 248-292).
THEOREM RoutingIsSettled == Spec => []RoutingSettles
<1>1. TurnInv => RoutingSettles
  <2> SUFFICES ASSUME TurnInv, NEW x \in Texts
               PROVE  decided[x] <= IF program = "gateway" THEN 1 ELSE 1 + Others
    BY DEF RoutingSettles
  <2>1. /\ decided[x] \in Nat /\ asking[x] \in Nat /\ Limit \in Nat
        /\ decided[x] + asking[x] + Mine(x) <= Limit
    BY TurnAssumption DEF TurnInv, TurnTypeOK, Settling, Limit
  <2>2. Mine(x) \in {0, 1}
    BY DEF Mine
  <2>3. decided[x] <= Limit
    BY <2>1, <2>2
  <2> QED
    BY <2>3 DEF Limit
<1> QED
  BY <1>1, Inductive, PTL
=============================================================================

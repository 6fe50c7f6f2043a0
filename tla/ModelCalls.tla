------------------------------ MODULE ModelCalls ------------------------------
(***************************************************************************)
(* How the bot asks a model (core/providers/).  get_provider builds a      *)
(* primary provider with a fallback model and, when a secondary or a fast  *)
(* model is configured, a MultiLLMRouter before it.  Three loops are       *)
(* nested in one call: the router goes through its providers, a provider   *)
(* through its models, the provider's circuit breaker through its          *)
(* attempts; _completion_with_retry retries inside an attempt and          *)
(* chat_with_retry around it all.  Callers share the providers and their   *)
(* breakers.                                                               *)
(*                                                                         *)
(* A breaker is the one of module CircuitBreaker as its callers see it:    *)
(* willing to let a call in or not.  The pauses between attempts change    *)
(* nothing and are left out.  A request to a model is one completion,      *)
(* which answers, raises, or is cut off by the attempt's time limit.       *)
(***************************************************************************)
EXTENDS Integers, Sequences

CONSTANTS
    Callers,         \* the tasks that call a model, one call each at a time
    RetryAttempts,   \* settings.llm.retry_attempts
    MaxAttempts,     \* the cap on a breaker's attempts, 3 in LiteLLMProvider.chat
    Rounds           \* the rounds of chat_with_retry, 4: three delays and a last try

ASSUME CallAssumption ==
    /\ RetryAttempts \in Nat \ {0}
    /\ MaxAttempts \in Nat \ {0}
    /\ Rounds \in Nat \ {0}

VARIABLES
    setup,      \* what get_provider built: "plain", "fast" (a router before the primary
                \* alone) or "pair" (a router before both)
    call,       \* where each caller's call is
    willing,    \* each provider's breaker lets a call in
    asked,      \* the completions each call has requested
    tried       \* how each model of each provider ended in the call's last round

callVars == <<setup, call, willing, asked, tried>>

ProviderNames == {"primary", "secondary"}

\* The providers of the router in their order, or the only one.
Providers == IF setup = "pair" THEN <<"primary", "secondary">> ELSE <<"primary">>

Routed == setup # "plain"

\* The models a provider is asked for.  Every caller passes the bot's own model,
\* and the router hands it on to the secondary too, instead of the model the
\* secondary is configured with; only the primary has a fallback model (taken to be
\* another than its own, as the default settings have it).
Models(p) == IF p = "primary" THEN <<"main", "spare">> ELSE <<"main">>

BreakerAttempts == IF RetryAttempts + 1 < MaxAttempts THEN RetryAttempts + 1 ELSE MaxAttempts

Resting == [phase |-> "idle", retried |-> FALSE, round |-> 1, provider |-> 1, model |-> 1,
            attempt |-> 1, completion |-> 1, result |-> "none"]

CallInit ==
    /\ setup \in {"plain", "fast", "pair"}
    /\ call = [c \in Callers |-> Resting]
    /\ willing = [p \in ProviderNames |-> TRUE]
    /\ asked = [c \in Callers |-> 0]
    /\ tried = [c \in Callers |-> {}]

Provider(c) == Providers[call[c].provider]
LastModel(c) == call[c].model = Len(Models(Provider(c)))
LastProvider(c) == call[c].provider = Len(Providers)

Tries(c, how) ==
    tried' = [tried EXCEPT ![c] = @ \cup {<<Provider(c), call[c].model, how>>}]

-----------------------------------------------------------------------------

\* provider.chat, or chat_with_retry if retried.
Call(c, retried) ==
    /\ call[c].phase = "idle"
    /\ call' = [call EXCEPT ![c] = [Resting EXCEPT !.phase = "due", !.retried = retried]]
    /\ UNCHANGED <<setup, willing, asked, tried>>

\* The caller has taken the outcome up.
Forget(c) ==
    /\ call' = [call EXCEPT ![c] = Resting]
    /\ asked' = [asked EXCEPT ![c] = 0]
    /\ tried' = [tried EXCEPT ![c] = {}]
    /\ UNCHANGED <<setup, willing>>

\* The outcome of the whole call.
End(c, result) ==
    call' = [call EXCEPT ![c].phase = "ended", ![c].result = result]

\* _try_provider has no answer of its provider: the router goes to the next one.
NextProvider(c, how) ==
    /\ ~LastProvider(c)
    /\ call' = [call EXCEPT ![c].phase = "due", ![c].provider = @ + 1, ![c].model = 1]
    /\ Tries(c, how)

\* chat_with_retry starts again after a transient error, while it has a round left.
\* The router's last word, "LLM unavailable", is none.
NextRound(c) ==
    /\ ~Routed /\ call[c].retried /\ call[c].round < Rounds
    /\ call' = [call EXCEPT ![c] = [Resting EXCEPT !.phase = "due", !.retried = TRUE,
                                                  !.round = call[c].round + 1]]
    /\ tried' = [tried EXCEPT ![c] = {}]

\* A provider's chat returned an error.
ChatFails(c, how) ==
    \/ NextProvider(c, how)
    \/ LastProvider(c) /\ End(c, "error") /\ Tries(c, how)
    \/ NextRound(c)

\* mutation: the failure of a model is that of its provider.
ModelFailsAtOnce(c, how) == ChatFails(c, how)

\* A model failed for good: the provider's next one, if it has one.
ModelFails(c, how) ==
    IF LastModel(c)
    THEN ChatFails(c, how)
    ELSE /\ call' = [call EXCEPT ![c].phase = "due", ![c].model = @ + 1]
         /\ Tries(c, how)

\* The breaker is open.  On the last model the loop of chat runs out and returns
\* None, which is an error to nobody: the router and the callers of a plain
\* provider fail on it.  _safe_chat turns the router's failure into an error.
Refused(c) ==
    /\ call[c].phase = "due"
    /\ ~willing[Provider(c)]
    /\ IF LastModel(c)
       THEN /\ End(c, IF Routed /\ call[c].retried THEN "error" ELSE "crash")
            /\ Tries(c, "refused")
       ELSE ModelFails(c, "refused")
    /\ UNCHANGED <<setup, willing, asked>>

Ask(c) == asked' = [asked EXCEPT ![c] = @ + 1]

\* The breaker lets the call in, perhaps as the last one it lets in.
Admitted(c) ==
    /\ call[c].phase = "due"
    /\ willing[Provider(c)]
    /\ \E w \in BOOLEAN : willing' = [willing EXCEPT ![Provider(c)] = w]
    /\ call' = [call EXCEPT ![c].phase = "asking", ![c].attempt = 1, ![c].completion = 1]
    /\ Ask(c)
    /\ UNCHANGED <<setup, tried>>

\* The completion answers: the call has its answer, or the answer has no choices
\* and the model counts as failed although its breaker saw a success.
Answered(c) ==
    /\ call[c].phase = "asking"
    /\ willing' = [willing EXCEPT ![Provider(c)] = TRUE]
    /\ \/ End(c, "answer") /\ UNCHANGED tried
       \/ ModelFails(c, "failed")
    /\ UNCHANGED <<setup, asked>>

\* mutation: a retry does not count.
AskAgainUncounted(c) ==
    /\ call[c].phase = "asking"
    /\ Ask(c)
    /\ UNCHANGED <<setup, call, willing, tried>>

\* A transient error inside an attempt: _completion_with_retry asks again.
AskAgain(c) ==
    /\ call[c].phase = "asking"
    /\ call[c].completion < RetryAttempts
    /\ call' = [call EXCEPT ![c].completion = @ + 1]
    /\ Ask(c)
    /\ UNCHANGED <<setup, willing, tried>>

\* The attempt fails or runs out of time, and the breaker may open over it.  The
\* breaker is not consulted again before its next attempt.
AttemptFails(c) ==
    /\ call[c].phase = "asking"
    /\ \E w \in {willing[Provider(c)], FALSE} : willing' = [willing EXCEPT ![Provider(c)] = w]
    /\ IF call[c].attempt < BreakerAttempts
       THEN /\ call' = [call EXCEPT ![c].attempt = @ + 1, ![c].completion = 1]
            /\ Ask(c)
            /\ UNCHANGED tried
       ELSE ModelFails(c, "failed") /\ UNCHANGED asked
    /\ UNCHANGED setup

\* The calling task is cancelled: by /stop, by the router's deadline, at shutdown.
Cancel(c) ==
    /\ call[c].phase \in {"due", "asking"}
    /\ End(c, "cancelled")
    /\ UNCHANGED <<setup, willing, asked, tried>>

\* LiteLLMProvider.chat without tools answers from Redis what it once answered to
\* the same prompt, without asking its breaker.
AnswerStored(c) ==
    /\ call[c].phase = "due" /\ call[c].retried /\ call[c].model = 1
    /\ End(c, "answer")
    /\ UNCHANGED <<setup, willing, asked, tried>>

\* A breaker changes its mind: its recovery time is over, somebody's probe has
\* succeeded, or other tasks' failures opened it.
Swing(p) ==
    /\ willing' = [willing EXCEPT ![p] = ~@]
    /\ UNCHANGED <<setup, call, asked, tried>>

CallStep(c) ==
    \/ Refused(c) \/ Admitted(c) \/ Answered(c) \/ AskAgain(c) \/ AttemptFails(c)
    \/ AnswerStored(c) \/ Cancel(c)

-----------------------------------------------------------------------------

CallTypeOK ==
    /\ setup \in {"plain", "fast", "pair"}
    /\ call \in [Callers -> [phase : {"idle", "due", "asking", "ended"}, retried : BOOLEAN,
                             round : 1 .. Rounds, provider : 1 .. 2, model : 1 .. 2,
                             attempt : 1 .. BreakerAttempts, completion : 1 .. RetryAttempts,
                             result : {"none", "answer", "error", "crash", "cancelled"}]]
    /\ willing \in [ProviderNames -> BOOLEAN]
    /\ asked \in [Callers -> Nat]
    /\ tried \in [Callers -> SUBSET (ProviderNames \X (1 .. 2) \X {"failed", "refused"})]

\* The most completions one round can request.
RoundCost ==
    BreakerAttempts * RetryAttempts * (IF setup = "pair" THEN 3 ELSE 2)

\* However the five loops play together, one call requests a bounded number of
\* completions; and chat_with_retry adds nothing to it when a router is
\* configured, whose last word is never a transient error.
RetriesBounded ==
    \A c \in Callers :
        asked[c] <= RoundCost * (IF call[c].retried /\ ~Routed THEN Rounds ELSE 1)

\* The models of a provider have all been tried.
Exhausted(c, p) ==
    \A i \in 1 .. Len(Models(p)) : \E how \in {"failed", "refused"} : <<p, i, how>> \in tried[c]

\* A call never gives up early.  A call that ends without an answer has tried
\* every model of the provider it ended at and of those before it; and it ends
\* before the secondary only if the primary's breaker refused its last model.
GivesUpLast ==
    \A c \in Callers : call[c].result \in {"error", "crash"} =>
        /\ \A k \in 1 .. call[c].provider : Exhausted(c, Providers[k])
        /\ ~LastProvider(c) \/ call[c].result = "crash" =>
               <<Provider(c), Len(Models(Provider(c))), "refused">> \in tried[c]

\* chat returns an LLMResponse, as its signature says (base.py:114): no call
\* leaves its caller without one.
AlwaysResponds == \A c \in Callers : call[c].result # "crash"
=============================================================================

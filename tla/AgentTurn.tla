------------------------------- MODULE AgentTurn -------------------------------
(***************************************************************************)
(* What a turn of the agent asks of the models (core/agent/loop.py,        *)
(* segyr_bot/skills/router.py): it looks for a skill, by itself and then   *)
(* with a model; runs the skill; or else answers from the reply cache in   *)
(* Redis, or cuts a session that has grown too long and answers by up to   *)
(* MaxIterations model calls, tools in between.                            *)
(*                                                                         *)
(* The gateway runs its turns one at a time under the processing lock.  In *)
(* the API process they overlap: process_direct takes no lock.  One turn   *)
(* is followed from end to end; of those that overlap it there is what     *)
(* they do to what turns share: the router's memory, with the await        *)
(* between its check and its store, the reply cache and the breakers.      *)
(* What a turn does to the session is module Conversation's matter.        *)
(***************************************************************************)
EXTENDS ModelCalls

CONSTANTS
    Texts,           \* what users write
    MaxIterations,   \* settings.agent.max_iterations
    Consolidations,  \* the calls of one consolidation, 10: two in each of its rounds
    Others,          \* bound: turns of one text that overlap this one in the API
    MaxMessages      \* bound: messages dealt with by this turn's task

\* Of the callers of module ModelCalls this one follows one task that runs turns.
ASSUME TurnAssumption ==
    /\ Callers = {"turn"}
    /\ MaxIterations \in Nat \ {0}
    /\ Consolidations \in Nat \ {0}
    /\ Others \in Nat
    /\ MaxMessages \in Nat

VARIABLES
    program,    \* the process it is: the gateway or the API
    turn,       \* the turn: its phase, its text, its iteration
    skillFor,   \* _llm_cache of the skills router
    asking,     \* overlapping turns that have asked the router's model about a text
    decided,    \* history: how often the router has stored what came of a text
    cached,     \* texts (of a session and chat) whose reply is in the reply cache
    messages    \* how many messages were taken up

turnVars == <<program, turn, skillFor, asking, decided, cached, messages>>

vars == <<callVars, turnVars>>

Phases == {"free", "choosing", "routing", "skill", "looking", "measuring", "cutting",
           "calling", "thinking", "tools"}

Me == "turn"

Init ==
    /\ CallInit
    /\ program \in {"gateway", "api"}
    /\ turn \in [phase : {"free"}, text : Texts, iteration : {1}]
    /\ skillFor = [x \in Texts |-> "unset"]
    /\ asking = [x \in Texts |-> 0]
    /\ decided = [x \in Texts |-> 0]
    /\ cached = {}
    /\ messages = 0

At(phase) == turn.phase = phase
Go(phase) == turn' = [turn EXCEPT !.phase = phase]

\* The turn has its reply, if any, and in the gateway gives the lock back.
TurnOver == turn' = [turn EXCEPT !.phase = "free", !.iteration = 1]

-----------------------------------------------------------------------------

\* The next message.  resolve_local finds a skill for it or does not.
Receive(x) ==
    /\ At("free") /\ messages < MaxMessages
    /\ messages' = messages + 1
    /\ \E found \in BOOLEAN :
         turn' = [phase |-> IF found THEN "skill" ELSE "choosing", text |-> x, iteration |-> 1]
    /\ UNCHANGED <<callVars, program, skillFor, asking, decided, cached>>

\* resolve_with_llm remembers what came of this text.
Recall ==
    /\ At("choosing")
    /\ skillFor[turn.text] # "unset"
    /\ Go(IF skillFor[turn.text] = "skill" THEN "skill" ELSE "looking")
    /\ UNCHANGED <<callVars, program, skillFor, asking, decided, cached, messages>>

\* mutation: only a skill that was found is remembered.
AskForSkillAgain ==
    /\ At("choosing")
    /\ skillFor[turn.text] # "skill"
    /\ Go("routing")
    /\ Call(Me, TRUE) \/ UNCHANGED callVars
    /\ UNCHANGED <<program, skillFor, asking, decided, cached, messages>>

\* It does not, and asks: the provider under its deadline, or Ollama by itself.
AskForSkill ==
    /\ At("choosing")
    /\ skillFor[turn.text] = "unset"
    /\ Go("routing")
    /\ Call(Me, TRUE) \/ UNCHANGED callVars
    /\ UNCHANGED <<program, skillFor, asking, decided, cached, messages>>

\* What it remembers: the skill that is named, or that there is none, over whatever
\* another turn has stored for this text since the one that stores asked.
Remember(x, skill) ==
    /\ skillFor' = [skillFor EXCEPT ![x] = skill]
    /\ decided' = [decided EXCEPT ![x] = @ + 1]

Resolve(skill) ==
    /\ Remember(turn.text, skill)
    /\ Go(IF skill = "skill" THEN "skill" ELSE "looking")

\* The text that came back names a skill or not, also if it is that of an error; an
\* exception and the deadline name none.
Named(result) ==
    \E skill \in {"skill", "none"} :
        /\ skill = "skill" => result \in {"answer", "error"}
        /\ Resolve(skill)

RouteEnds ==
    /\ At("routing") /\ call[Me].phase = "ended"
    /\ Named(call[Me].result)
    /\ Forget(Me)
    /\ UNCHANGED <<program, asking, cached, messages>>

\* Ollama's own endpoint answered, or did not; or the answer was stored in Redis
\* by an earlier life of the process.
RouteDirectly ==
    /\ At("routing") /\ call[Me].phase = "idle"
    /\ \E result \in {"answer", "crash"} : Named(result)
    /\ UNCHANGED <<callVars, program, asking, cached, messages>>

\* The skill gives the reply, or raises and leaves it to the model.
RunSkill ==
    /\ At("skill")
    /\ TurnOver \/ Go("looking")
    /\ UNCHANGED <<callVars, program, skillFor, asking, decided, cached, messages>>

\* The reply cache has one for this text; or it has none, or Redis does not say.
Look ==
    /\ At("looking")
    /\ \/ turn.text \in cached /\ TurnOver
       \/ Go("measuring")
    /\ UNCHANGED <<callVars, program, skillFor, asking, decided, cached, messages>>

\* maybe_consolidate_by_tokens: the session is short enough, or a model is to sum up
\* its beginning.
Measure ==
    /\ At("measuring")
    /\ \/ Go("cutting") /\ Call(Me, TRUE)
       \/ turn' = [turn EXCEPT !.phase = "calling", !.iteration = 1] /\ UNCHANGED callVars
    /\ UNCHANGED <<program, skillFor, asking, decided, cached, messages>>

\* The model has summed up, or failed to: it is asked again, for the next round or
\* without being forced to, or no more.  A cancelled task goes no further.
Cut ==
    /\ At("cutting") /\ call[Me].phase = "ended"
    /\ Forget(Me)
    /\ IF call[Me].result = "cancelled" THEN TurnOver
       ELSE \/ /\ turn.iteration < Consolidations
               /\ turn' = [turn EXCEPT !.phase = "measuring", !.iteration = @ + 1]
            \/ turn' = [turn EXCEPT !.phase = "calling", !.iteration = 1]
    /\ UNCHANGED <<program, skillFor, asking, decided, cached, messages>>

Think ==
    /\ At("calling")
    /\ Call(Me, FALSE)
    /\ Go("thinking")
    /\ UNCHANGED <<program, skillFor, asking, decided, cached, messages>>

\* The reply is kept for cache_ttl, if Redis takes it; _is_cacheable_response
\* refuses none of them.
Keep == cached' = cached \cup {turn.text} \/ UNCHANGED cached

\* One model call of _run_agent_loop is over: it asked for tools, or answered, or
\* failed, or raised out of the turn.
ThoughtEnds ==
    /\ At("thinking") /\ call[Me].phase = "ended"
    /\ Forget(Me)
    /\ LET result == call[Me].result IN
       \/ result = "answer" /\ Go("tools") /\ UNCHANGED cached
       \/ result \in {"answer", "error"} /\ TurnOver /\ Keep
       \/ result \in {"crash", "cancelled"} /\ TurnOver /\ UNCHANGED cached
    /\ UNCHANGED <<program, skillFor, asking, decided, messages>>

\* mutation: an iteration that ran tools is not counted.
RunToolsUncounted ==
    /\ At("tools")
    /\ Go("calling") \/ TurnOver
    /\ UNCHANGED <<callVars, program, skillFor, asking, decided, cached, messages>>

\* The tools have run; each gave a text, if only that of its error or of its time
\* limit.  The loop goes on, or is at its end and says so; or the outbound queue was
\* full for a message about its progress, which raises out of the turn.
RunTools ==
    /\ At("tools")
    /\ \/ /\ turn.iteration < MaxIterations
          /\ turn' = [turn EXCEPT !.phase = "calling", !.iteration = @ + 1]
          /\ UNCHANGED cached
       \/ turn.iteration = MaxIterations /\ TurnOver /\ Keep
       \/ TurnOver /\ UNCHANGED cached
    /\ UNCHANGED <<callVars, program, skillFor, asking, decided, messages>>

\* The turn's task is cancelled, by /stop or with the request it serves, while it asks
\* for a skill: nothing is remembered.
StopRouting ==
    /\ At("routing") /\ call[Me].phase = "ended" /\ call[Me].result = "cancelled"
    /\ Forget(Me)
    /\ TurnOver
    /\ UNCHANGED <<program, skillFor, asking, decided, cached, messages>>

\* It is cancelled at another await: of Ollama's endpoint, a skill, Redis or a tool.
Stop ==
    /\ turn.phase \in {"routing", "skill", "looking", "measuring", "calling", "tools"}
    /\ call[Me].phase = "idle"
    /\ TurnOver
    /\ UNCHANGED <<callVars, program, skillFor, asking, decided, cached, messages>>

\* An overlapping turn finds a text undecided and asks.
OtherAsks(x) ==
    /\ program = "api" /\ asking[x] < Others
    /\ skillFor[x] = "unset"
    /\ asking' = [asking EXCEPT ![x] = @ + 1]
    /\ UNCHANGED <<callVars, program, turn, skillFor, decided, cached, messages>>

\* It stores what came of it, or is cancelled.
OtherResolves(x) ==
    /\ asking[x] > 0
    /\ asking' = [asking EXCEPT ![x] = @ - 1]
    /\ (\E skill \in {"skill", "none"} : Remember(x, skill)) \/ UNCHANGED <<skillFor, decided>>
    /\ UNCHANGED <<callVars, program, turn, cached, messages>>

\* An overlapping turn of this text and session has its reply and keeps it.
OtherKeeps(x) ==
    /\ program = "api"
    /\ cached' = cached \cup {x}
    /\ UNCHANGED <<callVars, program, turn, skillFor, asking, decided, messages>>

\* Redis drops a kept reply, its time being over.
Expire(x) ==
    /\ x \in cached
    /\ cached' = cached \ {x}
    /\ UNCHANGED <<callVars, program, turn, skillFor, asking, decided, messages>>

\* What the turn does of its own accord.
TurnStep ==
    \/ Recall \/ AskForSkill \/ RouteEnds \/ RouteDirectly \/ RunSkill
    \/ Look \/ Measure \/ Cut \/ Think \/ ThoughtEnds \/ RunTools

Next ==
    \/ \E x \in Texts : Receive(x) \/ Expire(x)
    \/ TurnStep \/ StopRouting \/ Stop
    \/ CallStep(Me) /\ UNCHANGED turnVars
    \/ \E x \in Texts : OtherAsks(x) \/ OtherResolves(x) \/ OtherKeeps(x)
    \/ (\E p \in ProviderNames : Swing(p)) /\ UNCHANGED turnVars

Spec == Init /\ [][Next]_vars

\* Every await of a turn has a time limit, of a breaker's attempt, of Ollama's
\* endpoint, of Redis or of a tool (of a skill by assumption), and what is ready
\* is run by the event loop.  A caller whose call is admitted or refused goes on
\* either way; nobody has to send or to cancel, no
\* breaker has to recover, no reply to expire and no other turn to go on.
FairSpec ==
    /\ Spec
    /\ WF_vars(TurnStep)
    /\ WF_vars(CallStep(Me) /\ UNCHANGED turnVars)

-----------------------------------------------------------------------------

\* The model calls a phase may come back for.
Laps(phase) ==
    IF phase \in {"measuring", "cutting"} THEN Consolidations
    ELSE IF phase \in {"calling", "thinking", "tools"} THEN MaxIterations ELSE 1

TypeOK ==
    /\ CallTypeOK
    /\ program \in {"gateway", "api"}
    /\ turn \in [phase : Phases, text : Texts, iteration : Nat]
    /\ turn.iteration \in 1 .. Laps(turn.phase)
    /\ skillFor \in [Texts -> {"unset", "skill", "none"}]
    /\ asking \in [Texts -> 0 .. Others]
    /\ decided \in [Texts -> Nat]
    /\ cached \subseteq Texts
    /\ messages \in 0 .. MaxMessages

\* How a text is routed is settled.  In the gateway the first decision about a text
\* stands for the life of the process, also the 'no skill' of a model that failed, was
\* refused by its breaker or ran into the deadline of 1.5 s.  In the API, turns of one
\* text that overlap each store what came of it, and the last one stands: a text is
\* decided once for every turn that asked before the first decision, and never again.
RoutingSettles ==
    \A x \in Texts : decided[x] <= IF program = "gateway" THEN 1 ELSE 1 + Others

\* Every turn comes to its end, and gives the processing lock back if it has it, however
\* its models behave and whatever other tasks do to the breakers meanwhile.
TurnEnds == ~At("free") ~> At("free")
=============================================================================

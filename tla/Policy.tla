------------------------------- MODULE Policy -------------------------------
(* The policy engine (core/monitoring/policy_engine.py): which issues a health *)
(* payload has, which actions answer them and whether a repair may start now.  *)
(* It keeps no state: it reads a health payload and a log of history entries.  *)
(*                                                                             *)
(* No payload of this system carries cache figures (run_redis_e2e.py:585-609,  *)
(* auto_repair.py:169-228), so the two cache issues and purge_cache, the only  *)
(* "warning" and its action, cannot arise and are left out: every issue below  *)
(* is critical or degraded, hence "relevant".                                  *)
EXTENDS Naturals, FiniteSets, Sequences, SequencesExt, Bags

CONSTANTS
  RepairCooldown,  \* repair_cooldown_seconds, in polls of the alert loop
  MaxRepairs,      \* max_repairs_in_window
  RepairWindow,    \* max_repairs_window_seconds, in whole polls
  SpikeThreshold,  \* redis_error_threshold
  SpikeWindow      \* redis_error_window_seconds, in whole polls

ASSUME PolicyAssumption ==
  /\ {RepairCooldown, MaxRepairs, RepairWindow, SpikeWindow} \subseteq Nat
  /\ SpikeThreshold \in Nat \ {0}

MinScore == 70

Components == {"redis", "gateway", "queue"}
Actions == {"restart_redis", "restart_gateway", "restart_queue_worker"}

\* What a payload says of a component: "absent" when it has no entry for it.
Healths == [critical: BOOLEAN, score: {0, 50, 65, 100},
            of: [Components -> {"ok", "down", "absent"}]]

\* A history entry: its age in polls, and whether it has an endpoint or a
\* status_final, which only the entries of the API's audit file have.  A log is a
\* bag of entries: their order decides nothing.
Entries == [age: Nat, api: BOOLEAN]

DownCode == [redis |-> "redis_down", gateway |-> "gateway_down", queue |-> "queue_down"]

Issues(h, redisErrors) ==
  LET down == {DownCode[c] : c \in {d \in Components : h.of[d] = "down"}}
  IN  down \cup {i \in {"low_score", "redis_error_spike", "system_critical"} :
                  \/ i = "low_score" /\ h.score < MinScore
                  \/ i = "redis_error_spike" /\ redisErrors >= SpikeThreshold
                  \/ i = "system_critical" /\ h.critical /\ down = {}}

IssueAction ==
  [redis_down |-> "restart_redis", redis_error_spike |-> "restart_redis",
   gateway_down |-> "restart_gateway", low_score |-> "restart_gateway",
   queue_down |-> "restart_queue_worker"]

\* The place the stable sort by severity gives to an issue that has an action.
Place == [redis_down |-> 1, gateway_down |-> 2, queue_down |-> 3,
          redis_error_spike |-> 4, low_score |-> 5]

\* What decide_actions appends for an issue: its action, unless an issue before it
\* has the same one, or it is not wanted.
Answer(code, issues, wanted) ==
  LET before == {c \in issues \cap DOMAIN IssueAction : Place[c] < Place[code]}
      seen == {IssueAction[c] : c \in before}
  IN  IF code \in issues /\ IssueAction[code] \in wanted \ seen
      THEN <<IssueAction[code]>>
      ELSE << >>

Answers(issues, wanted) ==
  Answer("redis_down", issues, wanted) \o Answer("gateway_down", issues, wanted) \o
  Answer("queue_down", issues, wanted) \o Answer("redis_error_spike", issues, wanted) \o
  Answer("low_score", issues, wanted)

DecideActions(issues) == Answers(issues, Actions)

CoolingDown(log) == \E e \in BagToSet(log) : e.api /\ e.age < RepairCooldown

CountsInWindow(e) == e.api /\ e.age <= RepairWindow

RateLimited(log) ==
  LET counted == {e \in BagToSet(log) : CountsInWindow(e)}
  IN  MaxRepairs > 0 /\ BagCardinality([e \in counted |-> log[e]]) >= MaxRepairs

ShouldRepair(issues, log) ==
  /\ DecideActions(issues) # << >>
  /\ ~ CoolingDown(log)
  /\ ~ RateLimited(log)

\* The entries of one age that can matter: one to cool down, MaxRepairs to limit.
Enough == IF MaxRepairs > 0 THEN MaxRepairs ELSE 1

\* An appended entry; one more of an age that has enough of them decides nothing.
WithEntry(log, e) ==
  IF e \in BagToSet(log) /\ log[e] >= Enough THEN log ELSE log (+) SetToBag({e})

\* An entry that no window counts, or reaches any more, decides nothing.
Forgettable(e) == ~ e.api \/ (e.age > RepairWindow /\ e.age >= RepairCooldown)

Older(e) == [e EXCEPT !.age = @ + 1]

OneTickOlder(log) ==
  LET kept == {e \in BagToSet(log) : ~ Forgettable(Older(e))}
  IN  [old \in {Older(e) : e \in kept} |-> log[[old EXCEPT !.age = @ - 1]]]
=============================================================================

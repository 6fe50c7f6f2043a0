------------------------------ MODULE Alerting ------------------------------
(* The alert loop (core/monitoring/alerting.py) beside the repair worker of    *)
(* the API (api/routes/repair.py, whose slot is RepairJobs' subject): two      *)
(* processes that repair the same services and share the audit file and the    *)
(* repair history. One tick is one poll interval of the alert loop.            *)
EXTENDS AutoRepair

CONSTANTS
  TriggerCooldown,  \* DEFAULT_COOLDOWN_SECONDS, in polls
  Crashes,          \* bound: how often the alerting process dies
  Failing           \* bound: the components that fail

ASSUME AlertingAssumption ==
  /\ Workers = {"alerting", "api"}
  /\ TriggerCooldown \in Nat \ {0}
  /\ Crashes \in Nat
  /\ Failing \subseteq Components

VARIABLES
  loop,          \* where the alert loop stands
  redisErrors,   \* ages of the polls in _ALERT_HISTORY that saw a Redis error, one a tick
  audit,         \* logs/repair_audit.jsonl
  inProgress,    \* _AUTO_REPAIR_IN_PROGRESS
  sinceTrigger,  \* polls since _LAST_AUTO_REPAIR_TRIGGER_TS, up to the cooldown
  crashesLeft

alertVars == <<loop, redisErrors, audit, inProgress, sinceTrigger, crashesLeft>>
vars == <<repairVars, alertVars>>

(* The globals of alerting.py and the state of the runs keep their ranges.     *)
TypeOK ==
  /\ RepairTypeOK
  /\ loop \in {"waiting", "polled", "down"}
  /\ redisErrors \subseteq 0..SpikeWindow
  /\ IsABag(audit) /\ BagToSet(audit) \subseteq Entries
  /\ inProgress \in BOOLEAN
  /\ sinceTrigger \in 0..TriggerCooldown
  /\ crashesLeft \in 0..Crashes

Init ==
  /\ RepairInit
  /\ loop = "waiting"
  /\ redisErrors = {}
  /\ audit = EmptyBag
  /\ inProgress = FALSE
  /\ sinceTrigger = TriggerCooldown
  /\ crashesLeft = Crashes
-----------------------------------------------------------------------------
Unseen == [c \in Components |-> "absent"]
Unreachable == [critical |-> TRUE, score |-> 0, of |-> Unseen]

(* /health/full (api/routes/health.py): get_system_health looks at Redis only. *)
FullHealth ==
  [critical |-> ~ up["redis"], score |-> IF up["redis"] THEN 100 ELSE 0,
   of |-> [Unseen EXCEPT !["redis"] = IF up["redis"] THEN "ok" ELSE "down"]]

(* fetch_health: an unreachable API, or a check that fails, is critical.       *)
FetchHealth == {FullHealth, Unreachable}

(* _record_alert and _recent_redis_error_count.                                *)
Recorded(h) == IF h.of["redis"] = "down" THEN redisErrors \cup {0} ELSE redisErrors

Dies == crashesLeft > 0 /\ crashesLeft' = crashesLeft - 1

(* trigger_auto_repair, under _STATE_LOCK. A thread that cannot be started     *)
(* raises out of the alert loop, with the flag set.                            *)
Skipped == inProgress \/ sinceTrigger < TriggerCooldown

(* mutation: the flag is left to the thread to set.                            *)
TriggerUnflagged(h, actions) ==
  /\ ~ Skipped
  /\ inProgress' = inProgress
  /\ sinceTrigger' = 0
  /\ \/ Launch("alerting", FALSE, h, actions) /\ loop' = "polled" /\ UNCHANGED crashesLeft
     \/ loop' = "down" /\ Dies /\ UNCHANGED repairVars

Trigger(h, actions) ==
  /\ ~ Skipped
  /\ inProgress' = TRUE
  /\ sinceTrigger' = 0
  /\ \/ Launch("alerting", FALSE, h, actions) /\ loop' = "polled" /\ UNCHANGED crashesLeft
     \/ loop' = "down" /\ Dies /\ UNCHANGED repairVars

(* A round of run_alert_loop that fetched h.                                   *)
PollWith(h) ==
  LET issues == Issues(h, Cardinality(Recorded(h)))
      decision == ShouldRepair(issues, audit)
  IN  /\ loop = "waiting"
      /\ redisErrors' = Recorded(h)
      /\ \/ decision /\ Trigger(h, ToSet(DecideActions(issues)))
         \/ /\ ~ decision \/ Skipped
            /\ loop' = "polled"
            /\ UNCHANGED <<repairVars, inProgress, sinceTrigger, crashesLeft>>
      /\ UNCHANGED audit

Poll == \E h \in FetchHealth : PollWith(h)

(* _run_auto_repair_task: the run, whose end clears the flag, whatever the run *)
(* returned.                                                                   *)
AlertRun ==
  /\ Execute("alerting") \/ Verify("alerting") \/ Raise("alerting")
  /\ UNCHANGED alertVars

(* mutation: a run that executed nothing leaves the flag set.                  *)
AlertRunEndsFlagged ==
  /\ stage["alerting"] = "returned"
  /\ Leave("alerting")
  /\ inProgress' = (ran["alerting"] = {})
  /\ UNCHANGED <<setting, up, history, plan, attempt,
                 loop, redisErrors, audit, sinceTrigger, crashesLeft>>

AlertRunEnds ==
  /\ stage["alerting"] = "returned"
  /\ Leave("alerting")
  /\ inProgress' = FALSE
  /\ UNCHANGED <<setting, up, history, plan, attempt,
                 loop, redisErrors, audit, sinceTrigger, crashesLeft>>
-----------------------------------------------------------------------------
AuditEntry == [age |-> 0, api |-> TRUE]

(* POST /repair/run and /repair/dry-run. A request that finds a job running    *)
(* writes an audit entry of its own. Clients ask as often as they like.        *)
ApiRequest ==
  /\ \/ /\ \E isDry \in BOOLEAN : Launch("api", isDry, Snapshot, {})
        /\ UNCHANGED audit
     \/ /\ stage["api"] \in {"act", "verify"}
        /\ audit' = WithEntry(audit, AuditEntry)
        /\ UNCHANGED repairVars
  /\ UNCHANGED <<loop, redisErrors, inProgress, sinceTrigger, crashesLeft>>

ApiRun ==
  /\ Execute("api") \/ Verify("api") \/ Raise("api")
  /\ UNCHANGED alertVars

(* _refresh_job_state, by the waiter, a status request or the next submission. *)
ApiRecord ==
  /\ stage["api"] = "returned"
  /\ Leave("api")
  /\ audit' = WithEntry(audit, AuditEntry)
  /\ UNCHANGED <<setting, up, history, plan, attempt,
                 loop, redisErrors, inProgress, sinceTrigger, crashesLeft>>
-----------------------------------------------------------------------------
Fails(c) ==
  /\ up' = [up EXCEPT ![c] = FALSE]
  /\ UNCHANGED <<setting, history, stage, dry, plan, attempt, ran, alertVars>>

(* The alerting process dies with its daemon thread, and is started anew: what *)
(* it kept in memory is gone, its cooldown included.                           *)
Crash ==
  /\ Dies
  /\ loop # "down"
  /\ loop' = "down"
  /\ Leave("alerting")
  /\ plan' = [plan EXCEPT !["alerting"] = << >>]
  /\ attempt' = [attempt EXCEPT !["alerting"] = 1]
  /\ UNCHANGED <<setting, up, history, redisErrors, audit, inProgress, sinceTrigger>>

Boot ==
  /\ loop = "down"
  /\ loop' = "waiting"
  /\ redisErrors' = {}
  /\ inProgress' = FALSE
  /\ sinceTrigger' = TriggerCooldown
  /\ UNCHANGED <<repairVars, audit, crashesLeft>>

(* A poll interval goes by.                                                    *)
Tick ==
  /\ loop \in {"polled", "down"}
  /\ loop' = IF loop = "polled" THEN "waiting" ELSE loop
  /\ redisErrors' = {a + 1 : a \in redisErrors \ {SpikeWindow}}
  /\ sinceTrigger' = IF sinceTrigger < TriggerCooldown THEN sinceTrigger + 1 ELSE sinceTrigger
  /\ history' = OneTickOlder(history)
  /\ audit' = OneTickOlder(audit)
  /\ UNCHANGED <<setting, up, stage, dry, plan, attempt, ran, inProgress, crashesLeft>>

Next ==
  \/ Poll \/ AlertRun \/ AlertRunEnds
  \/ ApiRequest \/ ApiRun \/ ApiRecord
  \/ \E c \in Failing : Fails(c)
  \/ Crash \/ Boot \/ Tick

(* The loop polls on, runs go on and return, results are recorded. Of the      *)
(* environment: polls that could start a repair do not always find the API out *)
(* of reach, and a service that is restarted again and again comes up in the   *)
(* end. Nobody has to send requests or to start the alerting process anew.     *)
Fairness ==
  /\ WF_vars(Poll) /\ WF_vars(Tick)
  /\ WF_vars(AlertRun) /\ WF_vars(AlertRunEnds)
  /\ WF_vars(ApiRun) /\ WF_vars(ApiRecord)
  /\ SF_vars(PollWith(FullHealth) /\ ~ inProgress /\ inProgress')
  /\ SF_vars(Execute("alerting") /\ up'["redis"] /\ UNCHANGED alertVars)

Spec == Init /\ [][Next]_vars /\ Fairness
-----------------------------------------------------------------------------
(* While the alerting process lives, the flag is set exactly when its repair   *)
(* thread has not finished: every way a run can end gives it back, and no      *)
(* second thread starts meanwhile (alerting.py:309-311, 330-335).              *)
FlagTracksThread == loop # "down" => (inProgress <=> stage["alerting"] # "idle")

(* A run executes MAX_ATTEMPTS_PER_ACTION times the number of actions at most,  *)
(* whatever the services do meanwhile: it begins with that budget, each        *)
(* execution takes from it, and no verification gives any back.                *)
WithinBudget == \A w \in Workers : Budget(w) \in 0..Cardinality(Actions) * AttemptsCap

RunsAreBounded ==
  /\ []WithinBudget
  /\ [][\A w \in Workers :
          /\ stage[w] # "idle" => Budget(w)' <= Budget(w)
          /\ stage[w] = "act" /\ stage'[w] = "verify" => Budget(w)' < Budget(w)]_vars

(* Clients keep asking the API for repairs for ever.                           *)
AskedForEver == []<><<ApiRequest>>_vars

(* With auto-repair on, a Redis failure is repaired in the end (or the process *)
(* that polls is not running), unless clients ask for ever: neither the flag,  *)
(* nor the trigger's cooldown, nor the audit entries of any number of API      *)
(* requests and dry runs hold it up. The exception is real: every request, a   *)
(* refused one too, leaves an entry, and should_repair lets no repair start    *)
(* while there are fresh ones (policy_engine.py:453-483).                      *)
RedisRecovers ==
  \/ AskedForEver
  \/ setting = "run" /\ ~ up["redis"] ~> up["redis"] \/ loop = "down"
=============================================================================

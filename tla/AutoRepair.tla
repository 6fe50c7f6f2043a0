----------------------------- MODULE AutoRepair -----------------------------
(* run_auto_repair_loop (core/monitoring/auto_repair.py) and the executor of   *)
(* its actions (action_executor.py), run by a thread of the alerting process   *)
(* and by the repair worker of the API process, over the same history file.    *)
(* A module that extends this one starts the runs and uses their results.      *)
EXTENDS Policy

CONSTANTS
  Workers,     \* the threads that may be inside run_auto_repair_loop
  AttemptsCap  \* MAX_ATTEMPTS_PER_ACTION

ASSUME AutoRepairAssumption == AttemptsCap \in Nat \ {0}

VARIABLES
  setting,   \* AUTO_REPAIR_ENABLED and AUTO_REPAIR_MODE
  up,        \* which components work
  history,   \* logs/auto_repair_history.jsonl
  stage,     \* [Workers -> where its run stands]
  dry,       \* [Workers -> the dry_run argument]
  plan,      \* [Workers -> actions still to take, the current one first]
  attempt,   \* [Workers -> attempt_counts of the current action]
  ran        \* [Workers -> actions whose commands this run has executed]

repairVars == <<setting, up, history, stage, dry, plan, attempt, ran>>

Modes == {"run", "dry-run", "approval_required"}

\* _normalize_execution_mode: whatever is not a mode is taken for "run".
Normalized(raw) == IF raw \in Modes THEN raw ELSE "run"

\* _resolve_auto_repair_controls. When the environment has AUTO_REPAIR_ENABLED or
\* AUTO_REPAIR_MODE, the pair is taken from there (what is missing from SEGYR_*, then
\* True and "run") and not from the settings: a mode set alone leaves the switch on.
Setting(enabled, raw) == IF enabled THEN Normalized(raw) ELSE "disabled"

Settings == {Setting(enabled, raw) : enabled \in BOOLEAN, raw \in Modes \cup {"unknown"}}

RepairTypeOK ==
  /\ setting \in Settings
  /\ up \in [Components -> BOOLEAN]
  /\ IsABag(history) /\ BagToSet(history) \subseteq Entries
  /\ stage \in [Workers -> {"idle", "act", "verify", "returned"}]
  /\ dry \in [Workers -> BOOLEAN]
  /\ plan \in [Workers -> Seq(Actions)]
  /\ attempt \in [Workers -> 1..AttemptsCap]
  /\ ran \in [Workers -> SUBSET Actions]

RepairInit ==
  /\ setting \in Settings
  /\ up = [c \in Components |-> TRUE]
  /\ history = EmptyBag
  /\ stage = [w \in Workers |-> "idle"]
  /\ dry = [w \in Workers |-> FALSE]
  /\ plan = [w \in Workers |-> << >>]
  /\ attempt = [w \in Workers |-> 1]
  /\ ran = [w \in Workers |-> {}]
-----------------------------------------------------------------------------
(* _collect_health_snapshot: get_system_health, then the probes of the three   *)
(* components; the queue's probe goes through Redis. The code looks at Redis   *)
(* twice and at one component after another for some seconds: here it is one   *)
(* look, so that no snapshot mixes what was so before a failure and after it.  *)
Snapshot ==
  LET works == [c \in Components |-> up[c] /\ (c = "queue" => up["redis"])]
  IN  [critical |-> ~ works["redis"] \/ ~ works["gateway"],
       score |-> IF ~ works["redis"] THEN 0 ELSE IF ~ works["gateway"] THEN 50
                 ELSE IF ~ works["queue"] THEN 65 ELSE 100,
       of |-> [c \in Components |-> IF works[c] THEN "ok" ELSE "down"]]

(* The tests of verify_fix and of the loop after it.                           *)
Fixed(h) == h.score >= MinScore /\ \A c \in Components : h.of[c] # "down"

Target == [restart_redis |-> "redis", restart_gateway |-> "gateway",
           restart_queue_worker |-> "queue"]

(* A restart wins over the failure of its component or does not; a command     *)
(* that is killed by its time limit may have done its work.                    *)
Restarted(action) ==
  \E works \in BOOLEAN : up' = [up EXCEPT ![Target[action]] = @ \/ works]

(* Every way out appends its result to the history: a record that has neither  *)
(* endpoint nor status_final.                                                  *)
Return(w) ==
  /\ stage' = [stage EXCEPT ![w] = "returned"]
  /\ plan' = [plan EXCEPT ![w] = << >>]
  /\ attempt' = [attempt EXCEPT ![w] = 1]
  /\ history' = WithEntry(history, [age |-> 0, api |-> FALSE])

(* The loop evaluates the policy again: with its own history, and without the  *)
(* error frequency, for which it counts entries with an "actions" key, which   *)
(* its history does not have. "requested" are the caller's planned actions.    *)
Planned(h, requested) ==
  LET wanted == IF requested = {} THEN Actions ELSE requested
      issues == Issues(h, 0)
  IN  IF ShouldRepair(issues, history) THEN Answers(issues, wanted) ELSE << >>

(* The beginning of the loop, up to its first action: h is the caller's health *)
(* data or the first snapshot.                                                 *)
Launch(w, isDry, h, requested) ==
  LET planned == Planned(h, requested)
      skips == planned = << >> \/ setting \in {"disabled", "approval_required"}
  IN  /\ stage[w] = "idle"
      /\ dry' = [dry EXCEPT ![w] = isDry]
      /\ \/ skips /\ Return(w)
         \/ /\ ~ skips
            /\ stage' = [stage EXCEPT ![w] = "act"]
            /\ plan' = [plan EXCEPT ![w] = planned]
            /\ UNCHANGED <<history, attempt>>
      /\ UNCHANGED <<setting, up, ran>>

(* execute_action: a dry run answers at once, otherwise the commands of the    *)
(* action are tried in turn.                                                   *)
(* mutation: AUTO_REPAIR_MODE is not looked at again by the executor.          *)
DryRunByArgument(w) == dry[w]

DryRun(w) == dry[w] \/ setting = "dry-run"

Execute(w) ==
  /\ stage[w] = "act"
  /\ stage' = [stage EXCEPT ![w] = "verify"]
  /\ \/ DryRun(w) /\ UNCHANGED <<up, ran>>
     \/ /\ ~ DryRun(w)
        /\ Restarted(Head(plan[w]))
        /\ ran' = [ran EXCEPT ![w] = @ \cup {Head(plan[w])}]
  /\ UNCHANGED <<setting, history, dry, plan, attempt>>

(* mutation: one attempt more than MAX_ATTEMPTS_PER_ACTION.                    *)
GoOnOffByOne(w) ==
  /\ stage' = [stage EXCEPT ![w] = "act"]
  /\ \/ /\ attempt[w] <= AttemptsCap
        /\ attempt' = [attempt EXCEPT ![w] = @ + 1]
        /\ plan' = plan
     \/ /\ attempt[w] > AttemptsCap
        /\ attempt' = [attempt EXCEPT ![w] = 1]
        /\ plan' = [plan EXCEPT ![w] = Tail(@)]
  /\ UNCHANGED history

GoOn(w) ==
  /\ stage' = [stage EXCEPT ![w] = "act"]
  /\ \/ /\ attempt[w] < AttemptsCap
        /\ attempt' = [attempt EXCEPT ![w] = @ + 1]
        /\ plan' = plan
     \/ /\ attempt[w] = AttemptsCap
        /\ attempt' = [attempt EXCEPT ![w] = 1]
        /\ plan' = [plan EXCEPT ![w] = Tail(@)]
  /\ UNCHANGED history

LastAttempt(w) == attempt[w] = AttemptsCap /\ Len(plan[w]) = 1

(* verify_fix and the breaks of the two loops.                                 *)
Verify(w) ==
  /\ stage[w] = "verify"
  /\ \/ (Fixed(Snapshot) \/ LastAttempt(w)) /\ Return(w)
     \/ ~ Fixed(Snapshot) /\ ~ LastAttempt(w) /\ GoOn(w)
  /\ UNCHANGED <<setting, up, dry, ran>>

(* Anything that is raised on the way ends the run with a failed result.       *)
Raise(w) ==
  /\ stage[w] \in {"act", "verify"}
  /\ Return(w)
  /\ UNCHANGED <<setting, up, dry, ran>>

(* The caller has its result: the locals of the run are gone.                  *)
Leave(w) ==
  /\ stage' = [stage EXCEPT ![w] = "idle"]
  /\ dry' = [dry EXCEPT ![w] = FALSE]
  /\ ran' = [ran EXCEPT ![w] = {}]

(* The kill switch and the modes (config/settings.py:140, test_auto_repair_    *)
(* hardening.py): without AUTO_REPAIR_ENABLED, or in a mode other than "run",  *)
(* or for a dry run, no command is executed, whatever path the run takes. A    *)
(* misspelt AUTO_REPAIR_MODE counts as "run" (auto_repair.py:75-79).           *)
KillSwitch == \A w \in Workers : setting # "run" \/ dry[w] => ran[w] = {}

(* The executions a run has left: of its current action those the attempts     *)
(* allow, of the others MAX_ATTEMPTS_PER_ACTION each.                          *)
Budget(w) ==
  IF stage[w] \in {"act", "verify"}
  THEN (Len(plan[w]) - 1) * AttemptsCap + (AttemptsCap - attempt[w])
         + (IF stage[w] = "act" THEN 1 ELSE 0)
  ELSE 0
=============================================================================

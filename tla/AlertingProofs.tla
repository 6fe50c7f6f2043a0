--------------------------- MODULE AlertingProofs ---------------------------
(* Theorems about Alerting, for any settings, history and number of polls: its *)
(* type invariant, that the two repairing processes obey the kill switch, and  *)
(* that the in-progress flag of the alert loop is true exactly while its       *)
(* repair thread runs; and about the policy engine, what it plans.             *)
EXTENDS Alerting, FiniteSetTheorems, TLAPS

(* Logs and plans.                                                             *)

(* No action occurs twice.                                                     *)
Distinct(s) == \A i, j \in 1..Len(s) : s[i] = s[j] => i = j

(* The issues that have an action.                                             *)
Codes == DOMAIN IssueAction

IsLog(log) == IsABag(log) /\ BagToSet(log) \subseteq Entries

(* An appended line and a tick leave a log.                                    *)
LEMMA Logging ==
  ASSUME NEW log, IsLog(log), NEW e \in Entries
  PROVE  IsLog(WithEntry(log, e))
<1> USE DEF IsLog, IsABag, BagToSet
<1> DEFINE new == log (+) SetToBag({e})
<1>1. DOMAIN new = DOMAIN log \cup {e}
  BY DEF (+), SetToBag
<1>2. ASSUME NEW d \in DOMAIN new
      PROVE  new[d] \in {n \in Nat : n > 0}
  BY <1>1 DEF (+), SetToBag
<1>3. new \in [DOMAIN new -> {n \in Nat : n > 0}]
  BY <1>1, <1>2 DEF (+), SetToBag
<1>4. IsLog(new)
  BY <1>1, <1>3
<1>5. WithEntry(log, e) \in {log, new}
  BY DEF WithEntry
<1> HIDE DEF new
<1> QED
  BY <1>4, <1>5

LEMMA Ageing ==
  ASSUME NEW log, IsLog(log)
  PROVE  IsLog(OneTickOlder(log))
<1> USE DEF IsLog, IsABag, BagToSet
<1> DEFINE kept == {e \in DOMAIN log : ~ Forgettable(Older(e))}
           olds == {Older(e) : e \in kept}
<1>1. ASSUME NEW e \in Entries
      PROVE  Older(e) \in Entries /\ [Older(e) EXCEPT !.age = @ - 1] = e
  <2>1. e.age \in Nat /\ e.api \in BOOLEAN /\ e = [age |-> e.age, api |-> e.api]
    BY DEF Entries
  <2>2. Older(e) = [age |-> e.age + 1, api |-> e.api]
    BY <2>1 DEF Older
  <2>3. Older(e).age - 1 = e.age
    BY <2>1, <2>2
  <2>4. [Older(e) EXCEPT !.age = @ - 1] = [age |-> e.age, api |-> e.api]
    BY <2>2, <2>3
  <2> QED
    BY <2>1, <2>2, <2>4 DEF Entries
<1>2. OneTickOlder(log) = [old \in olds |-> log[[old EXCEPT !.age = @ - 1]]]
  BY DEF OneTickOlder
<1>3. ASSUME NEW old \in olds
      PROVE  old \in Entries /\ log[[old EXCEPT !.age = @ - 1]] \in {n \in Nat : n > 0}
  <2>1. PICK e \in kept : old = Older(e)
    OBVIOUS
  <2> QED
    BY <1>1, <2>1
<1> HIDE DEF kept, olds
<1> QED
  BY <1>2, <1>3

(* What is left of a plan that was not at its last action.                     *)
LEMMA TailLeft ==
  ASSUME NEW S, NEW s \in Seq(S), s # << >>, Len(s) # 1
  PROVE  Tail(s) \in Seq(S) /\ Tail(s) # << >>
<1> DEFINE rest == Tail(s)
<1>1. Len(s) \in Nat /\ Len(s) # 0
  OBVIOUS
<1>2. rest \in Seq(S) /\ Len(rest) = Len(s) - 1
  OBVIOUS
<1>3. Len(<< >>) = 0
  OBVIOUS
<1> HIDE DEF rest
<1>4. rest # << >>
  BY <1>1, <1>2, <1>3
<1> QED
  BY <1>2, <1>4 DEF rest

(* What is planned are actions.                                                *)
LEMMA AnswerShape ==
  ASSUME NEW issues, NEW wanted \in SUBSET Actions, NEW code \in Codes
  PROVE  Answer(code, issues, wanted) \in Seq(Actions)
<1>1. IssueAction[code] \in Actions
  BY DEF Codes, IssueAction, Actions
<1> QED
  BY <1>1 DEF Answer

LEMMA PlanShape ==
  ASSUME NEW issues, NEW wanted \in SUBSET Actions
  PROVE  Answers(issues, wanted) \in Seq(Actions)
<1>1. {"redis_down", "gateway_down", "queue_down", "redis_error_spike", "low_score"} \subseteq Codes
  BY DEF Codes, IssueAction
<1>2. \A c \in Codes : Answer(c, issues, wanted) \in Seq(Actions)
  BY AnswerShape
<1> QED
  BY <1>1, <1>2 DEF Answers

LEMMA DecideActionsShape ==
  ASSUME NEW issues
  PROVE  DecideActions(issues) \in Seq(Actions)
  BY PlanShape DEF DecideActions

(* Where a plan begins, and what is left of it, no action occurs twice.        *)
LEMMA DistinctParts ==
  /\ Distinct(<< >>)
  /\ \A s \in Seq(Actions) : Distinct(s) /\ s # << >> => Distinct(Tail(s))
<1>1. Distinct(<< >>)
  BY DEF Distinct
<1>2. ASSUME NEW s \in Seq(Actions), Distinct(s), s # << >>
      PROVE  Distinct(Tail(s))
  <2>1. Len(Tail(s)) = Len(s) - 1 /\ Len(s) \in Nat
    BY <1>2
  <2>2. ASSUME NEW i \in 1..Len(Tail(s)), NEW j \in 1..Len(Tail(s)), Tail(s)[i] = Tail(s)[j]
        PROVE  i = j
    <3>1. s[i + 1] = s[j + 1] /\ i + 1 \in 1..Len(s) /\ j + 1 \in 1..Len(s)
      BY <1>2, <2>1, <2>2
    <3>2. i + 1 = j + 1
      BY <1>2, <3>1 DEF Distinct
    <3> QED
      BY <2>1, <3>2
  <2> QED
    BY <2>2 DEF Distinct
<1> QED
  BY <1>1, <1>2

(* Nor in two lists that share none, one after the other.                      *)
LEMMA Joined ==
  ASSUME NEW S, NEW s \in Seq(S), NEW t \in Seq(S), Distinct(s), Distinct(t),
         ToSet(s) \cap ToSet(t) = {}
  PROVE  /\ s \o t \in Seq(S)
         /\ Distinct(s \o t)
         /\ ToSet(s \o t) = ToSet(s) \cup ToSet(t)
<1> DEFINE n == Len(s)
           m == Len(t)
           both == s \o t
<1>1. /\ n \in Nat /\ m \in Nat
      /\ both \in Seq(S) /\ Len(both) = n + m
  OBVIOUS
<1>2. \A i \in 1..n : both[i] = s[i]
  OBVIOUS
<1>3. \A i \in n + 1..n + m : both[i] = t[i - n] /\ i - n \in 1..m
  OBVIOUS
<1>4. \A j \in 1..m : j + n \in n + 1..n + m /\ both[j + n] = t[j]
  OBVIOUS
<1>5. /\ ToSet(s) = {s[i] : i \in 1..n} /\ ToSet(t) = {t[i] : i \in 1..m}
      /\ ToSet(both) = {both[i] : i \in 1..n + m}
  BY <1>1 DEF ToSet
<1> HIDE DEF both, n, m
<1>6. \A i \in 1..n + m : i \in 1..n \/ i \in n + 1..n + m
  BY <1>1
<1>7. ASSUME NEW i \in 1..n + m, NEW j \in 1..n + m, both[i] = both[j]
      PROVE  i = j
  <2>1. CASE i \in 1..n /\ j \in 1..n
    BY <1>2, <1>7, <2>1 DEF Distinct, n
  <2>2. CASE i \in n + 1..n + m /\ j \in n + 1..n + m
    <3>1. t[i - n] = t[j - n] /\ i - n \in 1..m /\ j - n \in 1..m
      BY <1>3, <1>7, <2>2
    <3>2. i - n = j - n
      BY <3>1 DEF Distinct, m
    <3> QED
      BY <1>1, <3>2
  <2>3. CASE (i \in 1..n /\ j \in n + 1..n + m) \/ (j \in 1..n /\ i \in n + 1..n + m)
    BY <1>2, <1>3, <1>5, <1>7, <2>3
  <2> QED
    BY <1>6, <2>1, <2>2, <2>3
<1>8. ToSet(both) \subseteq ToSet(s) \cup ToSet(t)
  BY <1>2, <1>3, <1>5, <1>6
<1>9. ToSet(s) \cup ToSet(t) \subseteq ToSet(both)
  <2>1. \A i \in 1..n : i \in 1..n + m
    BY <1>1
  <2>2. \A j \in 1..m : j + n \in 1..n + m
    BY <1>1
  <2> QED
    BY <1>2, <1>4, <1>5, <2>1, <2>2
<1> QED
  BY <1>1, <1>7, <1>8, <1>9 DEF Distinct, both

(* One round of decide_actions: "seen" is the actions of the issues before it. *)
LEMMA AnswerIs ==
  ASSUME NEW issues, NEW wanted \in SUBSET Actions, NEW code \in Codes
  PROVE  /\ Distinct(Answer(code, issues, wanted))
         /\ ToSet(Answer(code, issues, wanted)) =
              {a \in wanted : code \in issues /\ a = IssueAction[code]} \
              {IssueAction[c] : c \in {d \in issues \cap Codes : Place[d] < Place[code]}}
<1> DEFINE seen == {IssueAction[c] : c \in {d \in issues \cap Codes : Place[d] < Place[code]}}
           a == IssueAction[code]
<1>1. Answer(code, issues, wanted) =
         IF code \in issues /\ a \in wanted \ seen THEN <<a>> ELSE << >>
  BY DEF Answer, Codes
<1>2. \A x : Distinct(<<x>>) /\ ToSet(<<x>>) = {x}
  BY DEF Distinct, ToSet
<1>3. Distinct(<< >>) /\ ToSet(<< >>) = {}
  BY DEF Distinct, ToSet
<1> HIDE DEF seen, a
<1>4. CASE code \in issues /\ a \in wanted \ seen
  BY <1>1, <1>2, <1>4 DEF seen, a
<1>5. CASE ~ (code \in issues /\ a \in wanted \ seen)
  BY <1>1, <1>3, <1>5 DEF seen, a
<1> QED
  BY <1>4, <1>5

(* decide_actions and the loop's choice of the planned ones plan exactly the   *)
(* wanted actions that answer an issue, and each of them once                  *)
(* (policy_engine.py:301-323, auto_repair.py:598-606).                         *)
THEOREM PlansEachAnswerOnce ==
  ASSUME NEW issues, NEW wanted \in SUBSET Actions
  PROVE  /\ Distinct(Answers(issues, wanted))
         /\ ToSet(Answers(issues, wanted)) =
                wanted \cap {IssueAction[c] : c \in issues \cap DOMAIN IssueAction}
<1> DEFINE a1 == Answer("redis_down", issues, wanted)
           a2 == Answer("gateway_down", issues, wanted)
           a3 == Answer("queue_down", issues, wanted)
           a4 == Answer("redis_error_spike", issues, wanted)
           a5 == Answer("low_score", issues, wanted)
           Of(c, a) == {b \in wanted : c \in issues /\ b = a}
           Before(c) == {IssueAction[b] : b \in {d \in issues \cap Codes : Place[d] < Place[c]}}
<1>0. /\ Codes = {"redis_down", "gateway_down", "queue_down", "redis_error_spike", "low_score"}
      /\ Codes = DOMAIN IssueAction
  BY DEF Codes, IssueAction
<1>1. \A a \in {a1, a2, a3, a4, a5} : a \in Seq(Actions) /\ Distinct(a)
  BY <1>0, AnswerShape, AnswerIs
<1>2. /\ ToSet(a1) = Of("redis_down", "restart_redis") \ Before("redis_down")
      /\ ToSet(a2) = Of("gateway_down", "restart_gateway") \ Before("gateway_down")
      /\ ToSet(a3) = Of("queue_down", "restart_queue_worker") \ Before("queue_down")
      /\ ToSet(a4) = Of("redis_error_spike", "restart_redis") \ Before("redis_error_spike")
      /\ ToSet(a5) = Of("low_score", "restart_gateway") \ Before("low_score")
  <2>1. \A c \in Codes : ToSet(Answer(c, issues, wanted)) = Of(c, IssueAction[c]) \ Before(c)
    BY AnswerIs
  <2>2. /\ IssueAction["redis_down"] = "restart_redis"
        /\ IssueAction["gateway_down"] = "restart_gateway"
        /\ IssueAction["queue_down"] = "restart_queue_worker"
        /\ IssueAction["redis_error_spike"] = "restart_redis"
        /\ IssueAction["low_score"] = "restart_gateway"
    BY DEF IssueAction
  <2> HIDE DEF Of, Before
  <2> QED
    BY <1>0, <2>1, <2>2
<1>3. /\ Before("redis_down") = {}
      /\ Before("gateway_down") \subseteq {"restart_redis"}
      /\ Before("queue_down") \subseteq {"restart_redis", "restart_gateway"}
      /\ "restart_redis" \in Before("redis_error_spike") <=> "redis_down" \in issues
      /\ "restart_gateway" \in Before("low_score") <=> "gateway_down" \in issues
  BY <1>0 DEF IssueAction, Place
<1> HIDE DEF a1, a2, a3, a4, a5, Before
<1>4. /\ ToSet(a1) = Of("redis_down", "restart_redis")
      /\ ToSet(a2) = Of("gateway_down", "restart_gateway")
      /\ ToSet(a3) = Of("queue_down", "restart_queue_worker")
      /\ ToSet(a4) = IF "redis_down" \in issues THEN {} ELSE Of("redis_error_spike", "restart_redis")
      /\ ToSet(a5) = IF "gateway_down" \in issues THEN {} ELSE Of("low_score", "restart_gateway")
  BY <1>2, <1>3
<1>5. /\ a1 \o a2 \in Seq(Actions) /\ Distinct(a1 \o a2)
      /\ ToSet(a1 \o a2) = ToSet(a1) \cup ToSet(a2)
  <2>1. ToSet(a1) \cap ToSet(a2) = {}
    BY <1>4
  <2> HIDE DEF Of
  <2> QED
    BY <1>1, <2>1, Joined
<1> DEFINE b2 == a1 \o a2
           b3 == b2 \o a3
           b4 == b3 \o a4
           b5 == b4 \o a5
<1> HIDE DEF b2
<1>6. /\ b3 \in Seq(Actions) /\ Distinct(b3)
      /\ ToSet(b3) = ToSet(a1) \cup ToSet(a2) \cup ToSet(a3)
  <2>1. b2 \in Seq(Actions) /\ Distinct(b2) /\ ToSet(b2) = ToSet(a1) \cup ToSet(a2)
    BY <1>5 DEF b2
  <2>2. ToSet(b2) \cap ToSet(a3) = {}
    BY <1>4, <2>1
  <2> HIDE DEF Of
  <2> QED
    BY <1>1, <2>1, <2>2, Joined
<1> HIDE DEF b3
<1>7. /\ b4 \in Seq(Actions) /\ Distinct(b4)
      /\ ToSet(b4) = ToSet(a1) \cup ToSet(a2) \cup ToSet(a3) \cup ToSet(a4)
  <2>1. ToSet(b3) \cap ToSet(a4) = {}
    BY <1>4, <1>6
  <2> HIDE DEF Of
  <2> QED
    BY <1>1, <1>6, <2>1, Joined
<1> HIDE DEF b4
<1>8. /\ Distinct(b5)
      /\ ToSet(b5) = ToSet(a1) \cup ToSet(a2) \cup ToSet(a3) \cup ToSet(a4) \cup ToSet(a5)
  <2>1. ToSet(b4) \cap ToSet(a5) = {}
    BY <1>4, <1>7
  <2> HIDE DEF Of
  <2> QED
    BY <1>1, <1>7, <2>1, Joined
<1>9. Answers(issues, wanted) = b5
  BY DEF Answers, a1, a2, a3, a4, a5, b2, b3, b4
<1>10. ToSet(b5) = wanted \cap {IssueAction[c] : c \in issues \cap Codes}
  <2>1. {IssueAction[c] : c \in issues \cap Codes} =
           (IF "redis_down" \in issues \/ "redis_error_spike" \in issues
            THEN {"restart_redis"} ELSE {})
           \cup (IF "gateway_down" \in issues \/ "low_score" \in issues
                 THEN {"restart_gateway"} ELSE {})
           \cup (IF "queue_down" \in issues THEN {"restart_queue_worker"} ELSE {})
    BY <1>0 DEF IssueAction
  <2> HIDE DEF b5
  <2> QED
    BY <1>4, <1>8, <2>1
<1> QED
  BY <1>0, <1>8, <1>9, <1>10
-----------------------------------------------------------------------------
(* A worker that is not in a run has executed nothing.                         *)
IdleHasRunNothing == \A w \in Workers : stage[w] = "idle" => ran[w] = {}

(* Only settings that let a run act get it past its beginning.                 *)
ActsOnlyIfEnabled ==
  \A w \in Workers :
    stage[w] \in {"act", "verify"} => setting \notin {"disabled", "approval_required"}

(* A process that is down has no thread, so a new one starts with none.        *)
DownHasNoThread == loop = "down" => stage["alerting"] = "idle"

(* A run that acts has an action to take, and no run has an action twice.      *)
HasPlan ==
  \A w \in Workers : /\ stage[w] \in {"act", "verify"} => plan[w] # << >>
                     /\ Distinct(plan[w])

(* What holds of the runs whichever process they are in.                       *)
RunsOK == RepairTypeOK /\ HasPlan /\ IdleHasRunNothing /\ ActsOnlyIfEnabled /\ KillSwitch

IInv ==
  /\ TypeOK
  /\ RunsOK
  /\ DownHasNoThread
  /\ FlagTracksThread

(* Whatever is in the environment, the switch and the mode come to one of four. *)
LEMMA FourSettings == \A s \in Settings : s \in Modes \cup {"disabled"}
<1>1. \A raw : Normalized(raw) \in Modes
  BY DEF Normalized, Modes
<1>2. \A enabled \in BOOLEAN : \A raw : Setting(enabled, raw) \in Modes \cup {"disabled"}
  BY <1>1 DEF Setting
<1> QED
  BY <1>2 DEF Settings

(* What the beginning of a run does to the control state.                      *)
LEMMA LaunchEffect ==
  ASSUME NEW w \in Workers, NEW isDry \in BOOLEAN, NEW h, NEW requested,
         Launch(w, isDry, h, requested)
  PROVE  /\ stage[w] = "idle"
         /\ \E s \in {"act", "returned"} :
              /\ stage' = [stage EXCEPT ![w] = s]
              /\ s = "act" => setting \notin {"disabled", "approval_required"}
         /\ dry' = [dry EXCEPT ![w] = isDry]
         /\ UNCHANGED <<setting, up, ran>>
  BY DEF Launch, Return

(* What the inner steps of a run do to it.                                     *)
LEMMA RunEffect ==
  ASSUME NEW w \in Workers, Execute(w) \/ Verify(w) \/ Raise(w)
  PROVE  /\ stage[w] \in {"act", "verify"}
         /\ \E s \in {"act", "verify", "returned"} : stage' = [stage EXCEPT ![w] = s]
         /\ UNCHANGED <<setting, dry>>
         /\ \/ UNCHANGED ran
            \/ ~ DryRun(w) /\ ran' = [ran EXCEPT ![w] = @ \cup {Head(plan[w])}]
  BY DEF Execute, Verify, Raise, Return, GoOn

(* Every way out of a run.                                                     *)
LEMMA ReturnTyped ==
  ASSUME RepairTypeOK, NEW w \in Workers, Return(w)
  PROVE  /\ stage' = [stage EXCEPT ![w] = "returned"]
         /\ plan' \in [Workers -> Seq(Actions)]
         /\ plan' = [plan EXCEPT ![w] = << >>]
         /\ attempt' \in [Workers -> 1..AttemptsCap]
         /\ IsLog(history')
<1>1. [age |-> 0, api |-> FALSE] \in Entries
  BY DEF Entries
<1>2. IsLog(history')
  BY <1>1, Logging DEF RepairTypeOK, Return, IsLog
<1> QED
  BY <1>2, AutoRepairAssumption DEF RepairTypeOK, Return

(* A launch keeps the invariants of the runs: it plans an action or returns.   *)
LEMMA LaunchKeeps ==
  ASSUME RunsOK, NEW w \in Workers, NEW isDry \in BOOLEAN, NEW h,
         NEW requested \in SUBSET Actions, Launch(w, isDry, h, requested)
  PROVE  RunsOK'
<1> DEFINE planned == Planned(h, requested)
<1>1. RepairTypeOK
  BY DEF RunsOK
<1>2. planned \in Seq(Actions) /\ Distinct(planned)
  BY PlanShape, PlansEachAnswerOnce, DistinctParts DEF Planned
<1> HIDE DEF planned
<1>3. /\ plan' \in [Workers -> Seq(Actions)]
      /\ attempt' \in [Workers -> 1..AttemptsCap]
      /\ IsLog(history')
      /\ \A v \in Workers \ {w} : plan'[v] = plan[v]
      /\ stage'[w] = "act" => plan'[w] # << >>
      /\ Distinct(plan'[w])
  <2>1. CASE Return(w)
    BY <1>1, <2>1, ReturnTyped, DistinctParts DEF RepairTypeOK
  <2>2. CASE /\ planned # << >>
             /\ plan' = [plan EXCEPT ![w] = planned]
             /\ UNCHANGED <<history, attempt>>
    BY <1>1, <1>2, <2>2 DEF RepairTypeOK, IsLog
  <2> QED
    BY <2>1, <2>2 DEF Launch, planned
<1>4. RepairTypeOK'
  BY <1>1, <1>3, LaunchEffect DEF RepairTypeOK, IsLog
<1>5. HasPlan'
  BY <1>1, <1>3, LaunchEffect DEF RunsOK, RepairTypeOK, HasPlan
<1>6. IdleHasRunNothing' /\ ActsOnlyIfEnabled' /\ KillSwitch'
  BY <1>1, LaunchEffect
  DEF RunsOK, RepairTypeOK, IdleHasRunNothing, ActsOnlyIfEnabled, KillSwitch
<1> QED
  BY <1>4, <1>5, <1>6 DEF RunsOK

(* The end of a run, or of its process, does.                                  *)
LEMMA LeaveKeeps ==
  ASSUME RunsOK, NEW w \in Workers, Leave(w), UNCHANGED <<setting, up, history>>,
         plan' \in {plan, [plan EXCEPT ![w] = << >>]},
         attempt' \in {attempt, [attempt EXCEPT ![w] = 1]}
  PROVE  RunsOK' /\ stage' = [stage EXCEPT ![w] = "idle"]
<1> USE DEF RunsOK, RepairTypeOK, Leave
<1>0. 1 \in 1..AttemptsCap
  BY AutoRepairAssumption
<1>1. /\ plan' \in [Workers -> Seq(Actions)]
      /\ attempt' \in [Workers -> 1..AttemptsCap]
  <2>1. plan \in [Workers -> Seq(Actions)] /\ << >> \in Seq(Actions)
    OBVIOUS
  <2>2. attempt \in [Workers -> 1..AttemptsCap]
    OBVIOUS
  <2> HIDE DEF RunsOK, RepairTypeOK, Leave
  <2> QED
    BY <1>0, <2>1, <2>2
<1>2. /\ RepairTypeOK'
      /\ HasPlan'
  BY <1>1, DistinctParts DEF HasPlan
<1>3. IdleHasRunNothing' /\ ActsOnlyIfEnabled' /\ KillSwitch'
  BY DEF IdleHasRunNothing, ActsOnlyIfEnabled, KillSwitch
<1> QED
  BY <1>1, <1>2, <1>3

(* A step of a run goes on with the same action or the next one, or returns.   *)
LEMMA RunTyped ==
  ASSUME RunsOK, NEW w \in Workers, Execute(w) \/ Verify(w) \/ Raise(w)
  PROVE  /\ up' \in [Components -> BOOLEAN]
         /\ IsLog(history')
         /\ plan' \in [Workers -> Seq(Actions)]
         /\ attempt' \in [Workers -> 1..AttemptsCap]
         /\ HasPlan'
<1>1. RepairTypeOK /\ HasPlan
  BY DEF RunsOK
<1>2. CASE Return(w) /\ UNCHANGED up
  BY <1>1, <1>2, ReturnTyped, DistinctParts DEF RepairTypeOK, HasPlan
<1>3. CASE Execute(w)
  <2>1. up' \in [Components -> BOOLEAN]
    <3>1. CASE UNCHANGED up
      BY <1>1, <3>1 DEF RepairTypeOK
    <3>2. CASE Restarted(Head(plan[w]))
      BY <1>1, <3>2 DEF RepairTypeOK, Restarted
    <3> QED
      BY <1>3, <3>1, <3>2 DEF Execute
  <2> QED
    BY <1>1, <1>3, <2>1 DEF Execute, RepairTypeOK, HasPlan, IsLog
<1>4. CASE Verify(w) /\ ~ LastAttempt(w) /\ GoOn(w)
  <2>1. plan[w] \in Seq(Actions) /\ plan[w] # << >> /\ attempt[w] \in 1..AttemptsCap
    BY <1>1, <1>4 DEF Verify, RepairTypeOK, HasPlan
  <2>2. CASE attempt[w] < AttemptsCap
    <3>1. plan' = plan /\ attempt' = [attempt EXCEPT ![w] = @ + 1]
      BY <1>4, <2>1, <2>2, AutoRepairAssumption DEF GoOn
    <3>2. attempt[w] + 1 \in 1..AttemptsCap
      BY <2>1, <2>2, AutoRepairAssumption
    <3> QED
      BY <1>1, <1>4, <2>1, <3>1, <3>2 DEF Verify, GoOn, RepairTypeOK, HasPlan, IsLog
  <2>3. CASE attempt[w] = AttemptsCap
    <3>1. Len(plan[w]) # 1
      BY <1>4, <2>3 DEF LastAttempt
    <3>2. /\ Tail(plan[w]) \in Seq(Actions) /\ Tail(plan[w]) # << >>
          /\ Distinct(Tail(plan[w]))
      BY <1>1, <2>1, <3>1, TailLeft, DistinctParts DEF HasPlan
    <3>3. /\ plan' = [plan EXCEPT ![w] = Tail(plan[w])]
          /\ attempt' = [attempt EXCEPT ![w] = 1]
      BY <1>4, <2>3, AutoRepairAssumption DEF GoOn
    <3> QED
      BY <1>1, <1>4, <3>2, <3>3, AutoRepairAssumption
      DEF Verify, GoOn, RepairTypeOK, HasPlan, IsLog
  <2> QED
    BY <1>4, <2>2, <2>3 DEF GoOn
<1> QED
  BY <1>2, <1>3, <1>4 DEF Verify, Raise

LEMMA RunKeeps ==
  ASSUME RunsOK, NEW w \in Workers, Execute(w) \/ Verify(w) \/ Raise(w)
  PROVE  RunsOK'
<1>0. RepairTypeOK
  BY DEF RunsOK
<1>1. PICK s \in {"act", "verify", "returned"} : stage' = [stage EXCEPT ![w] = s]
  BY RunEffect
<1>2. /\ stage[w] \in {"act", "verify"}
      /\ UNCHANGED <<setting, dry>>
      /\ \/ UNCHANGED ran
         \/ ~ DryRun(w) /\ ran' = [ran EXCEPT ![w] = @ \cup {Head(plan[w])}]
  BY RunEffect
<1>3. /\ setting \in {"run", "dry-run"}
      /\ ~ DryRun(w) => setting # "dry-run" /\ ~ dry[w]
  BY <1>2, FourSettings DEF RunsOK, RepairTypeOK, ActsOnlyIfEnabled, DryRun, Modes
<1>4. Head(plan[w]) \in Actions
  BY <1>0, <1>2 DEF RunsOK, RepairTypeOK, HasPlan
<1>5. RepairTypeOK'
  BY <1>0, <1>1, <1>2, <1>4, RunTyped DEF RepairTypeOK, IsLog
<1>6. HasPlan'
  BY RunTyped
<1>7. IdleHasRunNothing' /\ ActsOnlyIfEnabled' /\ KillSwitch'
  <2>1. CASE UNCHANGED ran
    BY <1>0, <1>1, <1>2, <1>3, <2>1
    DEF RunsOK, RepairTypeOK, IdleHasRunNothing, ActsOnlyIfEnabled, KillSwitch
  <2>2. CASE ~ DryRun(w) /\ ran' = [ran EXCEPT ![w] = @ \cup {Head(plan[w])}]
    BY <1>0, <1>1, <1>2, <1>3, <2>2
    DEF RunsOK, RepairTypeOK, IdleHasRunNothing, ActsOnlyIfEnabled, KillSwitch
  <2> QED
    BY <1>2, <2>1, <2>2
<1> QED
  BY <1>5, <1>6, <1>7 DEF RunsOK
-----------------------------------------------------------------------------
LEMMA InitIInv == Init => IInv
<1> SUFFICES ASSUME Init
             PROVE  IInv
  OBVIOUS
<1>1. IsLog(EmptyBag)
  BY DEF IsLog, IsABag, BagToSet, EmptyBag, SetToBag
<1>2. RepairTypeOK
  BY <1>1, AutoRepairAssumption DEF Init, RepairInit, RepairTypeOK, IsLog
<1>3. TypeOK
  <2>1. TriggerCooldown \in 0..TriggerCooldown /\ Crashes \in 0..Crashes
    BY AlertingAssumption
  <2>2. /\ loop = "waiting" /\ redisErrors = {} /\ audit = EmptyBag /\ inProgress = FALSE
        /\ sinceTrigger = TriggerCooldown /\ crashesLeft = Crashes
    BY DEF Init
  <2> QED
    BY <1>1, <1>2, <2>1, <2>2 DEF TypeOK, IsLog
<1>4. stage = [w \in Workers |-> "idle"] /\ ran = [w \in Workers |-> {}] /\ ~ inProgress
  BY DEF Init, RepairInit
<1>5. RunsOK
  BY <1>2, <1>4, DistinctParts
  DEF Init, RepairInit, RunsOK, HasPlan, IdleHasRunNothing, ActsOnlyIfEnabled, KillSwitch
<1>6. DownHasNoThread /\ FlagTracksThread
  BY <1>4, AlertingAssumption DEF DownHasNoThread, FlagTracksThread
<1> QED
  BY <1>3, <1>5, <1>6 DEF IInv

(* A step that leaves the runs alone, and what they work on.                   *)
LEMMA RunsSame == RunsOK /\ UNCHANGED repairVars => RunsOK'
  BY DEF RunsOK, repairVars, RepairTypeOK, HasPlan, IdleHasRunNothing, ActsOnlyIfEnabled, KillSwitch

(* The API's entry in its audit file keeps that a log.                         *)
LEMMA AuditTyped ==
  ASSUME TypeOK, audit' = WithEntry(audit, AuditEntry)
  PROVE  IsLog(audit')
<1>1. AuditEntry \in Entries
  BY DEF AuditEntry, Entries
<1> QED
  BY <1>1, Logging DEF TypeOK, IsLog

(* The rest of the invariant, once the runs have theirs.                       *)
Rest == /\ loop \in {"waiting", "polled", "down"}
        /\ redisErrors \subseteq 0..SpikeWindow
        /\ IsLog(audit)
        /\ inProgress \in BOOLEAN
        /\ sinceTrigger \in 0..TriggerCooldown
        /\ crashesLeft \in 0..Crashes
        /\ DownHasNoThread
        /\ FlagTracksThread

LEMMA Parts == IInv <=> RunsOK /\ Rest
  BY DEF IInv, TypeOK, RunsOK, Rest, IsLog

LEMMA PollKeeps == RunsOK /\ Rest /\ Poll => (RunsOK /\ Rest)'
<1> SUFFICES ASSUME RunsOK, Rest, Poll
             PROVE  (RunsOK /\ Rest)'
  OBVIOUS
<1> USE AlertingAssumption, PolicyAssumption
<1>1. PICK h \in FetchHealth : PollWith(h)
  BY DEF Poll
<1> DEFINE issues == Issues(h, Cardinality(Recorded(h)))
           actions == ToSet(DecideActions(issues))
<1>2. /\ loop = "waiting"
      /\ redisErrors' \subseteq 0..SpikeWindow
      /\ UNCHANGED audit
  BY <1>1 DEF PollWith, Recorded, Rest
<1>3. actions \in SUBSET Actions
  <2> HIDE DEF issues
  <2>1. DecideActions(issues) \in Seq(Actions)
    BY DecideActionsShape
  <2> QED
    BY <2>1 DEF ToSet
<1>4. CASE Trigger(h, actions)
  <2> HIDE DEF actions
  <2>1. /\ ~ inProgress /\ inProgress' = TRUE
        /\ sinceTrigger' = 0
    BY <1>4 DEF Trigger, Skipped
  <2>2. CASE Launch("alerting", FALSE, h, actions) /\ loop' = "polled" /\ UNCHANGED crashesLeft
    <3>1. Launch("alerting", FALSE, h, actions)
      BY <2>2
    <3>2. \E s \in {"act", "returned"} : stage' = [stage EXCEPT !["alerting"] = s]
      BY <3>1, LaunchEffect
    <3>3. stage'["alerting"] # "idle"
      BY <3>2 DEF RunsOK, RepairTypeOK
    <3>4. RunsOK'
      BY <1>3, <3>1, LaunchKeeps
    <3> QED
      BY <1>2, <2>1, <2>2, <3>3, <3>4 DEF Rest, DownHasNoThread, FlagTracksThread, IsLog
  <2>3. CASE loop' = "down" /\ Dies /\ UNCHANGED repairVars
    <3>1. crashesLeft' \in 0..Crashes
      BY <2>3 DEF Rest, Dies
    <3>2. stage["alerting"] = "idle" /\ stage' = stage
      BY <1>2, <2>1, <2>3 DEF Rest, FlagTracksThread, repairVars
    <3> QED
      BY <1>2, <2>1, <2>3, <3>1, <3>2, RunsSame
      DEF Rest, DownHasNoThread, FlagTracksThread, IsLog
  <2> QED
    BY <1>4, <2>2, <2>3 DEF Trigger
<1>5. CASE loop' = "polled" /\ UNCHANGED <<repairVars, inProgress, sinceTrigger, crashesLeft>>
  <2>1. stage' = stage
    BY <1>5 DEF repairVars
  <2> QED
    BY <1>2, <1>5, <2>1, RunsSame DEF Rest, DownHasNoThread, FlagTracksThread, IsLog
<1> QED
  BY <1>1, <1>4, <1>5 DEF PollWith

LEMMA AlertRunKeeps == RunsOK /\ Rest /\ (AlertRun \/ AlertRunEnds) => (RunsOK /\ Rest)'
<1> SUFFICES ASSUME RunsOK, Rest, AlertRun \/ AlertRunEnds
             PROVE  (RunsOK /\ Rest)'
  OBVIOUS
<1> USE AlertingAssumption
<1>1. CASE AlertRun
  <2>1. Execute("alerting") \/ Verify("alerting") \/ Raise("alerting")
    BY <1>1 DEF AlertRun
  <2>2. stage["alerting"] \in {"act", "verify"} /\ stage'["alerting"] # "idle"
    BY <2>1, RunEffect DEF RunsOK, RepairTypeOK
  <2>3. UNCHANGED alertVars
    BY <1>1 DEF AlertRun
  <2> QED
    BY <2>1, <2>2, <2>3, RunKeeps DEF Rest, DownHasNoThread, FlagTracksThread, alertVars, IsLog
<1>2. CASE AlertRunEnds
  <2>1. RunsOK' /\ stage' = [stage EXCEPT !["alerting"] = "idle"]
    BY <1>2, LeaveKeeps DEF AlertRunEnds
  <2> QED
    BY <1>2, <2>1
    DEF AlertRunEnds, RunsOK, RepairTypeOK, Rest, DownHasNoThread, FlagTracksThread, IsLog
<1> QED
  BY <1>1, <1>2

LEMMA ApiKeeps ==
  RunsOK /\ Rest /\ (ApiRequest \/ ApiRun \/ ApiRecord) => (RunsOK /\ Rest)'
<1> SUFFICES ASSUME RunsOK, Rest, ApiRequest \/ ApiRun \/ ApiRecord
             PROVE  (RunsOK /\ Rest)'
  OBVIOUS
<1> USE AlertingAssumption
<1>0. TypeOK
  BY DEF RunsOK, Rest, TypeOK, IsLog
<1>1. SUFFICES /\ RunsOK'
               /\ UNCHANGED <<loop, redisErrors, inProgress, sinceTrigger, crashesLeft>>
               /\ stage'["alerting"] = stage["alerting"]
               /\ IsLog(audit')
  BY DEF Rest, DownHasNoThread, FlagTracksThread
<1>2. CASE ApiRequest
  <2>1. UNCHANGED <<loop, redisErrors, inProgress, sinceTrigger, crashesLeft>>
    BY <1>2 DEF ApiRequest, Rest
  <2>2. CASE (\E isDry \in BOOLEAN : Launch("api", isDry, Snapshot, {})) /\ UNCHANGED audit
    <3>1. PICK isDry \in BOOLEAN : Launch("api", isDry, Snapshot, {})
      BY <2>2
    <3>2. \E s \in {"act", "returned"} : stage' = [stage EXCEPT !["api"] = s]
      BY <3>1, LaunchEffect
    <3>3. RunsOK'
      BY <3>1, LaunchKeeps
    <3> QED
      BY <2>1, <2>2, <3>2, <3>3 DEF RunsOK, RepairTypeOK, Rest, IsLog
  <2>3. CASE audit' = WithEntry(audit, AuditEntry) /\ UNCHANGED repairVars
    BY <1>0, <2>1, <2>3, AuditTyped, RunsSame DEF repairVars
  <2> QED
    BY <1>2, <2>2, <2>3 DEF ApiRequest
<1>3. CASE ApiRun
  <2>1. Execute("api") \/ Verify("api") \/ Raise("api")
    BY <1>3 DEF ApiRun
  <2>2. \E s \in {"act", "verify", "returned"} : stage' = [stage EXCEPT !["api"] = s]
    BY <2>1, RunEffect
  <2> QED
    BY <1>3, <2>1, <2>2, RunKeeps DEF ApiRun, alertVars, RunsOK, RepairTypeOK, Rest, IsLog
<1>4. CASE ApiRecord
  <2>1. RunsOK' /\ stage' = [stage EXCEPT !["api"] = "idle"]
    BY <1>4, LeaveKeeps DEF ApiRecord
  <2> QED
    BY <1>0, <1>4, <2>1, AuditTyped DEF ApiRecord, RunsOK, RepairTypeOK, Rest
<1> QED
  BY <1>2, <1>3, <1>4

(* The environment: services fail, the alerting process dies and starts again. *)
LEMMA EnvironmentKeeps ==
  RunsOK /\ Rest /\ ((\E c \in Failing : Fails(c)) \/ Crash \/ Boot) => (RunsOK /\ Rest)'
<1> SUFFICES ASSUME RunsOK, Rest, (\E c \in Failing : Fails(c)) \/ Crash \/ Boot
             PROVE  (RunsOK /\ Rest)'
  OBVIOUS
<1> USE AlertingAssumption
<1>1. CASE \E c \in Failing : Fails(c)
  <2>1. /\ up' \in [Components -> BOOLEAN]
        /\ UNCHANGED <<setting, history, stage, dry, plan, attempt, ran, alertVars>>
    BY <1>1 DEF Fails, RunsOK, RepairTypeOK
  <2>2. RunsOK'
    BY <2>1
    DEF RunsOK, RepairTypeOK, HasPlan, IdleHasRunNothing, ActsOnlyIfEnabled, KillSwitch
  <2> QED
    BY <2>1, <2>2 DEF alertVars, Rest, DownHasNoThread, FlagTracksThread, IsLog
<1>2. CASE Crash
  <2>1. RunsOK' /\ stage' = [stage EXCEPT !["alerting"] = "idle"]
    BY <1>2, LeaveKeeps DEF Crash
  <2>2. crashesLeft' \in 0..Crashes
    BY <1>2 DEF Crash, Dies, Rest
  <2> QED
    BY <1>2, <2>1, <2>2
    DEF Crash, RunsOK, RepairTypeOK, Rest, DownHasNoThread, FlagTracksThread, IsLog
<1>3. CASE Boot
  <2>1. stage' = stage
    BY <1>3 DEF Boot, repairVars
  <2> QED
    <3>1. RunsOK'
      BY <1>3, RunsSame DEF Boot
    <3>2. TriggerCooldown \in 0..TriggerCooldown
      OBVIOUS
    <3>3. /\ loop = "down" /\ loop' = "waiting" /\ redisErrors' = {} /\ inProgress' = FALSE
          /\ sinceTrigger' = TriggerCooldown /\ UNCHANGED <<audit, crashesLeft>>
      BY <1>3 DEF Boot
    <3> QED
      BY <2>1, <3>1, <3>2, <3>3 DEF Rest, DownHasNoThread, FlagTracksThread, IsLog
<1> QED
  BY <1>1, <1>2, <1>3

LEMMA TickKeeps == RunsOK /\ Rest /\ Tick => (RunsOK /\ Rest)'
<1> SUFFICES ASSUME RunsOK, Rest, Tick
             PROVE  (RunsOK /\ Rest)'
  OBVIOUS
<1> USE AlertingAssumption, PolicyAssumption
<1>1. /\ loop \in {"polled", "down"}
      /\ loop' = IF loop = "polled" THEN "waiting" ELSE loop
      /\ UNCHANGED <<setting, up, stage, dry, plan, attempt, ran, inProgress, 
                     crashesLeft>>
  BY DEF Tick
<1>2. IsLog(history') /\ IsLog(audit')
  BY Ageing DEF Tick, RunsOK, RepairTypeOK, Rest, IsLog
<1>3. redisErrors' \subseteq 0..SpikeWindow /\ sinceTrigger' \in 0..TriggerCooldown
  BY DEF Tick, Rest
<1>4. RunsOK'
  BY <1>1, <1>2
  DEF RunsOK, RepairTypeOK, HasPlan, IdleHasRunNothing, ActsOnlyIfEnabled, KillSwitch, IsLog
<1> QED
  BY <1>1, <1>2, <1>3, <1>4 DEF Rest, DownHasNoThread, FlagTracksThread

(* Every step keeps the invariant.                                             *)
LEMMA NextIInv == IInv /\ [Next]_vars => IInv'
<1> SUFFICES ASSUME RunsOK, Rest, [Next]_vars
             PROVE  (RunsOK /\ Rest)'
  BY Parts, PTL
<1>1. CASE UNCHANGED vars
  <2>1. UNCHANGED <<repairVars, alertVars, stage>>
    BY <1>1 DEF vars, repairVars
  <2> QED
    BY <2>1, RunsSame DEF alertVars, Rest, DownHasNoThread, FlagTracksThread, IsLog
<1> QED
  BY <1>1, PollKeeps, AlertRunKeeps, ApiKeeps, EnvironmentKeeps, TickKeeps DEF Next

LEMMA SpecIInv == Spec => []IInv
  BY InitIInv, NextIInv, PTL DEF Spec

(* The globals of alerting.py and the state of the runs keep their ranges: in  *)
(* particular a run that acts always has an action to take, and gives it no    *)
(* more than MAX_ATTEMPTS_PER_ACTION attempts (auto_repair.py:716-750).        *)
THEOREM AlertingTypeCorrect == Spec => []TypeOK
  BY SpecIInv, PTL DEF IInv

(* No run of the loop has an action twice in its plan, so that it attempts each *)
(* MAX_ATTEMPTS_PER_ACTION times at most, whatever issues call for it; and it   *)
(* never comes to act or verify with nothing left (auto_repair.py:716-750).     *)
THEOREM PlansStayDistinct == Spec => []HasPlan
  BY SpecIInv, PTL DEF IInv, RunsOK

(* While the alerting process lives, its in-progress flag is set exactly when  *)
(* its repair thread has not finished (alerting.py:309-311, 330-335), whatever *)
(* the cooldowns, the history and the services do.                             *)
THEOREM FlagRight == Spec => []FlagTracksThread
  BY SpecIInv, PTL DEF IInv

(* No command runs while auto-repair is off, waits for approval or is a dry    *)
(* run (auto_repair.py:89-103, action_executor.py:37-64).                      *)
THEOREM KillSwitchHolds == Spec => []KillSwitch
  BY SpecIInv, PTL DEF IInv, RunsOK
-----------------------------------------------------------------------------
(* What a run executes.                                                        *)

LEMMA ThreeActions == Cardinality(Actions) = 3
<1>1. IsFiniteSet({}) /\ Cardinality({}) = 0
  BY FS_EmptySet
<1>2. IsFiniteSet({"restart_redis"}) /\ Cardinality({"restart_redis"}) = 1
  BY <1>1, FS_AddElement
<1>3. /\ IsFiniteSet({"restart_redis", "restart_gateway"})
      /\ Cardinality({"restart_redis", "restart_gateway"}) = 2
  <2>1. {"restart_redis", "restart_gateway"} = {"restart_redis"} \cup {"restart_gateway"}
    OBVIOUS
  <2> QED
    BY <1>2, <2>1, FS_AddElement
<1> QED
  <2>1. Actions = {"restart_redis", "restart_gateway"} \cup {"restart_queue_worker"}
    BY DEF Actions
  <2> QED
    BY <1>3, <2>1, FS_AddElement

(* A plan without repetitions is no longer than there are actions.             *)
LEMMA ShortPlan ==
  ASSUME NEW s \in Seq(Actions), Distinct(s)
  PROVE  Len(s) \in 0..3
<1> SUFFICES ASSUME Len(s) \notin 0..3
             PROVE  FALSE
  OBVIOUS
<1>1. {1, 2, 3, 4} \subseteq 1..Len(s)
  <2> DEFINE n == Len(s)
  <2>1. n \in Nat /\ n \notin 0..3
    OBVIOUS
  <2> HIDE DEF n
  <2>2. n >= 4
    BY <2>1
  <2>3. {1, 2, 3, 4} \subseteq 1..n
    BY <2>1, <2>2
  <2> QED
    BY <2>3 DEF n
<1>2. \A i \in {1, 2, 3, 4} : s[i] \in Actions
  BY <1>1
<1>3. \A i, j \in {1, 2, 3, 4} : s[i] = s[j] => i = j
  BY <1>1 DEF Distinct
<1> DEFINE a == s[1]
           b == s[2]
           c == s[3]
           d == s[4]
<1>4. /\ {a, b, c, d} \subseteq {"restart_redis", "restart_gateway", "restart_queue_worker"}
      /\ a # b /\ a # c /\ a # d /\ b # c /\ b # d /\ c # d
  BY <1>2, <1>3 DEF Actions
<1> HIDE DEF a, b, c, d
<1> QED
  BY <1>4

(* The budget, written without a product.                                      *)
LEMMA BudgetIs ==
  ASSUME RepairTypeOK, HasPlan, NEW w \in Workers, stage[w] \in {"act", "verify"}
  PROVE  LET left == AttemptsCap - attempt[w] + (IF stage[w] = "act" THEN 1 ELSE 0)
         IN  /\ AttemptsCap \in Nat /\ attempt[w] \in 1..AttemptsCap
             /\ \/ Len(plan[w]) = 1 /\ Budget(w) = left
                \/ Len(plan[w]) = 2 /\ Budget(w) = AttemptsCap + left
                \/ Len(plan[w]) = 3 /\ Budget(w) = AttemptsCap + AttemptsCap + left
<1>1. AttemptsCap \in Nat /\ attempt[w] \in 1..AttemptsCap
  BY AutoRepairAssumption DEF RepairTypeOK
<1>2. plan[w] \in Seq(Actions) /\ Distinct(plan[w]) /\ plan[w] # << >>
  BY DEF RepairTypeOK, HasPlan
<1>3. Len(plan[w]) \in {1, 2, 3}
  BY <1>2, ShortPlan
<1>4. (1 - 1) * AttemptsCap = 0 /\ (2 - 1) * AttemptsCap = AttemptsCap
      /\ (3 - 1) * AttemptsCap = AttemptsCap + AttemptsCap
  BY <1>1
<1> DEFINE left == AttemptsCap - attempt[w] + (IF stage[w] = "act" THEN 1 ELSE 0)
<1>5. left \in Int
  BY <1>1
<1>6. Budget(w) = (Len(plan[w]) - 1) * AttemptsCap + left
  <2>1. (Len(plan[w]) - 1) * AttemptsCap \in Int
    BY <1>1, <1>3
  <2> QED
    BY <1>1, <2>1 DEF Budget
<1> HIDE DEF left
<1>7. CASE Len(plan[w]) = 1
  BY <1>1, <1>4, <1>5, <1>6, <1>7 DEF left
<1>8. CASE Len(plan[w]) = 2
  BY <1>1, <1>4, <1>5, <1>6, <1>8 DEF left
<1>9. CASE Len(plan[w]) = 3
  BY <1>1, <1>4, <1>5, <1>6, <1>9 DEF left
<1> QED
  BY <1>3, <1>7, <1>8, <1>9

LEMMA Within ==
  ASSUME RepairTypeOK, HasPlan
  PROVE  WithinBudget
<1> SUFFICES ASSUME NEW w \in Workers
             PROVE  Budget(w) \in 0..Cardinality(Actions) * AttemptsCap
  BY DEF WithinBudget
<1>1. /\ AttemptsCap \in Nat
      /\ Cardinality(Actions) * AttemptsCap = AttemptsCap + AttemptsCap + AttemptsCap
  BY ThreeActions, AutoRepairAssumption
<1>2. CASE stage[w] \in {"act", "verify"}
  BY <1>1, <1>2, BudgetIs
<1>3. CASE stage[w] \notin {"act", "verify"}
  BY <1>1, <1>3 DEF Budget
<1> QED
  BY <1>2, <1>3

(* An execution takes one from the budget of its run.                          *)
LEMMA ExecutionTakes ==
  ASSUME RunsOK, RunsOK', NEW w \in Workers, Execute(w)
  PROVE  Budget(w)' < Budget(w)
<1>1. /\ stage[w] = "act" /\ stage'[w] = "verify"
      /\ plan'[w] = plan[w] /\ attempt'[w] = attempt[w]
  BY DEF Execute, RunsOK, RepairTypeOK
<1>2. RepairTypeOK /\ HasPlan /\ (RepairTypeOK /\ HasPlan)'
  BY DEF RunsOK
<1>3. /\ AttemptsCap \in Nat /\ attempt[w] \in Nat
      /\ \/ Len(plan[w]) = 1 /\ Budget(w) = AttemptsCap - attempt[w] + 1
         \/ Len(plan[w]) = 2 /\ Budget(w) = AttemptsCap + AttemptsCap - attempt[w] + 1
         \/ Len(plan[w]) = 3 /\ Budget(w) = AttemptsCap + AttemptsCap + AttemptsCap - attempt[w] + 1
  BY <1>1, <1>2, BudgetIs
<1>4. Budget(w)' = (Len(plan[w]) - 1) * AttemptsCap + (AttemptsCap - attempt[w])
  BY <1>1, <1>3 DEF Budget
<1>5. Budget(w) = (Len(plan[w]) - 1) * AttemptsCap + (AttemptsCap - attempt[w]) + 1
  BY <1>1 DEF Budget
<1>6. Budget(w) \in Nat
  BY <1>3, BudgetIs, <1>1, <1>2
<1> QED
  BY <1>3, <1>4, <1>5, <1>6

(* To go on to the next attempt or action gives nothing back.                  *)
LEMMA GoingOnTakes ==
  ASSUME RunsOK, NEW w \in Workers, stage[w] = "verify", GoOn(w), ~ LastAttempt(w)
  PROVE  Budget(w)' <= Budget(w)
<1>1. RepairTypeOK /\ HasPlan /\ stage'[w] = "act"
  BY DEF RunsOK, RepairTypeOK, GoOn
<1>2. /\ AttemptsCap \in Nat \ {0} /\ attempt[w] \in 1..AttemptsCap
      /\ plan[w] \in Seq(Actions) /\ plan[w] # << >>
  BY <1>1, AutoRepairAssumption DEF RepairTypeOK, HasPlan
<1> DEFINE C == AttemptsCap
           L == Len(plan[w])
<1>3. /\ L \in {1, 2, 3}
      /\ Budget(w) = (L - 1) * C + (C - attempt[w])
  BY <1>1, BudgetIs DEF Budget
<1>4. CASE attempt[w] < C
  <2>1. plan'[w] = plan[w] /\ attempt'[w] = attempt[w] + 1
    BY <1>1, <1>2, <1>4 DEF GoOn, RepairTypeOK
  <2>2. Budget(w)' = (L - 1) * C + (C - (attempt[w] + 1)) + 1
    BY <1>1, <2>1 DEF Budget
  <2>3. (L - 1) * C \in Int
    BY <1>2, <1>3
  <2> HIDE DEF L
  <2> QED
    BY <1>2, <1>3, <2>2, <2>3
<1>5. CASE attempt[w] = C
  <2>1. plan'[w] = Tail(plan[w]) /\ attempt'[w] = 1
    BY <1>1, <1>2, <1>5 DEF GoOn, RepairTypeOK
  <2>2. Len(Tail(plan[w])) = L - 1 /\ L # 1
    BY <1>2, <1>5 DEF LastAttempt
  <2>3. Budget(w)' = (L - 1 - 1) * C + (C - 1) + 1
    BY <1>1, <2>1, <2>2 DEF Budget
  <2> HIDE DEF L
  <2>4. CASE L = 2
    <3>1. (2 - 1 - 1) * C = 0 /\ (2 - 1) * C = C
      BY <1>2
    <3> QED
      BY <1>2, <1>3, <1>5, <2>3, <2>4, <3>1
  <2>5. CASE L = 3
    <3>1. (3 - 1 - 1) * C = C /\ (3 - 1) * C = C + C
      BY <1>2
    <3> QED
      BY <1>2, <1>3, <1>5, <2>3, <2>5, <3>1
  <2> QED
    BY <1>3, <2>2, <2>4, <2>5
<1> QED
  BY <1>2, <1>4, <1>5

Spends(w) ==
  /\ stage[w] # "idle" => Budget(w)' <= Budget(w)
  /\ stage[w] = "act" /\ stage'[w] = "verify" => Budget(w)' < Budget(w)

(* A step that leaves a run alone, ends it or begins it spends nothing.        *)
LEMMA OthersSpendNothing ==
  ASSUME RunsOK, NEW w \in Workers,
         \/ UNCHANGED <<stage[w], plan[w], attempt[w]>>
         \/ stage'[w] \in {"idle", "returned"}
         \/ stage[w] = "idle"
  PROVE  Spends(w)
<1>1. Budget(w) \in Nat
  BY Within, ThreeActions, AutoRepairAssumption DEF RunsOK, WithinBudget
<1>2. CASE UNCHANGED <<stage[w], plan[w], attempt[w]>>
  <2>1. Budget(w)' = Budget(w)
    BY <1>2 DEF Budget
  <2> QED
    BY <1>1, <1>2, <2>1 DEF Spends
<1>3. CASE stage'[w] \in {"idle", "returned"}
  <2>1. Budget(w)' = 0
    BY <1>3 DEF Budget
  <2> QED
    BY <1>1, <1>3, <2>1 DEF Spends
<1> QED
  BY <1>2, <1>3 DEF Spends

LEMMA RunSpends ==
  ASSUME RunsOK, RunsOK', NEW w \in Workers, Execute(w) \/ Verify(w) \/ Raise(w)
  PROVE  \A v \in Workers : Spends(v)
<1>0. RepairTypeOK
  BY DEF RunsOK
<1>1. \A v \in Workers \ {w} : UNCHANGED <<stage[v], plan[v], attempt[v]>>
  BY <1>0 DEF RepairTypeOK, Execute, Verify, Raise, Return, GoOn
<1>2. Spends(w)
  <2>1. CASE Execute(w)
    <3>1. Budget(w)' < Budget(w) /\ Budget(w) \in Nat /\ Budget(w)' \in Nat
      <4>1. WithinBudget /\ WithinBudget'
        BY Within, PTL DEF RunsOK
      <4> QED
        BY <2>1, <4>1, ExecutionTakes, ThreeActions, AutoRepairAssumption DEF WithinBudget
    <3> QED
      BY <3>1 DEF Spends
  <2>2. CASE Return(w)
    BY <1>0, <2>2, OthersSpendNothing DEF Return, RepairTypeOK
  <2>3. CASE Verify(w) /\ GoOn(w) /\ ~ LastAttempt(w)
    BY <2>3, GoingOnTakes DEF Spends, Verify
  <2> QED
    BY <2>1, <2>2, <2>3 DEF Verify, Raise
<1> QED
  BY <1>1, <1>2, OthersSpendNothing

LEMMA NextSpends ==
  ASSUME IInv, IInv', [Next]_vars
  PROVE  \A w \in Workers : Spends(w)
<1> USE AlertingAssumption
<1>0. RunsOK /\ RunsOK' /\ RepairTypeOK
  BY DEF IInv, RunsOK
<1>1. CASE UNCHANGED <<stage, plan, attempt>>
  BY <1>0, <1>1, OthersSpendNothing
<1>2. CASE AlertRun \/ ApiRun
  BY <1>0, <1>2, RunSpends DEF AlertRun, ApiRun
<1>3. ASSUME NEW w \in Workers, NEW isDry, NEW h, NEW requested, Launch(w, isDry, h, requested)
      PROVE  \A v \in Workers : Spends(v)
  <2>1. stage[w] = "idle"
    BY <1>3 DEF Launch
  <2>2. \A v \in Workers \ {w} : UNCHANGED <<stage[v], plan[v], attempt[v]>>
    BY <1>0, <1>3 DEF Launch, Return, RepairTypeOK
  <2> QED
    BY <1>0, <2>1, <2>2, OthersSpendNothing
<1>4. CASE Poll
  BY <1>1, <1>3, <1>4 DEF Poll, PollWith, Trigger, repairVars
<1>5. CASE ApiRequest
  BY <1>1, <1>3, <1>5 DEF ApiRequest, repairVars
<1>6. CASE AlertRunEnds \/ ApiRecord \/ Crash
  <2>1. PICK w \in Workers :
          /\ stage' = [stage EXCEPT ![w] = "idle"]
          /\ plan' \in {plan, [plan EXCEPT ![w] = << >>]}
          /\ attempt' \in {attempt, [attempt EXCEPT ![w] = 1]}
    BY <1>6 DEF AlertRunEnds, ApiRecord, Crash, Leave
  <2>2. stage'[w] = "idle" /\ \A v \in Workers \ {w} : UNCHANGED <<stage[v], plan[v], attempt[v]>>
    BY <1>0, <2>1 DEF RepairTypeOK
  <2> QED
    BY <1>0, <2>2, OthersSpendNothing
<1> QED
  BY <1>1, <1>2, <1>4, <1>5, <1>6
  DEF Next, Fails, Boot, Tick, vars, repairVars

(* A run executes MAX_ATTEMPTS_PER_ACTION times the number of actions at most,  *)
(* whatever fails while it verifies: what it has left never grows and shrinks  *)
(* with every execution (auto_repair.py:716-750).                              *)
THEOREM RunsBounded == Spec => RunsAreBounded
<1>1. IInv => WithinBudget
  BY Within DEF IInv, RunsOK
<1>2. IInv /\ IInv' /\ [Next]_vars
        => [\A w \in Workers :
              /\ stage[w] # "idle" => Budget(w)' <= Budget(w)
              /\ stage[w] = "act" /\ stage'[w] = "verify" => Budget(w)' < Budget(w)]_vars
  BY NextSpends DEF Spends
<1> QED
  BY <1>1, <1>2, SpecIInv, PTL DEF Spec, RunsAreBounded
=============================================================================

----------------------------- MODULE RepairJobs -----------------------------
(***************************************************************************)
(* api/routes/repair.py: the repair jobs of one API process.               *)
(*                                                                         *)
(* The handlers are coroutines of one event loop: a handler runs alone     *)
(* until its await (_wait_current_job's to_thread is the only one).  The   *)
(* job runs on the executor's single thread and may end at any moment,     *)
(* also in the middle of a handler; so a handler is cut wherever it looks  *)
(* at the future again, and holds the loop in between.                     *)
(***************************************************************************)
EXTENDS Integers, Sequences

CONSTANTS
    Requests,       \* POSTs to /repair/run and /repair/dry-run, by correlation_id
    RecentLimit,    \* RECENT_RESULTS_LIMIT
    None

ASSUME NoneIsNoRequest == None \notin Requests
ASSUME StatusIsNoRequest == "status" \notin Requests   \* the other holder of the loop
ASSUME LimitPos == RecentLimit \in Nat \ {0}

VARIABLES
    job,        \* the future of each request, and how its job ended
    current,    \* _CURRENT_FUTURE, with the fields set beside it
    recent,     \* _RECENT_RESULTS; _LAST_RESULT is its last element
    lastError,  \* _LAST_ERROR is not None
    audit,      \* logs/repair_audit.jsonl: how many lines name each request
    pc,         \* where the handler of each request is
    loop,       \* the handler that holds the event loop between two looks
    recorded,   \* history: the jobs that ever entered recent
    replaced    \* history: the jobs whose future was overwritten

vars == <<job, current, recent, lastError, audit, pc, loop, recorded, replaced>>

Unfinished == {"pending", "running"}
Ended == {"repaired", "unrepaired", "raised"}
Answers == {"completed", "failed", "still running", "busy", "refused"}

Done(f) == job[f] \in Ended

Init ==
    /\ job = [r \in Requests |-> "none"]
    /\ current = None
    /\ recent = <<>>
    /\ lastError = FALSE
    /\ audit = [r \in Requests |-> 0]
    /\ pc = [r \in Requests |-> "idle"]
    /\ loop = None
    /\ recorded = {}
    /\ replaced = {}

-----------------------------------------------------------------------------
(* Helpers shared by the handlers.                                         *)

(* A line is written, or the write fails and is only logged. *)
AppendAudit(r) == audit' \in {audit, [audit EXCEPT ![r] = @ + 1]}

(* deque(maxlen = RecentLimit).append *)
Push(s, r) ==
    IF Len(s) < RecentLimit THEN Append(s, r) ELSE Append(Tail(s), r)

(* mutation: a job that raised is not taken off the slot *)
RefreshKeepsRaised ==
    IF current # None /\ Done(current) /\ job[current] # "raised"
      THEN /\ recent' = Push(recent, current)
           /\ recorded' = recorded \cup {current}
           /\ lastError' = FALSE
           /\ AppendAudit(current)
           /\ current' = None
      ELSE UNCHANGED <<recent, recorded, lastError, audit, current>>

(* mutation: the slot is not cleared when the result is recorded *)
RefreshTwice ==
    IF current # None /\ Done(current)
      THEN /\ recent' = Push(recent, current)
           /\ recorded' = recorded \cup {current}
           /\ lastError' = (job[current] = "raised")
           /\ AppendAudit(current)
           /\ UNCHANGED current
      ELSE UNCHANGED <<recent, recorded, lastError, audit, current>>

(* mutation: a raised job frees the slot without a record *)
RefreshDropsRaised ==
    IF current # None /\ Done(current)
      THEN /\ IF job[current] = "raised"
                THEN UNCHANGED <<recent, recorded, audit>>
                ELSE /\ recent' = Push(recent, current)
                     /\ recorded' = recorded \cup {current}
                     /\ AppendAudit(current)
           /\ lastError' = (job[current] = "raised")
           /\ current' = None
      ELSE UNCHANGED <<recent, recorded, lastError, audit, current>>

(* _refresh_job_state: the result of a finished job is recorded and audited, *)
(* and the slot is free again.                                               *)
Refresh ==
    IF current # None /\ Done(current)
      THEN /\ recent' = Push(recent, current)
           /\ recorded' = recorded \cup {current}
           /\ lastError' = (job[current] = "raised")
           /\ AppendAudit(current)
           /\ current' = None
      ELSE UNCHANGED <<recent, recorded, lastError, audit, current>>

Answer(r, a) == pc' = [pc EXCEPT ![r] = a]

-----------------------------------------------------------------------------
(* repair_run and repair_dry_run.                                          *)

(* _submit_repair_job begins with a refresh. *)
SubmitRefresh(r) ==
    /\ loop = None
    /\ pc[r] = "idle"
    /\ Refresh
    /\ loop' = r
    /\ UNCHANGED <<job, pc, replaced>>

(* It finds a job that is not done: the request is told so, and audited as   *)
(* failed.                                                                   *)
SubmitBusy(r) ==
    /\ loop = r
    /\ current # None /\ ~Done(current)
    /\ AppendAudit(r)
    /\ Answer(r, "busy")
    /\ loop' = None
    /\ UNCHANGED <<job, current, recent, lastError, recorded, replaced>>

SlotLooksFree == current # None => Done(current)

(* mutation: the future is not tested *)
SubmitStartBlindly(r) ==
    /\ loop = r
    /\ job' = [job EXCEPT ![r] = "pending"]
    /\ current' = r
    /\ lastError' = FALSE
    /\ replaced' = IF current = None THEN replaced ELSE replaced \cup {current}
    /\ pc' = [pc EXCEPT ![r] = "waiting"]
    /\ loop' = None
    /\ UNCHANGED <<recent, audit, recorded>>

(* It finds none, or one that ended since the refresh and is overwritten.  The *)
(* job goes to the executor, and _wait_current_job waits for this very future: *)
(* nothing is awaited between the two.                                         *)
SubmitStart(r) ==
    /\ loop = r
    /\ SlotLooksFree
    /\ job' = [job EXCEPT ![r] = "pending"]
    /\ current' = r
    /\ lastError' = FALSE
    /\ replaced' = IF current = None THEN replaced ELSE replaced \cup {current}
    /\ pc' = [pc EXCEPT ![r] = "waiting"]
    /\ loop' = None
    /\ UNCHANGED <<recent, audit, recorded>>

(* The executor refuses (it is shut down): everything is cleared and audited. *)
SubmitRefused(r) ==
    /\ loop = r
    /\ SlotLooksFree
    /\ current' = None
    /\ lastError' = TRUE
    /\ replaced' = IF current = None THEN replaced ELSE replaced \cup {current}
    /\ AppendAudit(r)
    /\ Answer(r, "refused")
    /\ loop' = None
    /\ UNCHANGED <<job, recent, recorded>>

(* future.result(30) gives up while the job is not done. *)
WaitGivesUp(r) ==
    /\ pc[r] = "waiting"
    /\ ~Done(r)
    /\ pc' = [pc EXCEPT ![r] = "timed out"]
    /\ UNCHANGED <<job, current, recent, lastError, audit, loop, recorded, replaced>>

(* mutation: the answer goes out without a refresh *)
WaitDoneUnrecorded(r) ==
    /\ loop = None
    /\ pc[r] = "waiting"
    /\ job[r] \in {"repaired", "unrepaired"}
    /\ Answer(r, "completed")
    /\ UNCHANGED <<job, current, recent, lastError, audit, loop, recorded, replaced>>

(* The handler goes on with its result, and refreshes: what it then finds on *)
(* the slot may be another request's job.                                    *)
WaitDone(r) ==
    /\ loop = None
    /\ pc[r] = "waiting"
    /\ job[r] \in {"repaired", "unrepaired"}
    /\ Refresh
    /\ Answer(r, "completed")
    /\ UNCHANGED <<job, loop, replaced>>

(* The job raised: no refresh, and _LAST_ERROR is assigned as a local. *)
WaitRaised(r) ==
    /\ loop = None
    /\ pc[r] = "waiting"
    /\ job[r] = "raised"
    /\ Answer(r, "failed")
    /\ UNCHANGED <<job, current, recent, lastError, audit, loop, recorded, replaced>>

(* mutation: giving up on the wait gives up the slot *)
WaitTimedOutReleases(r) ==
    /\ loop = None
    /\ pc[r] = "timed out"
    /\ Answer(r, "still running")
    /\ current' = None
    /\ UNCHANGED <<job, recent, lastError, audit, loop, recorded, replaced>>

WaitTimedOut(r) ==
    /\ loop = None
    /\ pc[r] = "timed out"
    /\ Answer(r, "still running")
    /\ UNCHANGED <<job, current, recent, lastError, audit, loop, recorded, replaced>>

-----------------------------------------------------------------------------
(* repair_status: a refresh, then a second look at the future.             *)

StatusRefresh ==
    /\ loop = None
    /\ Refresh
    /\ loop' = "status"
    /\ UNCHANGED <<job, pc, replaced>>

(* mutation: a job that the executor has not begun is not running *)
LooksRunningOnceBegun == current # None /\ job[current] = "running"

LooksRunning == current # None /\ ~Done(current)

(* The reply says running or idle, by LooksRunning. *)
StatusReply ==
    /\ loop = "status"
    /\ loop' = None
    /\ UNCHANGED <<job, current, recent, lastError, audit, pc, recorded, replaced>>

-----------------------------------------------------------------------------
(* The executor: one thread (max_workers = 1).                             *)

WorkerTake(r) ==
    /\ job[r] = "pending"
    /\ \A s \in Requests : job[s] # "running"
    /\ job' = [job EXCEPT ![r] = "running"]
    /\ UNCHANGED <<current, recent, lastError, audit, pc, loop, recorded, replaced>>

(* run_auto_repair_loop returns a result or, before its try, raises. *)
WorkerFinish(r, how) ==
    /\ job[r] = "running"
    /\ how \in Ended
    /\ job' = [job EXCEPT ![r] = how]
    /\ UNCHANGED <<current, recent, lastError, audit, pc, loop, recorded, replaced>>

Handler(r) ==
    \/ SubmitRefresh(r) \/ SubmitBusy(r) \/ SubmitStart(r) \/ SubmitRefused(r)
    \/ WaitGivesUp(r) \/ WaitDone(r) \/ WaitRaised(r) \/ WaitTimedOut(r)

Worker(r) == WorkerTake(r) \/ \E how \in Ended : WorkerFinish(r, how)

Next ==
    \/ StatusRefresh \/ StatusReply
    \/ \E r \in Requests : Handler(r) \/ Worker(r)

(* A handler that holds the loop goes on, the loop serves its ready handlers  *)
(* in order (a waiter that is ready again and again gets its turn), the       *)
(* executor's thread runs, repairs end (each of their commands and requests   *)
(* has a timeout), and an open dashboard (frontend/dist) asks for the status  *)
(* every 5 s.                                                                *)
Fairness ==
    /\ WF_vars(StatusReply)
    /\ WF_vars(StatusRefresh)
    /\ \A r \in Requests :
          /\ WF_vars(SubmitBusy(r) \/ SubmitStart(r) \/ SubmitRefused(r))
          /\ SF_vars(WaitDone(r) \/ WaitRaised(r) \/ WaitTimedOut(r))
          /\ WF_vars(Worker(r))

Spec == Init /\ [][Next]_vars
FairSpec == Spec /\ Fairness

-----------------------------------------------------------------------------
(* Properties.                                                             *)

(* The shape of the module's globals and of the handlers; the deque of       *)
(* recent results never outgrows its limit.                                  *)
TypeOK ==
    /\ job \in [Requests -> {"none"} \cup Unfinished \cup Ended]
    /\ current \in Requests \cup {None}
    /\ recent \in Seq(Requests) /\ Len(recent) <= RecentLimit
    /\ lastError \in BOOLEAN
    /\ audit \in [Requests -> Nat]
    /\ pc \in [Requests -> {"idle", "waiting", "timed out"} \cup Answers]
    /\ loop \in Requests \cup {None, "status"}
    /\ recorded \in SUBSET Requests
    /\ replaced \in SUBSET Requests

(* A job that is queued or running is the one the slot names, however the     *)
(* handlers of other requests, status polls and timed-out waiters interleave  *)
(* with it: no repair runs behind the back of the API.                        *)
UnfinishedIsTracked ==
    \A r \in Requests : job[r] \in Unfinished => current = r

(* A job that ended is still on the slot, or was recorded, or had its future  *)
(* overwritten by a submission that looked twice while it ended.  Nothing     *)
(* else loses a result.                                                       *)
EndedIsAccountedFor ==
    \A r \in Requests :
        job[r] \in Ended => current = r \/ r \in recorded \/ r \in replaced

(* Every request leaves at most one line in the audit log: its own refusal,   *)
(* or the outcome of its job, although its waiter, later submissions and      *)
(* status polls all refresh.  (The policy engine counts these lines.)         *)
AuditedOnce == \A r \in Requests : audit[r] <= 1

(* A client that is told the result of its repair finds it in the records,    *)
(* unless the job's future was overwritten.                                   *)
AnsweredIsRecorded ==
    \A r \in Requests : pc[r] = "completed" => r \in recorded \cup replaced

(* The status reply says running exactly if a job is queued or running at     *)
(* that moment, although jobs end between its refresh and its second look.    *)
StatusTruthful ==
    loop = "status" => (LooksRunning <=> \E r \in Requests : job[r] \in Unfinished)

(* Repairs do not overlap: RepairJobs implements RepairSlot. *)
Slot == INSTANCE RepairSlot WITH
            active <- {r \in Requests : job[r] \in Unfinished},
            ended <- {r \in Requests : job[r] \in Ended}
Exclusive == Slot!Spec

(* The slot never stays taken: whoever refreshes next frees it, also when the *)
(* job raised and when its waiter left.                                       *)
SlotFreed == \A r \in Requests : current = r ~> current # r
=============================================================================

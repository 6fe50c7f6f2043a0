-------------------------- MODULE RepairJobsProofs --------------------------
(***************************************************************************)
(* Proofs about RepairJobs for any set of requests: the safety invariants, *)
(* and that repairs never overlap (the refinement of RepairSlot).          *)
(***************************************************************************)
EXTENDS RepairJobs, TLAPS

(* What ties the handler of a request to its job, its record and its line. *)
HandlerInv(r) ==
    /\ loop = r => pc[r] = "idle"
    /\ pc[r] = "idle" => job[r] = "none" /\ audit[r] = 0
    /\ pc[r] \in {"busy", "refused"} => job[r] = "none"
    /\ job[r] = "none" => pc[r] \in {"idle", "busy", "refused"}
    /\ r \in recorded => job[r] \in Ended /\ current # r
    /\ current = r => job[r] # "none"
    /\ job[r] # "none" /\ r \notin recorded => audit[r] = 0

Handlers == \A r \in Requests : HandlerInv(r)

IInv ==
    /\ TypeOK
    /\ UnfinishedIsTracked
    /\ EndedIsAccountedFor
    /\ AuditedOnce
    /\ AnsweredIsRecorded
    /\ Handlers

-----------------------------------------------------------------------------

(* The bounded append keeps a deque of requests within its limit. *)
LEMMA PushType ==
    ASSUME NEW s \in Seq(Requests), Len(s) <= RecentLimit, NEW r \in Requests
    PROVE  Push(s, r) \in Seq(Requests) /\ Len(Push(s, r)) <= RecentLimit
  <1>1. CASE Len(s) < RecentLimit
    BY <1>1, LimitPos DEF Push
  <1>2. CASE ~(Len(s) < RecentLimit)
    <2>1. Len(s) = RecentLimit /\ s # <<>>
      BY <1>2, LimitPos
    <2>2. Tail(s) \in Seq(Requests) /\ Len(Tail(s)) = Len(s) - 1
      BY <2>1
    <2>3. Len(Append(Tail(s), r)) = Len(Tail(s)) + 1 /\ Append(Tail(s), r) \in Seq(Requests)
      BY <2>2
    <2>4. QED
      BY <1>2, <2>1, <2>2, <2>3, LimitPos DEF Push
  <1>3. QED
    BY <1>1, <1>2

(* What a refresh does, in the terms the invariant needs. *)
LEMMA RefreshEffect ==
    ASSUME IInv, Refresh
    PROVE  /\ current' \in Requests \cup {None}
           /\ recent' \in Seq(Requests) /\ Len(recent') <= RecentLimit
           /\ lastError' \in BOOLEAN
           /\ audit' \in [Requests -> Nat]
           /\ recorded' \in SUBSET Requests
           /\ recorded \subseteq recorded'
           /\ \A r \in Requests : r \in recorded' \ recorded =>
                                     current = r /\ job[r] \in Ended /\ current' = None
           /\ \A r \in Requests : current = r /\ job[r] \in Ended => r \in recorded'
           /\ current' = IF current # None /\ job[current] \in Ended THEN None ELSE current
           /\ \A r \in Requests : audit'[r] # audit[r] =>
                                     r \in recorded' /\ audit[r] = 0 /\ audit'[r] = 1
  <1>1. CASE current # None /\ Done(current)
    <2>1. current \in Requests /\ job[current] \in Ended
      BY <1>1 DEF IInv, TypeOK, Done
    <2>2. /\ recent' = Push(recent, current)
          /\ recorded' = recorded \cup {current}
          /\ lastError' = (job[current] = "raised")
          /\ AppendAudit(current)
          /\ current' = None
      BY <1>1 DEF Refresh
    <2>3. recent' \in Seq(Requests) /\ Len(recent') <= RecentLimit
      BY <2>1, <2>2, PushType DEF IInv, TypeOK
    <2>4. audit[current] = 0
      BY <2>1 DEF IInv, Handlers, HandlerInv, Ended
    <2>5. /\ audit' \in [Requests -> Nat]
          /\ \A r \in Requests : audit'[r] # audit[r] => r = current /\ audit'[r] = 1
      <3>1. audit \in [Requests -> Nat]
        BY DEF IInv, TypeOK
      <3>2. audit' = audit \/ audit' = [audit EXCEPT ![current] = @ + 1]
        BY <2>2 DEF AppendAudit
      <3>3. CASE audit' = audit
        BY <3>1, <3>3
      <3>4. CASE audit' = [audit EXCEPT ![current] = @ + 1]
        BY <2>1, <2>4, <3>1, <3>4
      <3>5. QED
        BY <3>2, <3>3, <3>4
    <2>6. lastError' \in BOOLEAN /\ recorded' \in SUBSET Requests /\ recorded \subseteq recorded'
      BY <2>1, <2>2 DEF IInv, TypeOK
    <2>7. \A r \in Requests : audit'[r] # audit[r] =>
                                 r \in recorded' /\ audit[r] = 0 /\ audit'[r] = 1
      BY <2>2, <2>4, <2>5
    <2>8. QED
      BY <1>1, <2>1, <2>2, <2>3, <2>5, <2>6, <2>7
  <1>2. CASE ~(current # None /\ Done(current))
    <2>1. UNCHANGED <<recent, recorded, lastError, audit, current>>
      BY <1>2 DEF Refresh
    <2>2. QED
      BY <1>2, <2>1, NoneIsNoRequest DEF IInv, TypeOK, Done
  <1>3. QED
    BY <1>1, <1>2

(* A handler step that only refreshes keeps everything but the handler's own *)
(* position, which is left to the caller.                                    *)
LEMMA RefreshKeeps ==
    ASSUME IInv, Refresh, UNCHANGED <<job, replaced>>
    PROVE  /\ UnfinishedIsTracked'
           /\ EndedIsAccountedFor'
           /\ AuditedOnce'
           /\ \A r \in Requests :
                 /\ r \in recorded' => job'[r] \in Ended /\ current' # r
                 /\ current' = r => job'[r] # "none"
                 /\ job'[r] # "none" /\ r \notin recorded' => audit'[r] = 0
                 /\ job[r] = "none" => audit'[r] = audit[r]
  <1>1. UnfinishedIsTracked'
    BY RefreshEffect DEF IInv, UnfinishedIsTracked, Unfinished, Ended
  <1>2. EndedIsAccountedFor'
    BY RefreshEffect DEF IInv, EndedIsAccountedFor
  <1>3. AuditedOnce'
    BY RefreshEffect DEF IInv, AuditedOnce
  <1>4. ASSUME NEW r \in Requests
        PROVE  /\ r \in recorded' => job'[r] \in Ended /\ current' # r
               /\ current' = r => job'[r] # "none"
               /\ job'[r] # "none" /\ r \notin recorded' => audit'[r] = 0
               /\ job[r] = "none" => audit'[r] = audit[r]
    <2>1. HandlerInv(r)
      BY DEF IInv, Handlers
    <2>2. r # None
      BY NoneIsNoRequest
    <2>3. QED
      BY <2>1, <2>2, RefreshEffect DEF HandlerInv, Ended
  <1>5. QED
    BY <1>1, <1>2, <1>3, <1>4

LEMMA InitIInv == Init => IInv
  <1> SUFFICES ASSUME Init
               PROVE  IInv
    OBVIOUS
  <1>1. TypeOK
    <2>1. recent \in Seq(Requests) /\ Len(recent) <= RecentLimit
      BY LimitPos DEF Init
    <2>2. QED
      BY <2>1 DEF Init, TypeOK
  <1>2. UnfinishedIsTracked /\ EndedIsAccountedFor /\ AuditedOnce /\ AnsweredIsRecorded
    BY DEF Init, UnfinishedIsTracked, EndedIsAccountedFor, AuditedOnce, AnsweredIsRecorded,
           Unfinished, Ended
  <1>3. Handlers
    BY NoneIsNoRequest DEF Init, Handlers, HandlerInv
  <1>4. QED
    BY <1>1, <1>2, <1>3 DEF IInv

(* The handlers that start with a refresh and then only move. *)
LEMMA SubmitRefreshKeeps ==
    ASSUME IInv, NEW r \in Requests, SubmitRefresh(r)
    PROVE  IInv'
  <1> USE DEF SubmitRefresh
  <1>1. TypeOK'
    BY RefreshEffect DEF IInv, TypeOK
  <1>2. UnfinishedIsTracked' /\ EndedIsAccountedFor' /\ AuditedOnce'
    BY RefreshKeeps
  <1>3. AnsweredIsRecorded'
    BY RefreshEffect DEF IInv, AnsweredIsRecorded
  <1>4. ASSUME NEW s \in Requests
        PROVE  HandlerInv(s)'
    <2>1. HandlerInv(s)
      BY DEF IInv, Handlers
    <2>2. /\ s \in recorded' => job'[s] \in Ended /\ current' # s
          /\ current' = s => job'[s] # "none"
          /\ job'[s] # "none" /\ s \notin recorded' => audit'[s] = 0
          /\ job[s] = "none" => audit'[s] = audit[s]
      BY RefreshKeeps
    <2>3. QED
      BY <2>1, <2>2 DEF HandlerInv
  <1>5. QED
    BY <1>1, <1>2, <1>3, <1>4 DEF IInv, Handlers

LEMMA StatusRefreshKeeps ==
    ASSUME IInv, StatusRefresh
    PROVE  IInv'
  <1> USE DEF StatusRefresh
  <1>1. TypeOK'
    BY RefreshEffect DEF IInv, TypeOK
  <1>2. UnfinishedIsTracked' /\ EndedIsAccountedFor' /\ AuditedOnce'
    BY RefreshKeeps
  <1>3. AnsweredIsRecorded'
    BY RefreshEffect DEF IInv, AnsweredIsRecorded
  <1>4. ASSUME NEW s \in Requests
        PROVE  HandlerInv(s)'
    <2>1. HandlerInv(s) /\ s # "status"
      BY StatusIsNoRequest DEF IInv, Handlers
    <2>2. /\ s \in recorded' => job'[s] \in Ended /\ current' # s
          /\ current' = s => job'[s] # "none"
          /\ job'[s] # "none" /\ s \notin recorded' => audit'[s] = 0
          /\ job[s] = "none" => audit'[s] = audit[s]
      BY RefreshKeeps
    <2>3. QED
      BY <2>1, <2>2 DEF HandlerInv
  <1>5. QED
    BY <1>1, <1>2, <1>3, <1>4 DEF IInv, Handlers

LEMMA WaitDoneKeeps ==
    ASSUME IInv, NEW r \in Requests, WaitDone(r)
    PROVE  IInv'
  <1> USE DEF WaitDone, Answer
  <1>0. job[r] \in Ended
    BY DEF Ended
  <1>1. TypeOK'
    BY RefreshEffect DEF IInv, TypeOK, Answers
  <1>2. UnfinishedIsTracked' /\ EndedIsAccountedFor' /\ AuditedOnce'
    BY RefreshKeeps
  <1>3. AnsweredIsRecorded'
    <2>1. r \in recorded' \cup replaced'
      BY <1>0, RefreshEffect DEF IInv, EndedIsAccountedFor
    <2>2. \A s \in Requests : pc'[s] = "completed" => s = r \/ pc[s] = "completed"
      BY DEF IInv, TypeOK
    <2>3. QED
      BY <2>1, <2>2, RefreshEffect DEF IInv, AnsweredIsRecorded
  <1>4. ASSUME NEW s \in Requests
        PROVE  HandlerInv(s)'
    <2>1. HandlerInv(s)
      BY DEF IInv, Handlers
    <2>2. /\ s \in recorded' => job'[s] \in Ended /\ current' # s
          /\ current' = s => job'[s] # "none"
          /\ job'[s] # "none" /\ s \notin recorded' => audit'[s] = 0
          /\ job[s] = "none" => audit'[s] = audit[s]
      BY RefreshKeeps
    <2>3. loop' # s
      BY NoneIsNoRequest
    <2>4. pc'[s] = IF s = r THEN "completed" ELSE pc[s]
      BY DEF IInv, TypeOK
    <2>5. QED
      BY <1>0, <2>1, <2>2, <2>3, <2>4 DEF HandlerInv, Ended
  <1>5. QED
    BY <1>1, <1>2, <1>3, <1>4 DEF IInv, Handlers

-----------------------------------------------------------------------------
(* The submission.                                                         *)

(* A line for a request that has none keeps the types and the count. *)
LEMMA AppendAuditEffect ==
    ASSUME TypeOK, NEW r \in Requests, audit[r] = 0, AppendAudit(r)
    PROVE  /\ audit' \in [Requests -> Nat]
           /\ audit'[r] <= 1
           /\ \A s \in Requests : s # r => audit'[s] = audit[s]
  <1>1. audit \in [Requests -> Nat]
    BY DEF TypeOK
  <1>2. audit' = audit \/ audit' = [audit EXCEPT ![r] = @ + 1]
    BY DEF AppendAudit
  <1>3. CASE audit' = audit
    BY <1>1, <1>3
  <1>4. CASE audit' = [audit EXCEPT ![r] = @ + 1]
    BY <1>1, <1>4
  <1>5. QED
    BY <1>2, <1>3, <1>4

(* Where the submission sees a free slot, nothing is queued or running. *)
LEMMA FreeSlot ==
    ASSUME IInv, SlotLooksFree
    PROVE  \A s \in Requests : job[s] \notin Unfinished
  BY NoneIsNoRequest DEF SlotLooksFree, Done, IInv, UnfinishedIsTracked, Unfinished, Ended

LEMMA SubmitBusyKeeps ==
    ASSUME IInv, NEW r \in Requests, SubmitBusy(r)
    PROVE  IInv'
  <1> USE DEF SubmitBusy, Answer
  <1>1. pc[r] = "idle" /\ job[r] = "none" /\ audit[r] = 0
    BY DEF IInv, Handlers, HandlerInv
  <1>2. /\ audit' \in [Requests -> Nat]
        /\ audit'[r] <= 1
        /\ \A s \in Requests : s # r => audit'[s] = audit[s]
    BY <1>1, AppendAuditEffect DEF IInv
  <1>3. TypeOK'
    BY <1>2 DEF IInv, TypeOK, Answers
  <1>4. UnfinishedIsTracked' /\ EndedIsAccountedFor' /\ AnsweredIsRecorded'
    BY DEF IInv, TypeOK, UnfinishedIsTracked, EndedIsAccountedFor, AnsweredIsRecorded
  <1>5. AuditedOnce'
    BY <1>2 DEF IInv, AuditedOnce
  <1>6. ASSUME NEW s \in Requests
        PROVE  HandlerInv(s)'
    <2>1. HandlerInv(s) /\ loop' # s
      BY NoneIsNoRequest DEF IInv, Handlers
    <2>2. pc'[s] = IF s = r THEN "busy" ELSE pc[s]
      BY DEF IInv, TypeOK
    <2>3. QED
      BY <1>1, <1>2, <2>1, <2>2 DEF HandlerInv
  <1>7. QED
    BY <1>3, <1>4, <1>5, <1>6 DEF IInv, Handlers

LEMMA SubmitStartKeeps ==
    ASSUME IInv, NEW r \in Requests, SubmitStart(r)
    PROVE  IInv'
  <1> USE DEF SubmitStart
  <1>1. pc[r] = "idle" /\ job[r] = "none" /\ audit[r] = 0
    BY DEF IInv, Handlers, HandlerInv
  <1>2. \A s \in Requests : job'[s] = IF s = r THEN "pending" ELSE job[s]
    BY DEF IInv, TypeOK
  <1>3. \A s \in Requests : pc'[s] = IF s = r THEN "waiting" ELSE pc[s]
    BY DEF IInv, TypeOK
  <1>4. replaced \subseteq replaced' /\ replaced' \in SUBSET Requests
          /\ (current # None => current \in replaced')
    BY DEF IInv, TypeOK
  <1>5. TypeOK'
    BY <1>4 DEF IInv, TypeOK, Unfinished
  <1>6. UnfinishedIsTracked'
    BY <1>2, FreeSlot DEF UnfinishedIsTracked, Unfinished
  <1>7. EndedIsAccountedFor'
    BY <1>2, <1>4, NoneIsNoRequest DEF IInv, EndedIsAccountedFor, Ended
  <1>8. AuditedOnce' /\ AnsweredIsRecorded'
    BY <1>3, <1>4 DEF IInv, AuditedOnce, AnsweredIsRecorded
  <1>9. ASSUME NEW s \in Requests
        PROVE  HandlerInv(s)'
    <2>1. HandlerInv(s) /\ loop' # s
      BY NoneIsNoRequest DEF IInv, Handlers
    <2>2. r \notin recorded
      BY <1>1 DEF IInv, Handlers, HandlerInv, Ended
    <2>3. QED
      BY <1>1, <1>2, <1>3, <2>1, <2>2 DEF HandlerInv, Ended
  <1>10. QED
    BY <1>5, <1>6, <1>7, <1>8, <1>9 DEF IInv, Handlers

LEMMA SubmitRefusedKeeps ==
    ASSUME IInv, NEW r \in Requests, SubmitRefused(r)
    PROVE  IInv'
  <1> USE DEF SubmitRefused, Answer
  <1>1. pc[r] = "idle" /\ job[r] = "none" /\ audit[r] = 0
    BY DEF IInv, Handlers, HandlerInv
  <1>2. /\ audit' \in [Requests -> Nat]
        /\ audit'[r] <= 1
        /\ \A s \in Requests : s # r => audit'[s] = audit[s]
    BY <1>1, AppendAuditEffect DEF IInv
  <1>3. \A s \in Requests : pc'[s] = IF s = r THEN "refused" ELSE pc[s]
    BY DEF IInv, TypeOK
  <1>4. replaced \subseteq replaced' /\ replaced' \in SUBSET Requests
          /\ (current # None => current \in replaced')
    BY DEF IInv, TypeOK
  <1>5. TypeOK'
    BY <1>2, <1>4 DEF IInv, TypeOK, Answers
  <1>6. UnfinishedIsTracked'
    BY FreeSlot DEF UnfinishedIsTracked, Unfinished
  <1>7. EndedIsAccountedFor'
    BY <1>4, NoneIsNoRequest DEF IInv, EndedIsAccountedFor, Ended
  <1>8. AuditedOnce' /\ AnsweredIsRecorded'
    BY <1>2, <1>3, <1>4 DEF IInv, AuditedOnce, AnsweredIsRecorded
  <1>9. ASSUME NEW s \in Requests
        PROVE  HandlerInv(s)'
    <2>1. HandlerInv(s) /\ loop' # s /\ current' # s
      BY NoneIsNoRequest DEF IInv, Handlers
    <2>2. QED
      BY <1>1, <1>2, <1>3, <2>1 DEF HandlerInv
  <1>10. QED
    BY <1>5, <1>6, <1>7, <1>8, <1>9 DEF IInv, Handlers

-----------------------------------------------------------------------------
(* The waiters, the status reply and the executor.                         *)

LEMMA WaitersKeep ==
    ASSUME IInv, NEW r \in Requests,
           WaitGivesUp(r) \/ WaitRaised(r) \/ WaitTimedOut(r)
    PROVE  IInv'
  <1> USE DEF WaitGivesUp, WaitRaised, WaitTimedOut, Answer
  <1>1. PICK a \in {"timed out", "failed", "still running"} :
            pc' = [pc EXCEPT ![r] = a]
    OBVIOUS
  <1>2. /\ pc[r] \in {"waiting", "timed out"}
        /\ UNCHANGED <<job, current, recent, lastError, audit, loop, recorded, replaced>>
    OBVIOUS
  <1>3. \A s \in Requests : pc'[s] = IF s = r THEN a ELSE pc[s]
    BY <1>1 DEF IInv, TypeOK
  <1>4. TypeOK'
    BY <1>1, <1>2 DEF IInv, TypeOK, Answers
  <1>5. /\ UnfinishedIsTracked' /\ EndedIsAccountedFor' /\ AuditedOnce'
        /\ AnsweredIsRecorded'
    BY <1>1, <1>2, <1>3 DEF IInv, UnfinishedIsTracked, EndedIsAccountedFor, AuditedOnce,
                            AnsweredIsRecorded
  <1>6. ASSUME NEW s \in Requests
        PROVE  HandlerInv(s)'
    <2>1. HandlerInv(s)
      BY DEF IInv, Handlers
    <2>2. loop # r /\ job[r] # "none"
      BY <1>2 DEF IInv, Handlers, HandlerInv
    <2>3. CASE s = r
      BY <1>1, <1>2, <1>3, <2>1, <2>2, <2>3 DEF HandlerInv
    <2>4. CASE s # r
      <3>1. pc'[s] = pc[s]
        BY <1>3, <2>4
      <3>2. UNCHANGED <<job, current, audit, loop, recorded>>
        BY <1>2
      <3> HIDE DEF WaitGivesUp, WaitRaised, WaitTimedOut, Answer
      <3>3. QED
        BY <2>1, <3>1, <3>2 DEF HandlerInv
    <2>5. QED
      BY <2>3, <2>4
  <1>7. QED
    BY <1>4, <1>5, <1>6 DEF IInv, Handlers

LEMMA StatusReplyKeeps ==
    ASSUME IInv, StatusReply
    PROVE  IInv'
  <1> USE DEF StatusReply
  <1>1. TypeOK'
    BY DEF IInv, TypeOK
  <1>2. /\ UnfinishedIsTracked' /\ EndedIsAccountedFor' /\ AuditedOnce'
        /\ AnsweredIsRecorded'
    BY DEF IInv, UnfinishedIsTracked, EndedIsAccountedFor, AuditedOnce, AnsweredIsRecorded
  <1>3. Handlers'
    BY NoneIsNoRequest DEF IInv, Handlers, HandlerInv
  <1>4. QED
    BY <1>1, <1>2, <1>3 DEF IInv

LEMMA WorkerKeeps ==
    ASSUME IInv, NEW r \in Requests, Worker(r)
    PROVE  IInv'
  <1>1. PICK how \in {"running"} \cup Ended :
          /\ job' = [job EXCEPT ![r] = how]
          /\ job[r] \in Unfinished
          /\ UNCHANGED <<current, recent, lastError, audit, pc, loop, recorded, replaced>>
    BY DEF Worker, WorkerTake, WorkerFinish, Unfinished
  <1>2. \A s \in Requests : job'[s] = IF s = r THEN how ELSE job[s]
    BY <1>1 DEF IInv, TypeOK
  <1>3. TypeOK'
    BY <1>1 DEF IInv, TypeOK, Unfinished
  <1>4. UnfinishedIsTracked'
    BY <1>1, <1>2 DEF IInv, UnfinishedIsTracked
  <1>5. EndedIsAccountedFor'
    BY <1>1, <1>2 DEF IInv, UnfinishedIsTracked, EndedIsAccountedFor
  <1>6. AuditedOnce' /\ AnsweredIsRecorded'
    BY <1>1 DEF IInv, AuditedOnce, AnsweredIsRecorded
  <1>7. ASSUME NEW s \in Requests
        PROVE  HandlerInv(s)'
    <2>1. HandlerInv(s)
      BY DEF IInv, Handlers
    <2>2. QED
      BY <1>1, <1>2, <2>1 DEF HandlerInv, Unfinished, Ended
  <1>8. QED
    BY <1>3, <1>4, <1>5, <1>6, <1>7 DEF IInv, Handlers

LEMMA NextIInv == IInv /\ [Next]_vars => IInv'
  <1> SUFFICES ASSUME IInv, [Next]_vars
               PROVE  IInv'
    OBVIOUS
  <1>1. CASE StatusRefresh
    BY <1>1, StatusRefreshKeeps
  <1>2. CASE StatusReply
    BY <1>2, StatusReplyKeeps
  <1>3. ASSUME NEW r \in Requests, Handler(r)
        PROVE  IInv'
    BY <1>3, SubmitRefreshKeeps, SubmitBusyKeeps, SubmitStartKeeps, SubmitRefusedKeeps,
       WaitDoneKeeps, WaitersKeep
    DEF Handler
  <1>4. ASSUME NEW r \in Requests, Worker(r)
        PROVE  IInv'
    BY <1>4, WorkerKeeps
  <1>5. CASE UNCHANGED vars
    BY <1>5 DEF vars, IInv, TypeOK, UnfinishedIsTracked, EndedIsAccountedFor, AuditedOnce,
                AnsweredIsRecorded, Handlers, HandlerInv
  <1>6. QED
    BY <1>1, <1>2, <1>3, <1>4, <1>5 DEF Next

LEMMA Invariant == Spec => []IInv
  BY InitIInv, NextIInv, PTL DEF Spec

-----------------------------------------------------------------------------
(* The theorems.                                                           *)

(* The globals of the repair routes keep their types and bounds. *)
THEOREM TypeCorrect == Spec => []TypeOK
  BY Invariant, PTL DEF IInv

(* No repair runs behind the back of the API, whatever the number of          *)
(* requests and however they interleave.                                      *)
THEOREM Tracked == Spec => []UnfinishedIsTracked
  BY Invariant, PTL DEF IInv

(* The overwritten future is the only way in which the result of a repair is *)
(* lost.                                                                      *)
THEOREM Accounted == Spec => []EndedIsAccountedFor
  BY Invariant, PTL DEF IInv

(* No request is audited twice. *)
THEOREM OneLine == Spec => []AuditedOnce
  BY Invariant, PTL DEF IInv

(* A completed answer has its record. *)
THEOREM Recorded == Spec => []AnsweredIsRecorded
  BY Invariant, PTL DEF IInv

(* The status reply is right whenever it is computed. *)
THEOREM StatusRight == Spec => []StatusTruthful
  <1>1. IInv => StatusTruthful
    <2> SUFFICES ASSUME IInv
                 PROVE  LooksRunning <=> \E r \in Requests : job[r] \in Unfinished
      BY DEF StatusTruthful
    <2>1. ASSUME LooksRunning
          PROVE  \E r \in Requests : job[r] \in Unfinished
      <3>1. current \in Requests /\ job[current] \notin Ended
        BY <2>1 DEF LooksRunning, Done, IInv, TypeOK
      <3>2. job[current] # "none"
        BY <3>1 DEF IInv, Handlers, HandlerInv
      <3>3. job[current] \in Unfinished
        BY <3>1, <3>2 DEF IInv, TypeOK
      <3>4. QED
        BY <3>1, <3>3
    <2>2. ASSUME NEW r \in Requests, job[r] \in Unfinished
          PROVE  LooksRunning
      BY <2>2, NoneIsNoRequest
      DEF LooksRunning, Done, IInv, UnfinishedIsTracked, Unfinished, Ended
    <2>3. QED
      BY <2>1, <2>2
  <1>2. QED
    BY Invariant, <1>1, PTL

(* Repairs of one process never overlap: every step of the routes and of the *)
(* executor begins a job on a free slot, ends the job, or leaves it alone.   *)
THEOREM NoOverlap == Spec => Exclusive
  <1> DEFINE Active == {r \in Requests : job[r] \in Unfinished}
             Over == {r \in Requests : job[r] \in Ended}
  <1>1. Init => Slot!Init
    BY DEF Init, Slot!Init, Unfinished, Ended
  <1>2. IInv /\ [Next]_vars => [Slot!Next]_<<Active, Over>>
    <2> SUFFICES ASSUME IInv, [Next]_vars
                 PROVE  [Slot!Next]_<<Active, Over>>
      OBVIOUS
    <2> USE DEF IInv, TypeOK
    <2>1. CASE UNCHANGED job
      BY <2>1
    <2>2. ASSUME NEW r \in Requests, SubmitStart(r)
          PROVE  Slot!Next
      <3>1. Active = {}
        BY <2>2, FreeSlot DEF SubmitStart
      <3>2. job[r] = "none"
        BY <2>2 DEF SubmitStart, Handlers, HandlerInv
      <3>3. job' = [job EXCEPT ![r] = "pending"]
        BY <2>2 DEF SubmitStart
      <3>4. Active' = {r}
        BY <3>1, <3>3 DEF Unfinished
      <3>5. Over' = Over /\ r \notin Over
        BY <3>2, <3>3 DEF Ended
      <3>6. Slot!Begin(r)
        BY <3>1, <3>4, <3>5 DEF Slot!Begin
      <3>7. QED
        BY <3>6 DEF Slot!Next
    <2>3. ASSUME NEW r \in Requests, WorkerTake(r)
          PROVE  UNCHANGED <<Active, Over>>
      BY <2>3 DEF WorkerTake, Unfinished, Ended
    <2>4. ASSUME NEW r \in Requests, NEW how \in Ended, WorkerFinish(r, how)
          PROVE  Slot!Next
      <3>1. job[r] = "running" /\ job' = [job EXCEPT ![r] = how]
        BY <2>4 DEF WorkerFinish
      <3>2. r \in Active /\ Active' = Active \ {r}
        BY <3>1 DEF Unfinished, Ended
      <3>3. Over' = Over \cup {r}
        BY <3>1 DEF Ended
      <3>4. Slot!End(r)
        BY <3>2, <3>3 DEF Slot!End
      <3>5. QED
        BY <3>4 DEF Slot!Next
    <2>5. QED
      BY <2>1, <2>2, <2>3, <2>4
      DEF Next, Handler, Worker, StatusRefresh, StatusReply, SubmitRefresh, SubmitBusy,
          SubmitRefused, WaitGivesUp, WaitDone, WaitRaised, WaitTimedOut, vars
  <1>3. QED
    BY <1>1, <1>2, Invariant, PTL DEF Spec, Exclusive, Slot!Spec, Slot!svars
=============================================================================

------------------------- MODULE MessageFlowProofs --------------------------
(* Theorems about MessageFlow, for any channels, chats and queue sizes: every  *)
(* accepted message is in one place until its handling ends, whence it ends    *)
(* once and is not heard of afterwards, and the webhook forgets no future but  *)
(* those of messages that did not fit.                                         *)
EXTENDS MessageFlow, SequenceTheorems, TLAPS

In(m, s) == \E i \in 1..Len(s) : s[i] = m

Distinct(s) == \A i, j \in 1..Len(s) : s[i] = s[j] => i = j

LEMMA AppendIn ==
  ASSUME NEW S, NEW s \in Seq(S), NEW e \in S
  PROVE  /\ Append(s, e) \in Seq(S)
         /\ Len(Append(s, e)) = Len(s) + 1
         /\ \A x : In(x, Append(s, e)) => In(x, s) \/ x = e
         /\ Distinct(s) /\ ~ In(e, s) => Distinct(Append(s, e))
<1>1. /\ Append(s, e) \in Seq(S)
      /\ Len(Append(s, e)) = Len(s) + 1
      /\ \A i \in 1..Len(s) : Append(s, e)[i] = s[i]
      /\ Append(s, e)[Len(s) + 1] = e
  BY AppendProperties
<1>2. Len(s) \in Nat
  BY LenProperties
<1>3. 1..(Len(s) + 1) = (1..Len(s)) \cup {Len(s) + 1}
  BY <1>2
<1> QED
  BY <1>1, <1>2, <1>3 DEF In, Distinct

LEMMA TailIn ==
  ASSUME NEW S, NEW s \in Seq(S), s # << >>
  PROVE  /\ Head(s) \in S /\ In(Head(s), s)
         /\ Tail(s) \in Seq(S)
         /\ Len(Tail(s)) = Len(s) - 1
         /\ \A x : In(x, Tail(s)) => In(x, s)
         /\ Distinct(s) => Distinct(Tail(s)) /\ ~ In(Head(s), Tail(s))
<1>1. /\ Head(s) \in S
      /\ Tail(s) \in Seq(S)
      /\ Len(Tail(s)) = Len(s) - 1
      /\ \A i \in 1..Len(Tail(s)) : Tail(s)[i] = s[i + 1]
  BY HeadTailProperties
<1>2. Len(s) \in Nat \ {0}
  BY EmptySeq
<1>3. Head(s) = s[1]
  OBVIOUS
<1>4. \A i \in 1..Len(Tail(s)) : i + 1 \in 1..Len(s) /\ i + 1 # 1
  BY <1>1, <1>2
<1>5. 1 \in 1..Len(s)
  BY <1>2
<1>6. In(Head(s), s)
  BY <1>3, <1>5 DEF In
<1>7. \A x : In(x, Tail(s)) => In(x, s)
  BY <1>1, <1>4 DEF In
<1>8. ASSUME Distinct(s)
      PROVE  Distinct(Tail(s)) /\ ~ In(Head(s), Tail(s))
  <2>1. Distinct(Tail(s))
    <3> SUFFICES ASSUME NEW i \in 1..Len(Tail(s)), NEW j \in 1..Len(Tail(s)),
                        Tail(s)[i] = Tail(s)[j]
                 PROVE  i = j
      BY DEF Distinct
    <3>1. i + 1 = j + 1
      BY <1>1, <1>4, <1>8 DEF Distinct
    <3> QED
      BY <3>1, <1>1, <1>2
  <2>2. ~ In(Head(s), Tail(s))
    BY <1>1, <1>3, <1>4, <1>5, <1>8 DEF Distinct, In
  <2> QED
    BY <2>1, <2>2
<1> QED
  BY <1>1, <1>6, <1>7, <1>8
-----------------------------------------------------------------------------
(* Where an accepted message is: on the inbound queue, with a task, or, as a   *)
(* /stop, in the hands of the agent loop. Tasks that were cancelled may still  *)
(* stand in the lock's queue.                                                  *)
Queued(m) == entry[m] = "accepted" /\ ended[m] = "no"

Placed ==
  /\ Distinct(inbound) /\ Distinct(tasks)
  /\ \A m \in Messages :
       /\ In(m, inbound) => Queued(m) /\ ~ In(m, tasks)
       /\ In(m, tasks) => entry[m] = "accepted" /\ ended[m] \in {"no", "cancelled"}
       /\ ended[m] # "no" => entry[m] = "accepted"
  /\ agent = "stopping" =>
       \E m \in Messages : /\ stopper = <<m>>
                           /\ Queued(m)
                           /\ ~ In(m, inbound) /\ ~ In(m, tasks)

(* Only accepted messages are answered.                                        *)
Answered ==
  /\ \A i \in 1..Len(outbound) : entry[outbound[i].of] = "accepted"
  /\ \A r \in Requests : answer[r] # "none" => entry[r] = "accepted"

IInv == TypeOK /\ Placed /\ Answered /\ PendingIsAwaited

USE FlowAssumption DEF Messages

LEMMA InitIInv == Init => IInv
<1> SUFFICES ASSUME Init PROVE IInv
  OBVIOUS
<1>1. TypeOK
  BY EmptySeq DEF Init, TypeOK
<1>2. Placed
  <2>1. Len(<< >>) = 0
    OBVIOUS
  <2> QED
    BY <2>1 DEF Init, Placed, Distinct, In
<1> QED
  BY <1>1, <1>2 DEF Init, IInv, Answered, PendingIsAwaited
-----------------------------------------------------------------------------
(* A channel hands a message over.                                             *)
LEMMA HandleMessageKeeps ==
  ASSUME IInv, NEW m \in Messages, NEW o \in {"refused", "full", "accepted"},
         HandleMessage(m, o)
  PROVE  /\ entry[m] = "new" /\ ended[m] = "no"
         /\ entry' = [entry EXCEPT ![m] = o]
         /\ entry' \in [Messages -> {"new", "refused", "full", "accepted"}]
         /\ kind' \in [Messages -> {"turn", "command", "stop"}]
         /\ inbound' \in Seq(Messages) /\ Len(inbound') <= MaxInbound
         /\ UNCHANGED <<outbound, loop>>
         /\ Placed'
<1>1. /\ entry[m] = "new"
      /\ entry' = [entry EXCEPT ![m] = o]
      /\ UNCHANGED <<outbound, loop>>
  BY DEF HandleMessage
<1>2. /\ entry' \in [Messages -> {"new", "refused", "full", "accepted"}]
      /\ ended[m] = "no"
  BY <1>1 DEF IInv, TypeOK, Placed
<1>3. UNCHANGED <<tasks, ended, agent, stopper>>
  BY <1>1 DEF loop
<1>4. CASE UNCHANGED <<inbound, kind>>
  <2>1. Placed'
    <3>1. Distinct(inbound') /\ Distinct(tasks')
      BY <1>3, <1>4 DEF IInv, Placed
    <3>2. \A n \in Messages :
            /\ In(n, inbound') => Queued(n)' /\ ~ In(n, tasks')
            /\ In(n, tasks') => entry'[n] = "accepted" /\ ended'[n] \in {"no", "cancelled"}
            /\ ended'[n] # "no" => entry'[n] = "accepted"
      BY <1>1, <1>3, <1>4 DEF IInv, TypeOK, Placed, Queued
    <3>3. agent' = "stopping" =>
            \E n \in Messages : /\ stopper' = <<n>>
                                /\ Queued(n)'
                                /\ ~ In(n, inbound') /\ ~ In(n, tasks')
      BY <1>1, <1>3, <1>4 DEF IInv, TypeOK, Placed, Queued
    <3> QED
      BY <3>1, <3>2, <3>3 DEF Placed
  <2> QED
    BY <1>1, <1>2, <1>4, <2>1 DEF IInv, TypeOK
<1>5. CASE o = "accepted" /\ Len(inbound) < MaxInbound /\ inbound' = Append(inbound, m)
  <2>1. inbound \in Seq(Messages) /\ MaxInbound \in Nat /\ Len(inbound) \in Nat
    BY LenProperties DEF IInv, TypeOK
  <2>2. ~ In(m, inbound) /\ ~ In(m, tasks)
    BY <1>1 DEF IInv, Placed, Queued
  <2>3. /\ inbound' \in Seq(Messages)
        /\ Len(inbound') = Len(inbound) + 1
        /\ \A x : In(x, inbound') => In(x, inbound) \/ x = m
        /\ Distinct(inbound')
    BY <1>5, <2>1, <2>2, AppendIn DEF IInv, Placed
  <2>4. Len(inbound') <= MaxInbound
    BY <1>5, <2>1, <2>3
  <2>5. Placed'
    <3>1. \A n \in Messages :
            /\ In(n, inbound') => Queued(n)' /\ ~ In(n, tasks')
            /\ In(n, tasks') => entry'[n] = "accepted" /\ ended'[n] \in {"no", "cancelled"}
            /\ ended'[n] # "no" => entry'[n] = "accepted"
      BY <1>1, <1>2, <1>3, <1>5, <2>2, <2>3 DEF IInv, TypeOK, Placed, Queued
    <3>2. agent' = "stopping" =>
            \E n \in Messages : /\ stopper' = <<n>>
                                /\ Queued(n)'
                                /\ ~ In(n, inbound') /\ ~ In(n, tasks')
      BY <1>1, <1>3, <2>3 DEF IInv, TypeOK, Placed, Queued
    <3> QED
      BY <1>3, <2>3, <3>1, <3>2 DEF IInv, Placed
  <2>6. kind' \in [Messages -> {"turn", "command", "stop"}]
    BY DEF HandleMessage, IInv, TypeOK
  <2> QED
    BY <1>1, <1>2, <2>3, <2>4, <2>5, <2>6
<1> QED
  BY <1>4, <1>5 DEF HandleMessage

(* The first task ends in some way, and leaves the lock.                       *)
LEMMA TaskEnds ==
  ASSUME IInv, tasks # << >>, tasks' = Tail(tasks),
         NEW how \in {"no"} \cup Outcomes,
         ended' = [ended EXCEPT ![Head(tasks)] = how],
         UNCHANGED <<entry, inbound, agent, stopper>>
  PROVE  Placed' /\ tasks' \in Seq(Messages)
<1> DEFINE h == Head(tasks)
<1>1. /\ h \in Messages /\ In(h, tasks)
      /\ tasks' \in Seq(Messages)
      /\ \A x : In(x, tasks') => In(x, tasks)
      /\ Distinct(tasks') /\ ~ In(h, tasks')
  BY TailIn DEF IInv, TypeOK, Placed
<1>2. ended' = [ended EXCEPT ![h] = how] /\ ended \in [Messages -> {"no"} \cup Outcomes]
  BY DEF IInv, TypeOK
<1>3. entry[h] = "accepted" /\ ~ In(h, inbound)
  BY <1>1 DEF IInv, Placed
<1> HIDE DEF h
<1>4. \A n \in Messages :
        /\ In(n, inbound') => Queued(n)' /\ ~ In(n, tasks')
        /\ In(n, tasks') => entry'[n] = "accepted" /\ ended'[n] \in {"no", "cancelled"}
        /\ ended'[n] # "no" => entry'[n] = "accepted"
  BY <1>1, <1>2, <1>3 DEF IInv, Placed, Queued
<1>5. agent' = "stopping" =>
        \E n \in Messages : /\ stopper' = <<n>>
                            /\ Queued(n)'
                            /\ ~ In(n, inbound') /\ ~ In(n, tasks')
  BY <1>1, <1>2 DEF IInv, Placed, Queued
<1> QED
  BY <1>1, <1>4, <1>5 DEF IInv, Placed

(* Something is put on the outbound queue, which has room.                     *)
LEMMA Published ==
  ASSUME IInv, ~ Full, NEW out \in Outs, outbound' = Append(outbound, out)
  PROVE  outbound' \in Seq(Outs) /\ Len(outbound') <= MaxOutbound
<1>1. outbound \in Seq(Outs) /\ Len(outbound) \in Nat /\ Len(outbound) < MaxOutbound
  BY LenProperties DEF IInv, TypeOK, Full
<1>2. outbound' \in Seq(Outs) /\ Len(outbound') = Len(outbound) + 1
  BY <1>1, AppendIn
<1> QED
  BY <1>1, <1>2
-----------------------------------------------------------------------------
(* The channels' side of a message that is handed over.                        *)
LEMMA EntryKeeps ==
  ASSUME IInv, NEW m \in Messages, NEW o \in {"refused", "full", "accepted"},
         HandleMessage(m, o), UNCHANGED <<answer, sending>>, feeding' \in BOOLEAN,
         pending' = IF m \in Requests /\ o # "refused" THEN pending \cup {m} ELSE pending
  PROVE  IInv'
<1>1. /\ entry[m] = "new" /\ ended[m] = "no"
      /\ entry' = [entry EXCEPT ![m] = o]
      /\ entry' \in [Messages -> {"new", "refused", "full", "accepted"}]
      /\ kind' \in [Messages -> {"turn", "command", "stop"}]
      /\ inbound' \in Seq(Messages) /\ Len(inbound') <= MaxInbound
      /\ UNCHANGED <<outbound, loop>>
      /\ Placed'
  BY HandleMessageKeeps
<1>2. TypeOK'
  BY <1>1 DEF IInv, TypeOK, loop
<1>3. \A r \in Requests : r = m => answer[r] = "none"
  BY <1>1 DEF IInv, Answered
<1>4. Answered'
  BY <1>1 DEF IInv, TypeOK, Answered, Outs
<1>5. PendingIsAwaited'
  BY <1>1, <1>3 DEF IInv, TypeOK, PendingIsAwaited
<1> QED
  BY <1>1, <1>2, <1>4, <1>5 DEF IInv

(* What puts an accepted message's outbound, if anything, and else touches the *)
(* loop's variables only.                                                      *)
LEMMA LoopKeeps ==
  ASSUME IInv, NEW m \in Messages, entry[m] = "accepted",
         NEW id, NEW final \in BOOLEAN, id \in BOOLEAN,
         \/ UNCHANGED outbound
         \/ ~ Full /\ outbound' = Append(outbound, Out(m, id, final)),
         UNCHANGED <<entry, kind, channels>>,
         inbound' \in Seq(Messages), Len(inbound') <= MaxInbound,
         agent' \in {"running", "stopping", "dead"},
         stopper' \in Seq(Messages), tasks' \in Seq(Messages), said' \in 0..MaxProgress,
         ended' \in [Messages -> {"no"} \cup Outcomes], Placed'
  PROVE  IInv'
<1>1. /\ outbound' \in Seq(Outs) /\ Len(outbound') <= MaxOutbound
      /\ \A i \in 1..Len(outbound') : entry[outbound'[i].of] = "accepted"
  <2>1. CASE UNCHANGED outbound
    BY <2>1 DEF IInv, TypeOK, Answered
  <2>2. CASE ~ Full /\ outbound' = Append(outbound, Out(m, id, final))
    <3>1. Out(m, id, final) \in Outs /\ Out(m, id, final).of = m
      BY DEF Out, Outs
    <3>2. \A x : In(x, outbound') => In(x, outbound) \/ x = Out(m, id, final)
      BY <2>2, <3>1, AppendIn DEF IInv, TypeOK
    <3> QED
      BY <2>2, <3>1, <3>2, Published DEF IInv, Answered, In
  <2> QED
    BY <2>1, <2>2
<1>2. TypeOK'
  BY <1>1 DEF IInv, TypeOK, channels
<1>3. Answered' /\ PendingIsAwaited'
  BY <1>1 DEF IInv, Answered, PendingIsAwaited, channels
<1> QED
  BY <1>2, <1>3 DEF IInv

LEMMA FinishKeeps ==
  ASSUME IInv, NEW m \in Messages, NEW how \in Outcomes, NEW id \in BOOLEAN,
         Finish(m, how, id)
  PROVE  IInv'
<1>1. PICK end \in Outcomes :
        /\ ended' = [ended EXCEPT ![m] = end]
        /\ \/ UNCHANGED outbound
           \/ ~ Full /\ outbound' = Append(outbound, Out(m, id, TRUE))
  <2>1. "silent" \in Outcomes
    BY DEF Outcomes
  <2> QED
    BY <2>1 DEF Finish
<1>2. /\ tasks # << >> /\ m = Head(tasks) /\ tasks' = Tail(tasks) /\ said' = 0
      /\ UNCHANGED <<entry, kind, inbound, channels, agent, stopper>>
  BY DEF Finish, Holds
<1>3. Placed' /\ tasks' \in Seq(Messages)
  BY <1>1, <1>2, TaskEnds
<1>4. entry[m] = "accepted"
  BY <1>2, TailIn DEF IInv, TypeOK, Placed
<1>5. ended' \in [Messages -> {"no"} \cup Outcomes]
  BY <1>1 DEF IInv, TypeOK
<1>6. said' \in 0..MaxProgress
  BY <1>2
<1>7. /\ inbound' \in Seq(Messages) /\ Len(inbound') <= MaxInbound
      /\ agent' \in {"running", "stopping", "dead"} /\ stopper' \in Seq(Messages)
      /\ UNCHANGED <<entry, kind, channels>>
  BY <1>2 DEF IInv, TypeOK
<1> QED
  BY <1>1, <1>3, <1>4, <1>5, <1>6, <1>7, LoopKeeps
LEMMA LeaveKeeps == IInv /\ Leave => IInv'
<1> SUFFICES ASSUME IInv, Leave PROVE IInv'
  OBVIOUS
<1>1. /\ tasks # << >> /\ tasks' = Tail(tasks) /\ said' = 0
      /\ UNCHANGED <<entry, kind, inbound, outbound, channels, agent, stopper, ended>>
  BY DEF Leave
<1>2. Head(tasks) \in Messages /\ entry[Head(tasks)] = "accepted"
  BY <1>1, TailIn DEF IInv, TypeOK, Placed
<1>3. /\ ended[Head(tasks)] \in {"no"} \cup Outcomes
      /\ ended' = [ended EXCEPT ![Head(tasks)] = ended[Head(tasks)]]
  BY <1>1, <1>2 DEF IInv, TypeOK
<1>4. Placed' /\ tasks' \in Seq(Messages)
  BY <1>1, <1>3, TaskEnds
<1>5. /\ inbound' \in Seq(Messages) /\ Len(inbound') <= MaxInbound
      /\ agent' \in {"running", "stopping", "dead"}
      /\ stopper' \in Seq(Messages) /\ said' \in 0..MaxProgress
      /\ ended' \in [Messages -> {"no"} \cup Outcomes]
      /\ UNCHANGED <<entry, kind, channels>> /\ UNCHANGED outbound
  BY <1>1 DEF IInv, TypeOK
<1>6. TRUE \in BOOLEAN
  OBVIOUS
<1> QED
  BY <1>2, <1>4, <1>5, <1>6, LoopKeeps

LEMMA ProgressKeeps ==
  ASSUME IInv, NEW m \in Messages, Progress(m)
  PROVE  IInv'
<1>1. CASE Full /\ Fail(m)
  <2>1. Finish(m, "failed", FALSE) /\ "failed" \in Outcomes
    BY <1>1 DEF Fail, Outcomes
  <2> QED
    BY <2>1, FinishKeeps
<1>2. CASE /\ Holds(m)
           /\ ~ Full
           /\ outbound' = Append(outbound, Out(m, TRUE, FALSE))
           /\ said' = said + 1
           /\ UNCHANGED <<entry, kind, inbound, channels, agent, stopper, tasks, ended>>
  <2>1. entry[m] = "accepted"
    BY <1>2, TailIn DEF Holds, IInv, TypeOK, Placed
  <2>2. said' \in 0..MaxProgress
    BY <1>2 DEF Progress, IInv, TypeOK
  <2>3. Placed'
    BY <1>2 DEF IInv, Placed, Queued
  <2>4. /\ UNCHANGED <<entry, kind, channels>>
        /\ inbound' \in Seq(Messages) /\ Len(inbound') <= MaxInbound
        /\ agent' \in {"running", "stopping", "dead"}
        /\ stopper' \in Seq(Messages) /\ tasks' \in Seq(Messages)
        /\ ended' \in [Messages -> {"no"} \cup Outcomes]
    BY <1>2 DEF IInv, TypeOK
  <2> QED
    BY <1>2, <2>1, <2>2, <2>3, <2>4, LoopKeeps
<1> QED
  BY <1>1, <1>2 DEF Progress

(* The reply to a /stop that the loop has in its hands.                        *)
LEMMA StopRepliedKeeps ==
  ASSUME IInv, NEW m \in Messages, StopReplied(m), Queued(m), ~ In(m, tasks),
         inbound' \in Seq(Messages), Len(inbound') <= MaxInbound, Distinct(inbound'),
         \A x : In(x, inbound') => In(x, inbound) /\ x # m,
         UNCHANGED <<entry, kind, channels, tasks, said>>
  PROVE  IInv'
<1>1. PICK end \in Outcomes :
        /\ ended' = [ended EXCEPT ![m] = end]
        /\ \/ UNCHANGED outbound
           \/ ~ Full /\ outbound' = Append(outbound, Out(m, FALSE, TRUE))
  <2>1. "silent" \in Outcomes /\ "replied" \in Outcomes
    BY DEF Outcomes
  <2> QED
    BY <2>1 DEF StopReplied
<1>2. agent' \in {"running", "dead"} /\ stopper' = << >>
  BY DEF StopReplied
<1>3. ended' \in [Messages -> {"no"} \cup Outcomes]
  BY <1>1 DEF IInv, TypeOK
<1>4. \A n \in Messages :
        /\ In(n, inbound') => Queued(n)' /\ ~ In(n, tasks')
        /\ In(n, tasks') => entry'[n] = "accepted" /\ ended'[n] \in {"no", "cancelled"}
        /\ ended'[n] # "no" => entry'[n] = "accepted"
  BY <1>1 DEF IInv, TypeOK, Placed, Queued
<1>5. Placed'
  BY <1>2, <1>4 DEF IInv, Placed
<1>6. stopper' \in Seq(Messages) /\ tasks' \in Seq(Messages) /\ said' \in 0..MaxProgress
  BY <1>2, EmptySeq DEF IInv, TypeOK
<1> QED
  BY <1>1, <1>2, <1>3, <1>5, <1>6, LoopKeeps DEF Queued

LEMMA Holders ==
  ASSUME TypeOK, NEW m
  PROVE  \A t \in Cancelled(m) : t \in Messages /\ In(t, tasks) /\ ended[t] = "no"
<1>1. tasks \in Seq(Messages)
  BY DEF TypeOK
<1>2. DOMAIN tasks = 1..Len(tasks)
  BY <1>1
<1> QED
  BY <1>2 DEF Cancelled, Active, ToSet, In

LEMMA ConsumeKeeps == IInv /\ Consume => IInv'
<1> SUFFICES ASSUME IInv, Consume PROVE IInv'
  OBVIOUS
<1>0. Head(inbound) \in Messages
  BY TailIn DEF Consume, IInv, TypeOK
<1> PICK m \in Messages : m = Head(inbound)
  BY <1>0
<1>1. /\ agent = "running" /\ inbound # << >> /\ inbound' = Tail(inbound)
      /\ HandleStop(m) \/ Dispatch(m)
      /\ UNCHANGED <<entry, kind, channels>>
  BY DEF Consume
<1>2. /\ In(m, inbound)
      /\ inbound' \in Seq(Messages) /\ Len(inbound') <= MaxInbound
      /\ \A x : In(x, inbound') => In(x, inbound) /\ x # m
      /\ Distinct(inbound')
  <2>1. Len(inbound) \in Nat
    BY LenProperties DEF IInv, TypeOK
  <2> QED
    BY <1>1, <2>1, TailIn DEF IInv, TypeOK, Placed
<1>3. Queued(m) /\ ~ In(m, tasks)
  BY <1>2 DEF IInv, Placed
<1>4. CASE UNCHANGED <<tasks, said>> /\ StopReplied(m)
  BY <1>1, <1>2, <1>3, <1>4, StopRepliedKeeps
<1>5. CASE /\ UNCHANGED <<tasks, said, outbound>>
           /\ agent' = "stopping" /\ stopper' = <<m>>
           /\ ended' = [t \in Messages |-> IF t \in Cancelled(m) THEN "cancelled" ELSE ended[t]]
  <2>1. \A t \in Cancelled(m) : t \in Messages /\ In(t, tasks) /\ ended[t] = "no"
    <3>1. TypeOK
      BY DEF IInv
    <3> QED
      BY <3>1, Holders
  <2>2. m \notin Cancelled(m)
    BY <1>3, <2>1
  <2>3. ended' \in [Messages -> {"no"} \cup Outcomes]
    BY <1>5 DEF IInv, TypeOK, Outcomes
  <2>4. \A n \in Messages :
          /\ In(n, inbound') => Queued(n)' /\ ~ In(n, tasks')
          /\ In(n, tasks') => entry'[n] = "accepted" /\ ended'[n] \in {"no", "cancelled"}
          /\ ended'[n] # "no" => entry'[n] = "accepted"
    BY <1>1, <1>2, <1>5, <2>1 DEF IInv, TypeOK, Placed, Queued
  <2>5. Queued(m)' /\ ~ In(m, inbound') /\ ~ In(m, tasks')
    BY <1>1, <1>2, <1>3, <1>5, <2>2 DEF Queued
  <2>6. Placed'
    BY <1>2, <1>5, <2>4, <2>5 DEF IInv, Placed
  <2>7. stopper' \in Seq(Messages)
    BY <1>2, <1>5
  <2> QED
    BY <1>1, <1>2, <1>3, <1>5, <2>3, <2>6, <2>7, LoopKeeps DEF IInv, TypeOK, Queued
<1>6. CASE Dispatch(m)
  <2>1. tasks' = Append(tasks, m) /\ UNCHANGED <<outbound, agent, stopper, said, ended>>
    BY <1>6 DEF Dispatch
  <2>2. /\ tasks' \in Seq(Messages)
        /\ \A x : In(x, tasks') => In(x, tasks) \/ x = m
        /\ Distinct(tasks')
    BY <1>2, <1>3, <2>1, AppendIn DEF IInv, TypeOK, Placed
  <2>3. Placed'
    <3>1. \A n \in Messages :
            /\ In(n, inbound') => Queued(n)' /\ ~ In(n, tasks')
            /\ In(n, tasks') => entry'[n] = "accepted" /\ ended'[n] \in {"no", "cancelled"}
            /\ ended'[n] # "no" => entry'[n] = "accepted"
      BY <1>1, <1>2, <1>3, <2>1, <2>2 DEF IInv, Placed, Queued
    <3>2. agent' # "stopping"
      BY <1>1, <2>1
    <3> QED
      BY <1>2, <2>2, <3>1, <3>2 DEF Placed
  <2> QED
    BY <1>1, <1>2, <1>3, <2>1, <2>2, <2>3, LoopKeeps DEF IInv, TypeOK, Queued
<1> QED
  BY <1>1, <1>4, <1>5, <1>6 DEF HandleStop
LEMMA StopEndsKeeps == IInv /\ StopEnds => IInv'
<1> SUFFICES ASSUME IInv, StopEnds PROVE IInv'
  OBVIOUS
<1>1. PICK m \in Messages : stopper = <<m>> /\ Queued(m) /\ ~ In(m, inbound) /\ ~ In(m, tasks)
  BY DEF IInv, Placed, StopEnds
<1>2. StopReplied(m) /\ UNCHANGED <<entry, kind, inbound, channels, tasks, said>>
  BY <1>1 DEF StopEnds
<1>3. /\ inbound' \in Seq(Messages) /\ Len(inbound') <= MaxInbound /\ Distinct(inbound')
      /\ \A x : In(x, inbound') => In(x, inbound) /\ x # m
      /\ UNCHANGED <<entry, kind, channels, tasks, said>>
  BY <1>1, <1>2 DEF IInv, TypeOK, Placed
<1> QED
  BY <1>1, <1>2, <1>3, StopRepliedKeeps

LEMMA DispatchOutboundKeeps == IInv /\ DispatchOutbound => IInv'
<1> SUFFICES ASSUME IInv, DispatchOutbound PROVE IInv'
  OBVIOUS
<1>1. /\ outbound # << >> /\ outbound' = Tail(outbound)
      /\ outbound \in Seq(Outs) /\ Len(outbound) \in Nat
      /\ UNCHANGED <<entry, kind, inbound, feeding, sending, loop>>
  BY LenProperties DEF DispatchOutbound, IInv, TypeOK
<1>2. /\ Head(outbound) \in Outs /\ In(Head(outbound), outbound)
      /\ outbound' \in Seq(Outs) /\ Len(outbound') = Len(outbound) - 1
      /\ \A x : In(x, outbound') => In(x, outbound)
  BY <1>1, TailIn
<1>3. PICK out \in Outs : out = Head(outbound)
  BY <1>2
<1>4. Send(out) /\ out.of \in Messages /\ entry[out.of] = "accepted"
  BY <1>2, <1>3 DEF DispatchOutbound, Outs, IInv, Answered, In
<1>5. answer' \in [Requests -> {"none", "progress", "reply", "late"}] /\ pending' \subseteq Requests
  BY <1>4 DEF Send, IInv, TypeOK
<1>6. TypeOK'
  BY <1>1, <1>2, <1>5 DEF IInv, TypeOK, loop
<1>7. Placed'
  BY <1>1 DEF IInv, Placed, Queued, loop
<1>8. Answered'
  <2>1. \A i \in 1..Len(outbound') : entry'[outbound'[i].of] = "accepted"
    BY <1>1, <1>2 DEF IInv, Answered, In
  <2>2. \A r \in Requests : answer'[r] # "none" => entry'[r] = "accepted"
    BY <1>1, <1>4 DEF Send, IInv, TypeOK, Answered
  <2> QED
    BY <2>1, <2>2 DEF Answered
<1>9. PendingIsAwaited'
  <2>1. CASE out.id /\ out.of \in pending
    BY <1>1, <1>4, <2>1 DEF Send, IInv, TypeOK, PendingIsAwaited
  <2>2. CASE ~ (out.id /\ out.of \in pending)
    BY <1>1, <1>4, <2>2 DEF Send, IInv, TypeOK, PendingIsAwaited
  <2> QED
    BY <2>1, <2>2
<1> QED
  BY <1>6, <1>7, <1>8, <1>9 DEF IInv

LEMMA NextIInv == IInv /\ [Next]_vars => IInv'
<1> SUFFICES ASSUME IInv, [Next]_vars PROVE IInv'
  OBVIOUS
<1>1. CASE \E o \in {"refused", "full", "accepted"}, r \in Requests : Receive(r, o)
  BY <1>1, EntryKeeps DEF Receive, IInv, TypeOK
<1>2. ASSUME NEW o \in {"refused", "full", "accepted"}, NEW p \in Posts, Feed(p, o) \/ OnMessage(p, o)
      PROVE  IInv'
  <2>1. /\ HandleMessage(p, o) /\ p \notin Requests
        /\ UNCHANGED <<pending, answer, sending>> /\ feeding' \in BOOLEAN
    BY <1>2 DEF Feed, OnMessage, channels, IInv, TypeOK
  <2> QED
    BY <2>1, EntryKeeps
<1>3. ASSUME NEW r \in Requests, GiveUp(r)
      PROVE  IInv'
  <2>1. /\ entry[r] = "accepted"
        /\ answer' = [answer EXCEPT ![r] = "late"] /\ pending' = pending \ {r}
        /\ UNCHANGED <<entry, kind, inbound, outbound, feeding, sending, loop>>
    BY <1>3 DEF GiveUp
  <2>2. TypeOK' /\ Placed'
    BY <2>1 DEF IInv, TypeOK, Placed, Queued, loop
  <2>3. Answered' /\ PendingIsAwaited'
    BY <2>1 DEF IInv, TypeOK, Answered, PendingIsAwaited
  <2> QED
    BY <2>2, <2>3 DEF IInv
<1>4. CASE Consume
  BY <1>4, ConsumeKeeps
<1>5. CASE StopEnds
  BY <1>5, StopEndsKeeps
<1>6. ASSUME NEW m \in Messages, Progress(m)
      PROVE  IInv'
  BY <1>6, ProgressKeeps
<1>7. ASSUME NEW m \in Messages, Reply(m) \/ Fail(m)
      PROVE  IInv'
  <2>1. PICK how \in Outcomes, id \in BOOLEAN : Finish(m, how, id)
    <3>1. "replied" \in Outcomes /\ "failed" \in Outcomes
      BY DEF Outcomes
    <3> QED
      BY <1>7, <3>1 DEF Reply, Fail
  <2> QED
    BY <2>1, FinishKeeps
<1>8. CASE Leave
  BY <1>8, LeaveKeeps
<1>9. CASE DispatchOutbound
  BY <1>9, DispatchOutboundKeeps
<1>10. CASE StopAll
  BY <1>10 DEF StopAll, loop, IInv, TypeOK, Placed, Queued, Answered, PendingIsAwaited
<1>11. CASE UNCHANGED vars
  BY <1>11 DEF vars, IInv, TypeOK, Placed, Queued, Answered, PendingIsAwaited
<1> QED
  BY <1>1, <1>2, <1>3, <1>4, <1>5, <1>6, <1>7, <1>8, <1>9, <1>10, <1>11 DEF Next

LEMMA SpecIInv == Spec => []IInv
  BY InitIInv, NextIInv, PTL DEF Spec

(* Every variable keeps its range, and neither queue outgrows its bound,       *)
(* whatever the traffic (queue.py:13-32).                                      *)
THEOREM FlowTypeCorrect == Spec => []TypeOK
<1>1. IInv => TypeOK
  BY DEF IInv
<1> QED
  BY <1>1, SpecIInv, PTL

(* A future in _pending has a client that waits, but for requests whose        *)
(* message did not fit (webhook/channel.py:101-131, 166-175).                  *)
THEOREM NoFutureForgotten == Spec => []PendingIsAwaited
<1>1. IInv => PendingIsAwaited
  BY DEF IInv
<1> QED
  BY <1>1, SpecIInv, PTL

-----------------------------------------------------------------------------
(* The steps at which something is published or a handling ends.               *)
LEMMA QuietStep ==
  ASSUME IInv, [Next]_vars, Len(outbound') > Len(outbound)
  PROVE  ended[Last(outbound').of] = "no"
<1>1. outbound \in Seq(Outs) /\ Len(outbound) \in Nat
  BY LenProperties DEF IInv, TypeOK
<1>2. outbound' # outbound
  BY <1>1
<1>3. ASSUME NEW m \in Messages, NEW id \in BOOLEAN, NEW final \in BOOLEAN,
             ended[m] = "no", outbound' = Append(outbound, Out(m, id, final))
      PROVE  ended[Last(outbound').of] = "no"
  <2>1. Out(m, id, final) \in Outs /\ Out(m, id, final).of = m
    BY DEF Out, Outs
  <2>2. Len(outbound') = Len(outbound) + 1 /\ outbound'[Len(outbound) + 1] = Out(m, id, final)
    BY <1>1, <1>3, <2>1, AppendProperties
  <2> QED
    BY <1>3, <2>1, <2>2 DEF Last
<1>4. ASSUME NEW m \in Messages, NEW how, NEW id \in BOOLEAN, Finish(m, how, id)
      PROVE  ended[Last(outbound').of] = "no"
  BY <1>2, <1>3, <1>4 DEF Finish, Holds
<1>5. ASSUME NEW m \in Messages, StopReplied(m), ended[m] = "no"
      PROVE  ended[Last(outbound').of] = "no"
  BY <1>2, <1>3, <1>5 DEF StopReplied
<1>6. CASE \E m \in Messages : Progress(m) \/ Reply(m) \/ Fail(m)
  BY <1>2, <1>3, <1>4, <1>6 DEF Progress, Reply, Fail, Holds
<1>7. CASE Consume
  <2>1. PICK m \in Messages : m = Head(inbound) /\ ended[m] = "no"
    BY <1>7, TailIn DEF Consume, IInv, TypeOK, Placed, Queued
  <2> QED
    BY <1>2, <1>5, <1>7, <2>1 DEF Consume, HandleStop, Dispatch
<1>8. CASE StopEnds
  <2>1. PICK m \in Messages : stopper = <<m>> /\ ended[m] = "no"
    BY <1>8 DEF StopEnds, IInv, Placed, Queued
  <2> QED
    BY <1>5, <1>8, <2>1 DEF StopEnds
<1>9. CASE DispatchOutbound
  BY <1>1, <1>9, TailIn DEF DispatchOutbound
<1>10. CASE UNCHANGED outbound
  BY <1>2, <1>10
<1> QED
  BY <1>6, <1>7, <1>8, <1>9, <1>10
     DEF Next, vars, Receive, Feed, OnMessage, HandleMessage, GiveUp, Leave, StopAll

(* Nothing is published of a message whose handling has ended, so a cancelled  *)
(* or a failed turn is not heard of again (loop.py:319-351).                   *)
THEOREM EndedIsQuiet == Spec => QuietOnceEnded
<1>1. IInv /\ [Next]_vars => [Len(outbound') > Len(outbound) => ended[Last(outbound').of] = "no"]_vars
  BY QuietStep
<1> QED
  BY <1>1, SpecIInv, PTL DEF Spec, QuietOnceEnded

LEMMA Ends ==
  ASSUME IInv, NEW M \in SUBSET Messages, \A m \in M : Queued(m) /\ ended'[m] \in Outcomes,
         ended' = [m \in Messages |-> IF m \in M THEN ended'[m] ELSE ended[m]],
         UNCHANGED entry
  PROVE  Promise!Next
<1>1. "no" \notin Outcomes
  BY DEF Outcomes
<1>2. \A m \in M : Status[m] = "accepted" /\ Status'[m] \in Outcomes
  BY <1>1 DEF Status, Queued
<1>3. Status' = [m \in Messages |-> IF m \in M THEN Status'[m] ELSE Status[m]]
  BY DEF Status
<1>4. Promise!End(M)
  BY <1>2, <1>3 DEF Promise!End
<1> QED
  BY <1>4 DEF Promise!Next

LEMMA OneEnds ==
  ASSUME IInv, NEW m \in Messages, Queued(m), NEW how \in Outcomes,
         ended' = [ended EXCEPT ![m] = how], UNCHANGED entry
  PROVE  Promise!Next
<1>1. ended'[m] = how /\ ended' = [n \in Messages |-> IF n \in {m} THEN ended'[n] ELSE ended[n]]
  BY DEF IInv, TypeOK
<1>2. {m} \in SUBSET Messages /\ \A n \in {m} : Queued(n) /\ ended'[n] \in Outcomes
  BY <1>1
<1>3. UNCHANGED entry
  OBVIOUS
<1> QED
  BY <1>1, <1>2, <1>3, Ends

LEMMA EntryStep ==
  ASSUME IInv, NEW m \in Messages, NEW o \in {"refused", "full", "accepted"}, HandleMessage(m, o)
  PROVE  Promise!Next
<1>1. /\ entry[m] = "new" /\ ended[m] = "no"
      /\ entry' = [entry EXCEPT ![m] = o]
      /\ UNCHANGED ended
  BY HandleMessageKeeps DEF loop
<1>2. Status[m] = "new"
  BY <1>1 DEF Status
<1>3. CASE o = "accepted"
  <2>1. Status' = [Status EXCEPT ![m] = "accepted"]
    BY <1>1, <1>3 DEF Status, IInv, TypeOK
  <2> QED
    BY <1>2, <2>1 DEF Promise!Accept, Promise!Next
<1>4. CASE o \in {"refused", "full"}
  <2>1. Status' = [Status EXCEPT ![m] = "turned away"]
    BY <1>1, <1>4 DEF Status, IInv, TypeOK
  <2> QED
    BY <1>2, <2>1 DEF Promise!TurnAway, Promise!Next
<1> QED
  BY <1>3, <1>4

LEMMA FinishStep ==
  ASSUME IInv, NEW m \in Messages, NEW how \in Outcomes, NEW id, Finish(m, how, id)
  PROVE  Promise!Next
<1>1. Queued(m)
  BY TailIn DEF Finish, Holds, IInv, TypeOK, Placed, Queued
<1>2. PICK end \in Outcomes : ended' = [ended EXCEPT ![m] = end]
  <2>1. "silent" \in Outcomes
    BY DEF Outcomes
  <2> QED
    BY <2>1 DEF Finish
<1> QED
  BY <1>1, <1>2, OneEnds DEF Finish

LEMMA StopRepliedStep ==
  ASSUME IInv, NEW m \in Messages, Queued(m), StopReplied(m), UNCHANGED entry
  PROVE  Promise!Next
<1>1. "silent" \in Outcomes /\ "replied" \in Outcomes
  BY DEF Outcomes
<1> QED
  BY <1>1, OneEnds DEF StopReplied

LEMMA ConsumeStep == IInv /\ Consume => Promise!Next \/ UNCHANGED Status
<1> SUFFICES ASSUME IInv, Consume PROVE Promise!Next \/ UNCHANGED Status
  OBVIOUS
<1>1. PICK m \in Messages : m = Head(inbound) /\ Queued(m)
  BY TailIn DEF Consume, IInv, TypeOK, Placed
<1>2. UNCHANGED entry /\ (HandleStop(m) \/ Dispatch(m))
  BY <1>1 DEF Consume
<1>3. CASE StopReplied(m)
  BY <1>1, <1>2, <1>3, StopRepliedStep
<1>4. CASE ended' = [t \in Messages |-> IF t \in Cancelled(m) THEN "cancelled" ELSE ended[t]]
  <2>1. TypeOK
    BY DEF IInv
  <2>2. \A t \in Cancelled(m) : t \in Messages /\ In(t, tasks) /\ ended[t] = "no"
    BY <2>1, Holders
  <2>3. \A t \in Cancelled(m) : Queued(t) /\ ended'[t] \in Outcomes
    BY <1>4, <2>2 DEF IInv, Placed, Queued, Outcomes
  <2>4. ended' = [t \in Messages |-> IF t \in Cancelled(m) THEN ended'[t] ELSE ended[t]]
    BY <1>4
  <2>5. Cancelled(m) \in SUBSET Messages
    BY <2>2
  <2> QED
    BY <1>2, <2>3, <2>4, <2>5, Ends
<1>5. CASE Dispatch(m)
  BY <1>2, <1>5 DEF Dispatch, Status
<1> QED
  BY <1>2, <1>3, <1>4, <1>5 DEF HandleStop

LEMMA PromiseStep == IInv /\ [Next]_vars => Promise!Next \/ UNCHANGED Status
<1> SUFFICES ASSUME IInv, [Next]_vars PROVE Promise!Next \/ UNCHANGED Status
  OBVIOUS
<1>1. CASE \E o \in {"refused", "full", "accepted"} :
             \/ \E r \in Requests : Receive(r, o)
             \/ \E p \in Posts : Feed(p, o) \/ OnMessage(p, o)
  BY <1>1, EntryStep DEF Receive, Feed, OnMessage
<1>2. CASE Consume
  BY <1>2, ConsumeStep
<1>3. CASE StopEnds
  <2>1. PICK m \in Messages : stopper = <<m>> /\ Queued(m)
    BY <1>3 DEF IInv, Placed, StopEnds
  <2> QED
    BY <1>3, <2>1, StopRepliedStep DEF StopEnds
<1>4. ASSUME NEW m \in Messages, Reply(m) \/ Fail(m)
      PROVE  Promise!Next
  <2>1. "replied" \in Outcomes /\ "failed" \in Outcomes
    BY DEF Outcomes
  <2> QED
    BY <1>4, <2>1, FinishStep DEF Reply, Fail
<1>5. ASSUME NEW m \in Messages, Progress(m)
      PROVE  Promise!Next \/ UNCHANGED Status
  BY <1>4, <1>5 DEF Progress, Status
<1>6. CASE UNCHANGED <<entry, ended>>
  BY <1>6 DEF Status
<1> QED
  BY <1>1, <1>2, <1>3, <1>4, <1>5, <1>6
     DEF Next, vars, loop, GiveUp, Leave, DispatchOutbound, StopAll

(* The bus and the agent loop keep their promise: an accepted message ends at  *)
(* most once and for good, one that was turned away is never handled           *)
(* (base.py:64-95, loop.py:301-351).                                           *)
THEOREM KeepsPromise == Spec => HandledOnce
<1>1. Init => Promise!Init
  BY DEF Init, Promise!Init, Status
<1>2. IInv /\ [Next]_vars => [Promise!Next]_Status
  BY PromiseStep
<1> QED
  BY <1>1, <1>2, SpecIInv, PTL DEF Spec, HandledOnce, Promise!Spec
=============================================================================

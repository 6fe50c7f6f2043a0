---------------------------- MODULE MessageFlow -----------------------------
(* The way of a message: a channel puts it on the bus, the agent loop takes it *)
(* off and runs its turn under the processing lock, the turn publishes         *)
(* progress and a reply, and the channel manager hands these to the channel.   *)
(*   core/bus/queue.py, core/agent/loop.py, segyr_bot/channels                 *)
(*                                                                             *)
(* One event loop: an action is what runs between two awaits. Putting on a     *)
(* queue never waits: a full queue raises at once. What a turn does with its   *)
(* session is the subject of Conversation.                                     *)
EXTENDS Naturals, SequencesExt

CONSTANTS
  Requests,     \* POSTs to the webhook channel
  Posts,        \* messages of the Telegram and the internal channel
  ChatOf,       \* the chat of each message, which makes its session key
  MaxInbound,   \* MessageBus(max_inbound)
  MaxOutbound,  \* MessageBus(max_outbound)
  MaxProgress   \* bound: progress messages of a turn

Messages == Requests \cup Posts

ASSUME FlowAssumption ==
  /\ {MaxInbound, MaxOutbound} \subseteq Nat \ {0}
  /\ MaxProgress \in Nat
  /\ Requests \cap Posts = {}
  /\ DOMAIN ChatOf = Messages

VARIABLES
  entry,     \* [Messages -> how its channel fared with it]
  kind,      \* [Messages -> an ordinary message, /new or /help, /stop]
  inbound,   \* the queue of messages
  outbound,  \* the queue of what is to be sent
  pending,   \* WebhookChannel._pending: requests whose future is registered
  answer,    \* [Requests -> what the HTTP client was told]
  feeding,   \* the internal channel's start task is alive
  sending,   \* the manager's dispatcher is alive
  agent,     \* AgentLoop.run: "running", "stopping" (in _handle_stop), "dead"
  stopper,   \* the /stop it handles, as a sequence of at most one message
  tasks,     \* dispatched messages; the first one holds _processing_lock
  said,      \* progress messages of the turn that holds it
  ended      \* [Messages -> how its handling ended]

vars == <<entry, kind, inbound, outbound, pending, answer, feeding, sending,
          agent, stopper, tasks, said, ended>>

channels == <<pending, answer, feeding, sending>>
loop == <<agent, stopper, tasks, said, ended>>

(* What the outbound queue carries of a message: the message it is about,      *)
(* whether its metadata have the request id, and whether it is the last.       *)
Outs == [of : Messages, id : BOOLEAN, final : BOOLEAN]

Outcomes == {"replied", "failed", "cancelled", "silent"}

(* Every variable keeps its range, and the queues their sizes.                 *)
TypeOK ==
  /\ entry \in [Messages -> {"new", "refused", "full", "accepted"}]
  /\ kind \in [Messages -> {"turn", "command", "stop"}]
  /\ inbound \in Seq(Messages) /\ Len(inbound) <= MaxInbound
  /\ outbound \in Seq(Outs) /\ Len(outbound) <= MaxOutbound
  /\ pending \subseteq Requests
  /\ answer \in [Requests -> {"none", "progress", "reply", "late"}]
  /\ {feeding, sending} \subseteq BOOLEAN
  /\ agent \in {"running", "stopping", "dead"}
  /\ stopper \in Seq(Messages)
  /\ tasks \in Seq(Messages)
  /\ said \in 0..MaxProgress
  /\ ended \in [Messages -> {"no"} \cup Outcomes]

Init ==
  /\ entry = [m \in Messages |-> "new"]
  /\ kind = [m \in Messages |-> "turn"]
  /\ inbound = << >>
  /\ outbound = << >>
  /\ pending = {}
  /\ answer = [r \in Requests |-> "none"]
  /\ feeding = TRUE
  /\ sending = TRUE
  /\ agent = "running"
  /\ stopper = << >>
  /\ tasks = << >>
  /\ said = 0
  /\ ended = [m \in Messages |-> "no"]
-----------------------------------------------------------------------------
(* BaseChannel._handle_message: a sender that is not allowed, a full inbound   *)
(* queue, which raises, or a message on the queue.                             *)
HandleMessage(m, outcome) ==
  /\ entry[m] = "new"
  /\ entry' = [entry EXCEPT ![m] = outcome]
  /\ \/ outcome = "refused" /\ UNCHANGED <<inbound, kind>>
     \/ /\ outcome = "full"
        /\ Len(inbound) = MaxInbound
        /\ UNCHANGED <<inbound, kind>>
     \/ /\ outcome = "accepted"
        /\ Len(inbound) < MaxInbound
        /\ inbound' = Append(inbound, m)
        /\ \E k \in {"turn", "command", "stop"} : kind' = [kind EXCEPT ![m] = k]
  /\ UNCHANGED <<outbound, loop>>

(* The webhook's _receive up to its await. The entry in _pending is taken back *)
(* from a sender that is not allowed, not when the queue raises.               *)
Receive(r, outcome) ==
  /\ sending
  /\ HandleMessage(r, outcome)
  /\ pending' = IF outcome = "refused" THEN pending ELSE pending \cup {r}
  /\ UNCHANGED <<answer, feeding, sending>>

(* mutation: the timed-out request keeps its entry.                            *)
GiveUpRegistered(r) ==
  /\ entry[r] = "accepted" /\ answer[r] = "none"
  /\ answer' = [answer EXCEPT ![r] = "late"]
  /\ UNCHANGED <<entry, kind, pending, inbound, outbound, feeding, sending, loop>>

GiveUp(r) ==
  /\ entry[r] = "accepted" /\ answer[r] = "none"
  /\ answer' = [answer EXCEPT ![r] = "late"]
  /\ pending' = pending \ {r}
  /\ UNCHANGED <<entry, kind, inbound, outbound, feeding, sending, loop>>

(* The internal channel's start loop, which a full queue ends.                 *)
Feed(p, outcome) ==
  /\ feeding
  /\ HandleMessage(p, outcome)
  /\ feeding' = (outcome # "full")
  /\ UNCHANGED <<pending, answer, sending>>

(* The Telegram channel's _on_message.                                         *)
OnMessage(p, outcome) ==
  /\ sending
  /\ HandleMessage(p, outcome)
  /\ UNCHANGED channels
-----------------------------------------------------------------------------
Full == Len(outbound) = MaxOutbound

Out(m, id, final) == [of |-> m, id |-> id /\ m \in Requests, final |-> final]

(* mutation: the task that holds the lock swallows its cancellation.           *)
HoldsSwallowing(m) == tasks # << >> /\ m = Head(tasks)

Holds(m) == tasks # << >> /\ m = Head(tasks) /\ ended[m] = "no"

(* mutation: a turn that cannot tell its end keeps the processing lock.        *)
FinishKeepsLock(m, how, id) ==
  /\ Holds(m)
  /\ ~ Full
  /\ outbound' = Append(outbound, Out(m, id, TRUE))
  /\ ended' = [ended EXCEPT ![m] = how]
  /\ tasks' = Tail(tasks)
  /\ said' = 0
  /\ UNCHANGED <<entry, kind, inbound, channels, agent, stopper>>

(* The turn or the command of the first task ends, and tells so if it can: the *)
(* error reply that follows a failed publish meets the same full queue.        *)
Finish(m, how, id) ==
  /\ Holds(m)
  /\ tasks' = Tail(tasks)
  /\ said' = 0
  /\ \/ /\ ~ Full
        /\ outbound' = Append(outbound, Out(m, id, TRUE))
        /\ ended' = [ended EXCEPT ![m] = how]
     \/ /\ Full
        /\ ended' = [ended EXCEPT ![m] = "silent"]
        /\ UNCHANGED outbound
  /\ UNCHANGED <<entry, kind, inbound, channels, agent, stopper>>

(* mutation: the reply of a turn has no metadata either.                       *)
ReplyBare(m) == Finish(m, "replied", FALSE)

(* _process_message: the replies of /new and /help have no metadata.           *)
Reply(m) == Finish(m, "replied", kind[m] = "turn")

Fail(m) == Finish(m, "failed", FALSE)

(* _bus_progress: a thought or a tool hint. If it raises, the turn ends.       *)
Progress(m) ==
  /\ kind[m] = "turn"
  /\ said < MaxProgress
  /\ \/ Full /\ Fail(m)
     \/ /\ Holds(m)
        /\ ~ Full
        /\ outbound' = Append(outbound, Out(m, TRUE, FALSE))
        /\ said' = said + 1
        /\ UNCHANGED <<entry, kind, inbound, channels, agent, stopper, tasks, ended>>

(* A cancelled task leaves the processing lock or its queue.                   *)
Leave ==
  /\ tasks # << >>
  /\ ended[Head(tasks)] = "cancelled"
  /\ tasks' = Tail(tasks)
  /\ said' = 0
  /\ UNCHANGED <<entry, kind, inbound, outbound, channels, agent, stopper, ended>>

(* The end of _handle_stop: its reply has no metadata, and nothing catches     *)
(* what a full queue raises there.                                             *)
StopReplied(m) ==
  /\ stopper' = << >>
  /\ \/ /\ ~ Full
        /\ outbound' = Append(outbound, Out(m, FALSE, TRUE))
        /\ ended' = [ended EXCEPT ![m] = "replied"]
        /\ agent' = "running"
     \/ /\ Full
        /\ UNCHANGED outbound
        /\ ended' = [ended EXCEPT ![m] = "silent"]
        /\ agent' = "dead"

Active == {t \in Messages : t \in ToSet(tasks) /\ ended[t] = "no"}

(* mutation: a task that is done is counted and cancelled as well.             *)
CancelledDoneToo(m) ==
  {t \in Messages : entry[t] = "accepted" /\ t \notin ToSet(inbound) /\ ChatOf[t] = ChatOf[m]}

Cancelled(m) == {t \in Active : ChatOf[t] = ChatOf[m]}

(* run takes a /stop: it cancels the tasks of the chat, waits for them to end  *)
(* if there are any, and replies.                                              *)
HandleStop(m) ==
  LET gone == Cancelled(m)
  IN  /\ UNCHANGED <<tasks, said>>
      /\ \/ gone = {} /\ StopReplied(m)
         \/ /\ gone # {}
            /\ agent' = "stopping"
            /\ stopper' = <<m>>
            /\ ended' = [t \in Messages |-> IF t \in gone THEN "cancelled" ELSE ended[t]]
            /\ UNCHANGED outbound

Dispatch(m) ==
  /\ tasks' = Append(tasks, m)
  /\ UNCHANGED <<outbound, agent, stopper, said, ended>>

(* A round of AgentLoop.run.                                                   *)
Consume ==
  /\ agent = "running"
  /\ inbound # << >>
  /\ inbound' = Tail(inbound)
  /\ \/ kind[Head(inbound)] = "stop" /\ HandleStop(Head(inbound))
     \/ kind[Head(inbound)] # "stop" /\ Dispatch(Head(inbound))
  /\ UNCHANGED <<entry, kind, channels>>

StopEnds ==
  /\ agent = "stopping"
  /\ StopReplied(Head(stopper))
  /\ UNCHANGED <<entry, kind, inbound, channels, tasks, said>>
-----------------------------------------------------------------------------
(* WebhookChannel.send: the future goes to the first message that has its      *)
(* request id, progress or reply. The other channels keep or send the message, *)
(* or drop it, and an error is logged: none of this comes back here.           *)
Send(out) ==
  /\ answer' = IF out.id /\ out.of \in pending
                 THEN [answer EXCEPT ![out.of] = IF out.final THEN "reply" ELSE "progress"]
                 ELSE answer
  /\ pending' = IF out.id THEN pending \ {out.of} ELSE pending

(* A round of ChannelManager._dispatch_outbound.                               *)
DispatchOutbound ==
  /\ sending
  /\ outbound # << >>
  /\ outbound' = Tail(outbound)
  /\ Send(Head(outbound))
  /\ UNCHANGED <<entry, kind, inbound, feeding, sending, loop>>

StopAll ==
  /\ sending
  /\ sending' = FALSE
  /\ feeding' = FALSE
  /\ UNCHANGED <<entry, kind, inbound, outbound, pending, answer, loop>>

Next ==
  \/ \E o \in {"refused", "full", "accepted"} :
       \/ \E r \in Requests : Receive(r, o)
       \/ \E p \in Posts : Feed(p, o) \/ OnMessage(p, o)
  \/ \E r \in Requests : GiveUp(r)
  \/ Consume \/ StopEnds
  \/ \E m \in Messages : Progress(m) \/ Reply(m) \/ Fail(m)
  \/ Leave
  \/ DispatchOutbound \/ StopAll

(* The loops go on, and a turn does not take for ever. Clients need not send,  *)
(* their patience need not run out, nobody has to stop the channels.           *)
Fairness ==
  /\ WF_vars(Consume) /\ WF_vars(StopEnds)
  /\ WF_vars(Leave \/ \E m \in Messages : Progress(m) \/ Reply(m) \/ Fail(m))
  /\ WF_vars(DispatchOutbound)

Spec == Init /\ [][Next]_vars /\ Fairness
-----------------------------------------------------------------------------
(* A registered future has a client that waits for it, but for those whose     *)
(* message did not fit into the queue: timeouts, refusals and answers all take *)
(* their entry out of _pending (webhook/channel.py:101-131, 166-175).          *)
PendingIsAwaited ==
  pending = {r \in Requests : \/ entry[r] = "full"
                              \/ entry[r] = "accepted" /\ answer[r] = "none"}

(* What is published of a message is published before its handling ended: a    *)
(* turn that /stop cancelled, or that failed, is not heard of again            *)
(* (loop.py:319-351).                                                          *)
QuietOnceEnded ==
  [][Len(outbound') > Len(outbound) => ended[Last(outbound').of] = "no"]_vars

Status ==
  [m \in Messages |-> IF ended[m] # "no" THEN ended[m]
                      ELSE IF entry[m] \in {"refused", "full"} THEN "turned away"
                      ELSE entry[m]]

(* No accepted message is handled twice, and how it ended stays so, in every   *)
(* interleaving of the queues, the lock and /stop (loop.py:301-351).           *)
Promise == INSTANCE AtMostOnce WITH status <- Status
HandledOnce == Promise!Spec

(* An accepted message is handled in the end, unless a /stop that could not be *)
(* answered has ended the agent loop (loop.py:301-317, 328).                   *)
Handled ==
  \A m \in Messages : entry[m] = "accepted" ~> ended[m] # "no" \/ agent = "dead"

(* A request whose turn ended with a reply is answered by it, by one of its    *)
(* progress messages, or has given up; it is not forgotten (channel.py:164).   *)
TurnAnswered ==
  \A r \in Requests :
    ended[r] = "replied" /\ kind[r] = "turn" ~> answer[r] # "none" \/ ~ sending
=============================================================================

---------------------------- MODULE Conversation ----------------------------
(***************************************************************************)
(* One conversation: the session of one key, the turns of AgentLoop that   *)
(* work on it, the commands /new and /stop, token consolidation in the     *)
(* foreground and in background tasks, the JSONL file and the Redis list.  *)
(*   core/agent/loop.py, core/session/manager.py, core/agent/memory.py     *)
(*                                                                         *)
(* Coroutines of one event loop: an action is what runs between two        *)
(* awaits.  A turn's messages (user, tool calls, assistant) are one item,  *)
(* the turn, since consolidation only cuts in front of a user message.     *)
(* The handlers keep the Session OBJECT they fetched: after /new has       *)
(* dropped it from the cache there may be two objects of one key.          *)
(***************************************************************************)
EXTENDS Integers, Sequences

CONSTANTS
    Turns,          \* ordinary messages of the conversation
    News,           \* /new commands
    RedisEnabled,   \* settings.redis_enabled and not settings.debug
    MaxRestarts,    \* bound: process restarts
    None

ASSUME Distinct == Turns \cap News = {}
ASSUME NoneIsNothing == None \notin Turns \cup News \cup Nat \cup (Turns \X {"fg", "bg"})
ASSUME RedisSetting == RedisEnabled \in BOOLEAN
ASSUME RestartsNat == MaxRestarts \in Nat

VARIABLES
    objs,       \* the Session objects: messages and last_consolidated
    cache,      \* SessionManager._cache[key]: an object, or None
    file,       \* the session's JSONL file (no file reads as an empty session)
    pc,         \* where each message's coroutine is
    sess,       \* the object it fetched
    procLock,   \* _processing_lock: its holder
    job,        \* the consolidations: where, and the slice being consolidated
    consLock,   \* the consolidation lock of the key: its holder
    pending,    \* the snapshots that archive_messages still has to write
    archived,   \* HISTORY.md: how often each turn was written there
    redis,      \* the Redis list of the chat: the turns in it
    restarts,
    direct,     \* the process: the API (process_direct, no lock) or the gateway (bus)
    epoch,      \* history: the number of /new so far
    born,       \* history: the epoch in which a turn began
    straddled   \* history: a handler that began before a /new saved after it

vars == <<objs, cache, file, pc, sess, procLock, job, consLock, pending, archived,
          redis, restarts, direct, epoch, born, straddled>>

store == <<objs, cache, file>>
process == <<restarts, direct>>
ghosts == <<epoch, born, straddled>>

Messages == Turns \cup News
Jobs == Turns \X {"fg", "bg"}

Idle == [at |-> "off", upto |-> 0, chunk |-> <<>>]
Waiting == [at |-> "waiting", upto |-> 0, chunk |-> <<>>]

(* mutation: the slice starts at the first message *)
AskingFromStart(s, e) ==
    [at |-> "asking", upto |-> e, chunk |-> SubSeq(s.msgs, 1, e)]

Asking(s, e) == [at |-> "asking", upto |-> e, chunk |-> SubSeq(s.msgs, s.off + 1, e)]

Busy == {"routing", "consolidating", "prompting", "asking", "saved"}
Over == {"done", "failed", "cancelled", "lost"}

Empty == [msgs |-> <<>>, off |-> 0]
Elems(s) == {s[i] : i \in DOMAIN s}

Init ==
    /\ objs = <<>>
    /\ cache = None
    /\ file = Empty
    /\ pc = [m \in Messages |-> "idle"]
    /\ sess = [m \in Messages |-> None]
    /\ procLock = None
    /\ job = [j \in Jobs |-> Idle]
    /\ consLock = None
    /\ pending = [n \in News |-> <<>>]
    /\ archived = [t \in Turns |-> 0]
    /\ redis = {}
    /\ restarts = 0
    /\ direct \in BOOLEAN
    /\ epoch = 0
    /\ born = [t \in Turns |-> 0]
    /\ straddled = FALSE

-----------------------------------------------------------------------------
(* SessionManager and Session.                                             *)

(* mutation: the cache is never asked *)
GetOrCreateUncached(m) ==
    /\ objs' = Append(objs, file)
    /\ cache' = Len(objs')
    /\ sess' = [sess EXCEPT ![m] = Len(objs')]
    /\ UNCHANGED file

(* get_or_create: the cached object, or a new one loaded from the file. *)
GetOrCreate(m) ==
    IF cache # None
      THEN /\ sess' = [sess EXCEPT ![m] = cache]
           /\ UNCHANGED store
      ELSE /\ objs' = Append(objs, file)
           /\ cache' = Len(objs')
           /\ sess' = [sess EXCEPT ![m] = Len(objs')]
           /\ UNCHANGED file

(* mutation: the cache keeps pointing at another object *)
SaveToDiskOnly(o, s) ==
    /\ objs' = [objs EXCEPT ![o] = s]
    /\ file' = s
    /\ UNCHANGED cache

(* An object takes a new value and is saved: the file is rewritten and the  *)
(* object becomes the cached one, whatever was cached.                      *)
Save(o, s) ==
    /\ objs' = [objs EXCEPT ![o] = s]
    /\ file' = s
    /\ cache' = o

(* What is saved now for turn t began in an older conversation. *)
Straddles(t) == born[t] # epoch

AddTurn(s, t) == [s EXCEPT !.msgs = Append(@, t)]

(* get_history: what the offset does not hide. *)
History(s) == SubSeq(s.msgs, s.off + 1, Len(s.msgs))

-----------------------------------------------------------------------------
(* MemoryConsolidator.maybe_consolidate_by_tokens, for job <<t, kind>>.    *)

(* The job is over: a foreground one lets its turn go on. *)
FinishJob(j) ==
    /\ job' = [job EXCEPT ![j] = Idle]
    /\ pc' = IF j[2] = "fg" THEN [pc EXCEPT ![j[1]] = "prompting"] ELSE pc
    /\ consLock' = IF consLock = j THEN None ELSE consLock

(* A round on session s asks the model to consolidate a slice that ends in  *)
(* front of some later turn (the token counts decide which).                *)
AskRound(j, s) ==
    \E e \in (s.off + 1)..(Len(s.msgs) - 1) :
        /\ job' = [job EXCEPT ![j] = Asking(s, e)]
        /\ consLock' = j
        /\ UNCHANGED pc

(* mutation: the lock is not taken into account *)
ConsolidateUnlocked(j) ==
    /\ job[j].at = "waiting"
    /\ LET s == objs[sess[j[1]]] IN FinishJob(j) \/ AskRound(j, s)
    /\ UNCHANGED <<store, sess, procLock, pending, archived, redis, process, ghosts>>

(* With the lock: the prompt is small enough, or there is nothing to cut, or *)
(* a slice is sent to the model.                                             *)
Consolidate(j) ==
    /\ job[j].at = "waiting"
    /\ consLock = None
    /\ LET s == objs[sess[j[1]]] IN FinishJob(j) \/ AskRound(j, s)
    /\ UNCHANGED <<store, sess, procLock, pending, archived, redis, process, ghosts>>

(* An empty session is left alone without asking for the lock. *)
ConsolidateEmpty(j) ==
    /\ job[j].at = "waiting"
    /\ consLock # None
    /\ objs[sess[j[1]]].msgs = <<>>
    /\ FinishJob(j)
    /\ UNCHANGED <<store, sess, procLock, pending, archived, redis, process, ghosts>>

WriteHistory(chunk) ==
    archived' = [t \in Turns |-> IF t \in Elems(chunk) THEN archived[t] + 1 ELSE archived[t]]

(* The slice is in HISTORY.md (summarised, or raw after three failures): the *)
(* offset moves, the session is saved, and another round may begin.          *)
ConsolidateOk(j) ==
    /\ job[j].at = "asking"
    /\ LET o == sess[j[1]]
           s == [objs[o] EXCEPT !.off = job[j].upto]
       IN  /\ Save(o, s)
           /\ FinishJob(j) \/ AskRound(j, s)
    /\ WriteHistory(job[j].chunk)
    /\ straddled' = (straddled \/ Straddles(j[1]))
    /\ UNCHANGED <<sess, procLock, pending, redis, process, epoch, born>>

(* mutation: the offset moves although the model failed *)
ConsolidateFailMoves(j) ==
    /\ job[j].at = "asking"
    /\ LET o == sess[j[1]] IN Save(o, [objs[o] EXCEPT !.off = job[j].upto])
    /\ straddled' = (straddled \/ Straddles(j[1]))
    /\ FinishJob(j)
    /\ UNCHANGED <<sess, procLock, pending, archived, redis, process, epoch, born>>

(* The model failed: the job gives up and nothing moves. *)
ConsolidateFail(j) ==
    /\ job[j].at = "asking"
    /\ FinishJob(j)
    /\ UNCHANGED <<store, sess, procLock, pending, archived, redis, process, ghosts>>

(* archive_messages of a /new: a background task, without the consolidation  *)
(* lock, that gives the snapshot to the model up to three times.  The third   *)
(* failure writes it raw, unless a consolidation that succeeded meanwhile     *)
(* reset the failure counter they share: then the snapshot is dropped.        *)
Archive(n) ==
    /\ pending[n] # <<>>
    /\ WriteHistory(pending[n]) \/ UNCHANGED archived
    /\ pending' = [pending EXCEPT ![n] = <<>>]
    /\ UNCHANGED <<store, pc, sess, procLock, job, consLock, redis, process, ghosts>>

-----------------------------------------------------------------------------
(* AgentLoop: _dispatch takes the lock and runs _process_message;          *)
(* process_direct runs it without.                                         *)

Enter(m) ==
    /\ pc[m] = "idle"
    /\ direct \/ procLock = None

TakeLock(m) == procLock' = IF direct THEN procLock ELSE m

Release(m) == procLock' = IF procLock = m THEN None ELSE procLock

Goto(m, l) == pc' = [pc EXCEPT ![m] = l]

(* A turn fetches its session and asks the skills router. *)
Start(t) ==
    /\ Enter(t)
    /\ GetOrCreate(t)
    /\ TakeLock(t)
    /\ Goto(t, "routing")
    /\ born' = [born EXCEPT ![t] = epoch]
    /\ UNCHANGED <<job, consLock, pending, archived, redis, process, epoch, straddled>>

(* /new runs in one go: snapshot of what is not consolidated, clear, save,  *)
(* drop from the cache, archive in the background.                          *)
New(n) ==
    /\ Enter(n)
    /\ LET loaded == IF cache # None THEN objs ELSE Append(objs, file)
           o == IF cache # None THEN cache ELSE Len(loaded)
       IN  /\ objs' = [loaded EXCEPT ![o] = Empty]
           /\ sess' = [sess EXCEPT ![n] = o]
           /\ pending' = [pending EXCEPT ![n] = History(loaded[o])]
    /\ file' = Empty
    /\ cache' = None
    /\ Goto(n, "done")
    /\ epoch' = epoch + 1
    /\ UNCHANGED <<procLock, job, consLock, archived, redis, process, born, straddled>>

(* A skill or the LLM cache answers: the turn is added and saved. *)
Shortcut(t) ==
    /\ pc[t] = "routing"
    /\ Save(sess[t], AddTurn(objs[sess[t]], t))
    /\ straddled' = (straddled \/ Straddles(t))
    /\ Goto(t, "saved")
    /\ UNCHANGED <<sess, procLock, job, consLock, pending, archived, redis, process,
                   epoch, born>>

(* Otherwise the session is consolidated first, in the foreground. *)
Consult(t) ==
    /\ pc[t] = "routing"
    /\ job' = [job EXCEPT ![<<t, "fg">>] = Waiting]
    /\ Goto(t, "consolidating")
    /\ UNCHANGED <<store, sess, procLock, consLock, pending, archived, redis, process, ghosts>>

(* The prompt: the session's history merged with the Redis list. *)
Prompt(t) == Elems(History(objs[sess[t]])) \cup redis

Ask(t) ==
    /\ pc[t] = "prompting"
    /\ Goto(t, "asking")
    /\ UNCHANGED <<store, sess, procLock, job, consLock, pending, archived, redis, process, ghosts>>

(* The agent loop is over: the turn is added and saved, and a background    *)
(* consolidation is scheduled.                                              *)
Reply(t) ==
    /\ pc[t] = "asking"
    /\ Save(sess[t], AddTurn(objs[sess[t]], t))
    /\ straddled' = (straddled \/ Straddles(t))
    /\ job' = [job EXCEPT ![<<t, "bg">>] = Waiting]
    /\ Goto(t, "saved")
    /\ UNCHANGED <<sess, procLock, consLock, pending, archived, redis, process,
                   epoch, born>>

(* The provider raised: an error is answered and the turn is not kept. *)
Fail(t) ==
    /\ pc[t] = "asking"
    /\ Goto(t, "failed")
    /\ Release(t)
    /\ UNCHANGED <<store, sess, job, consLock, pending, archived, redis, process, ghosts>>

(* The turn goes to the Redis list, if Redis takes it. *)
Remember(t) ==
    /\ pc[t] = "saved"
    /\ redis' \in IF RedisEnabled THEN {redis, redis \cup {t}} ELSE {redis}
    /\ Goto(t, "done")
    /\ Release(t)
    /\ UNCHANGED <<store, sess, job, consLock, pending, archived, process, ghosts>>

(* mutation: the processing lock survives the cancellation *)
StopKeepsLock(m) ==
    /\ ~direct
    /\ pc[m] \in Busy \cup {"idle"}
    /\ Goto(m, "cancelled")
    /\ job' = [j \in Jobs |-> IF j = <<m, "fg">> THEN Idle ELSE job[j]]
    /\ consLock' = IF consLock = <<m, "fg">> THEN None ELSE consLock
    /\ UNCHANGED <<store, sess, procLock, pending, archived, redis, process, ghosts>>

(* /stop cancels a message of the bus at the await where it is, the wait for *)
(* the lock included; the locks it holds are released on the way out.        *)
Stop(m) ==
    /\ ~direct
    /\ pc[m] \in Busy \cup {"idle"}
    /\ Goto(m, "cancelled")
    /\ Release(m)
    /\ job' = [j \in Jobs |-> IF j = <<m, "fg">> THEN Idle ELSE job[j]]
    /\ consLock' = IF consLock = <<m, "fg">> THEN None ELSE consLock
    /\ UNCHANGED <<store, sess, pending, archived, redis, process, ghosts>>

(* The process dies between two steps and comes back: the files remain. *)
Restart ==
    /\ restarts < MaxRestarts
    /\ restarts' = restarts + 1
    /\ cache' = None
    /\ pc' = [m \in Messages |-> IF pc[m] \in Busy THEN "lost" ELSE pc[m]]
    /\ procLock' = None
    /\ job' = [j \in Jobs |-> Idle]
    /\ consLock' = None
    /\ pending' = [n \in News |-> <<>>]
    /\ UNCHANGED <<objs, file, sess, archived, redis, direct, ghosts>>

Turn(t) ==
    \/ Start(t) \/ Shortcut(t) \/ Consult(t) \/ Ask(t) \/ Reply(t) \/ Fail(t)
    \/ Remember(t)

Consolidation(j) ==
    Consolidate(j) \/ ConsolidateEmpty(j) \/ ConsolidateOk(j) \/ ConsolidateFail(j)

Stopped == \A m \in Messages : pc[m] \in Over

(* Everything was handled; nothing more will come. *)
Quiet ==
    /\ Stopped
    /\ \A j \in Jobs : job[j].at = "off"
    /\ \A n \in News : pending[n] = <<>>
    /\ UNCHANGED vars

Next ==
    \/ \E t \in Turns : Turn(t)
    \/ \E m \in Messages : Stop(m)
    \/ \E j \in Jobs : Consolidation(j)
    \/ \E n \in News : New(n) \/ Archive(n)
    \/ Restart
    \/ Quiet

(* The event loop serves whoever is ready, calls to the model end (the        *)
(* breaker's wait_for), and the lock goes to its waiters in order.            *)
Fairness ==
    /\ \A t \in Turns : WF_vars(Turn(t))
    /\ \A j \in Jobs : WF_vars(Consolidation(j))
    /\ \A n \in News : WF_vars(New(n)) /\ WF_vars(Archive(n))

Spec == Init /\ [][Next]_vars
FairSpec == Spec /\ Fairness

-----------------------------------------------------------------------------
(* Properties.                                                             *)

Sessions == [msgs : Seq(Turns), off : Nat]

(* The shape of the state; locks are held by messages that are being handled. *)
TypeOK ==
    /\ objs \in Seq(Sessions)
    /\ cache \in DOMAIN objs \cup {None}
    /\ file \in Sessions
    /\ pc \in [Messages -> {"idle"} \cup Busy \cup Over]
    /\ sess \in [Messages -> DOMAIN objs \cup {None}]
    /\ procLock \in {m \in Messages : ~direct /\ pc[m] \in Busy} \cup {None}
    /\ job \in [Jobs -> [at : {"off", "waiting", "asking"}, upto : Nat, chunk : Seq(Turns)]]
    /\ consLock \in {j \in Jobs : job[j].at = "asking"} \cup {None}
    /\ pending \in [News -> Seq(Turns)]
    /\ archived \in [Turns -> Nat]
    /\ redis \in SUBSET Turns
    /\ restarts \in 0..MaxRestarts
    /\ direct \in BOOLEAN
    /\ epoch \in Nat
    /\ born \in [Turns -> Nat]
    /\ straddled \in BOOLEAN

(* The cached session is what is on disk, between any two steps: whatever     *)
(* handler holds which object, a restart loses no message that a client was   *)
(* answered.                                                                  *)
DiskMatchesCache == cache # None => objs[cache] = file

(* At most one consolidation of the conversation asks the model. *)
OneConsolidation ==
    \A i, j \in Jobs : job[i].at = "asking" /\ job[j].at = "asking" => i = j

(* A turn of the current conversation that was saved stays on disk, unless a  *)
(* handler or a background task that began before a /new saved after it.      *)
TurnKept ==
    \A t \in Turns :
        pc[t] \in {"saved", "done"} /\ born[t] = epoch =>
            t \in Elems(file.msgs) \/ straddled

(* What the offset hides from the model was consolidated, with the same       *)
(* exception: a consolidation that was in flight during a /new.               *)
Hidden(s) == {s.msgs[i] : i \in {k \in DOMAIN s.msgs : k <= s.off}}
HiddenWasArchived ==
    straddled \/ /\ file.off <= Len(file.msgs)
                 /\ \A t \in Hidden(file) : archived[t] > 0

(* No turn is consolidated twice, although turns, background tasks and /new   *)
(* all cut slices off the same session.                                       *)
ArchivedOnce == straddled \/ \A t \in Turns : archived[t] <= 1

(* Between two /new the session's file is only extended: no save of a turn or *)
(* of a consolidation takes back a turn another one wrote, puts it elsewhere, *)
(* or shows again what the offset hid.  The same exception.                   *)
Extends(s, r) ==
    /\ r.off <= s.off
    /\ \A i \in DOMAIN r.msgs : i \in DOMAIN s.msgs /\ s.msgs[i] = r.msgs[i]

FileOnlyGrows == [][epoch' = epoch /\ ~straddled' => Extends(file', file)]_vars

(* Every message is handled in the end: no lock is left behind. *)
Served == <>Stopped

(* manager.py:54: get_history returns the unconsolidated messages, so none of *)
(* a session's messages is hidden that HISTORY.md does not have.              *)
HistoryComplete ==
    cache # None => \A t \in Hidden(objs[cache]) : archived[t] > 0

(* loop.py:390: /new starts a new conversation, so the prompt of a turn that  *)
(* begins after it shows no turn that was over before it.                     *)
FreshConversation ==
    [][\A t \in Turns : pc[t] = "prompting" /\ pc'[t] = "asking" /\ ~straddled =>
          \A u \in Prompt(t) : born[u] >= born[t]]_vars
=============================================================================

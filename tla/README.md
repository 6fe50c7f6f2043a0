# SEGYR-BOT: specifications, model checking and proofs

TLA+ models of the concurrent core of this repository. Paths are relative to
the repository's root. Everything here is translated from the code; where a
model and the code's own statements disagree, a run shows it (section 5).

## 1. The system

Three programs are built from one code base:

- the **gateway** (`segyr_bot/gateway.py`), a FastAPI application that owns a
  message bus and an agent loop; gunicorn starts one per core;
- the **API** (`api/main.py`), which calls the same agent loop directly
  (`process_direct`) and serves `/repair`, `/dashboard`, `/health`, `/metrics`;
- the **alert loop** (`python -m core.monitoring.alerting`), which polls the
  health of the others and repairs.

No program of the repository wires the channel manager to the agent loop: the
gateway owns the bus and the loop, but its own dispatcher only logs what comes
out (`segyr_bot/gateway.py:367-409`). `MessageFlow` composes bus, agent loop and
channels by the interfaces they were written against.

Each of the first two is a single asyncio event loop with a few threads beside
it (the repair executor, `asyncio.to_thread`). So within a process a coroutine
is atomic between two awaits, and what can go wrong happens at the awaits, at
the threads, at cancellations and at restarts.

| Component | State it keeps | Operations | Talks to | Hard part | Correct when |
|---|---|---|---|---|---|
| Circuit breaker `core/utils/circuit_breaker.py` | state, failure count, time stamp, probe count | `call_async` | Redis client, LiteLLM provider | calls overlap in every state; retries; cancellation | counts are true, it recovers, probes are limited |
| Repair API `api/routes/repair.py` | current future and its fields, last and recent results, audit file | run, dry-run, status, (wait, refresh) | executor thread, dashboard | a thread ends the job at any moment | one repair at a time, no result lost or recorded twice |
| Agent loop `core/agent/loop.py` | processing lock, active and background tasks | dispatch, `/new`, `/stop`, `/help`, process_direct | bus, sessions, memory, providers, Redis | handlers hold a session object over many awaits | every turn is answered and kept |
| Sessions `core/session/manager.py` | object cache, JSONL files | get_or_create, save, clear, invalidate | agent loop, consolidator | two objects of one key after `/new` | cache and disk agree |
| Memory `core/agent/memory.py` | MEMORY.md, HISTORY.md, failure counter, a lock per session | consolidate, archive | provider, sessions | long awaits between reading and writing | what is hidden was consolidated, once |
| Bus `core/bus/` | two bounded queues | publish, consume | agent loop, channels, gateway | full queues raise | no message stuck or lost silently |
| Channels `segyr_bot/channels/` | pending webhook futures | receive, send | bus | progress messages, late replies | a request gets its own reply |
| Gateway `segyr_bot/gateway.py` | connection counters, per-IP buckets, tasks | start, stop, sockets, watchdog | bus, agent, Redis | counters over error paths | places are given back |
| Providers `core/providers/` | latency statistics, breaker | chat, retry, fallback | breaker | nested retries | bounded attempts, order of fallback |
| Redis client, rate limits, Redis memory | counters, lists | incr, expire, push, trim | all | pairs of commands that are not atomic | limits hold, pairs stay together |
| Auto-repair, policy `core/monitoring/` | history file, cooldowns | analyse, decide, act, verify | services, repair API, alerting | decisions on history written by others | bounded attempts, cooldown respected |
| Alerting `core/monitoring/alerting.py` | in-progress flag, last trigger | poll, trigger | policy, auto-repair | flag over thread start and end | one repair at a time, flag always cleared |
| Skills router `segyr_bot/skills/router.py` | cache of model answers | resolve | provider | a transient failure is cached | the right skill, or none for a reason |
| Fallback queue `core/queue/`, `run_redis_e2e.py` | a Redis list | enqueue, consume | worker | read, remove, run | a job runs exactly once |
| Frontend socket `useWebSocket.js` | timers, socket | connect, reconnect, close | gateway | timers after close | one live socket |

Without concurrency of their own, and not modelled: settings, logging and
helpers, what the agent's tools do to files, the business modules and the older
orchestrator over PostgreSQL, the display pages, the deployment files.
`PROJECT.json` lists every component with its status, and the hazards with the
line where each bites and the property that covers it.

## 2. Modules

| Module | Models | Composition |
|---|---|---|
| `CircuitBreaker` | the breaker and its callers | alone |
| `RepairSlot` | what the repair endpoints promise: at most one job | abstract |
| `RepairJobs` | the repair endpoints, the executor, the status reply | `Slot == INSTANCE RepairSlot WITH active <- ..., ended <- ...` |
| `Conversation` | agent loop, sessions, consolidator and Redis memory of one session | alone; a call to the model ends, well or not |
| `MemoryStore` | MEMORY.md, HISTORY.md and the failure counter under the consolidations of several sessions and processes | alone; where `Conversation` has outcomes, this has the store |
| `AtMostOnce` | what bus and agent loop promise a channel: a message ends at most once | abstract |
| `MessageFlow` | bus, agent loop's dispatch and `/stop`, channels, webhook futures | `Promise == INSTANCE AtMostOnce WITH status <- Status` |
| `MCMessageFlow` | the chats of its messages, for TLC | extends it |
| `ModelCalls` | the providers: router, models, breaker attempts, retries | extended by `AgentTurn` |
| `AgentTurn` | what a turn asks of models: skill routing, reply cache, consolidation, iterations with tools; what overlapping turns do to it | extends `ModelCalls` |
| `RateLimit` | both rate limiters over Redis | alone |
| `WsAdmission` | admission of WebSocket clients | alone |
| `MCWsAdmission` | five clients and their addresses, for TLC | extends it |
| `Policy` | the policy engine: operators on health and history | extended by `AutoRepair` |
| `AutoRepair` | a repair run, by either process | extends `Policy` |
| `Alerting` | the alert loop beside the API's repair worker | extends `AutoRepair` |
| `GatewayProofs` | theorems about `WsAdmission` and `RateLimit` | extends both and TLAPS |
| other `*Proofs` | theorems about the module they are named for | extend it and TLAPS |

Definitions whose comment begins with *mutation* are not part of a
specification: each is the form a plausible bug would give the definition that
follows it, and shows that the property named in `PROJECT.json` notices it.
History variables (marked so at their declaration) record what the code keeps
nowhere, for the properties; no guard reads them.

### CircuitBreaker

`breaker` is the dataclass; its methods are functions of it with the names of
the code. `call_async` is cut at its two awaits: `Start` or `Block` (lines
77-88), `Succeed`, `Fail` (89-121), `Retry` after the back-off, and `Cancel`,
which may come at either await and leaves the dataclass alone because
`CancelledError` is caught by neither handler. A coroutine that has ended may
call again. `opened_at` holds the ticks since the stamp, stopped at
`RecoveryTimeout`; `failure_count` stops at the threshold: the code compares
both with those values only. `probing` and `lost` are history: the attempts
that `half_open_calls` stands for, running or cancelled.

### RepairJobs

A handler runs alone on the event loop until `_wait_current_job`'s await, but
the worker thread may end the job in between. So a handler is cut where it
looks at the future a second time: `SubmitRefresh` then one of `SubmitBusy`,
`SubmitStart`, `SubmitRefused`; `StatusRefresh` then `StatusReply`. `loop` names
the handler that holds the loop meanwhile. `WaitGivesUp` is the 30 s time-out in
the helper thread, `WaitTimedOut`, `WaitDone` and `WaitRaised` the handler's next
step. `Refresh` is the whole of `_refresh_job_state`, the audit line included
(which may fail to be written). `_STATE_LOCK` needs no variable: every handler
is on the loop's thread. `_LAST_ERROR` of a raised wait is assigned to a local
in the code (no `global`), so `WaitRaised` leaves `lastError` alone.
`recorded` and `replaced` are history.

### Conversation

A message is a coroutine with a program counter; the session **objects** are
values of `objs`, and `sess[m]` is the one message `m` fetched. `cache` is the
manager's entry for the key, `file` the JSONL file. A turn is
`Start`, then `Shortcut` (skill or cached answer) or `Consult`, consolidation in
the foreground, `Ask`, `Reply` or `Fail`, `Remember`. `Reply` also starts the
background consolidation. `New` is `/new`, which never awaits. `Stop` is `/stop`
for one message. `Restart` loses everything but the files and Redis.
A turn's messages are one item, because consolidation only cuts in front of a
user message; which cut it takes depends on token counts, so any is possible.
`direct`, chosen at the start, tells the two programs apart: in the gateway
turns hold `_processing_lock` and can be stopped; in the API they overlap.
`epoch`, `born` and `straddled` are history: `straddled` becomes true when a
handler or job that began before a `/new` saves after it.

### MemoryStore

A job is a *slice* (a round of `maybe_consolidate_by_tokens`) or a *snapshot*
(`archive_messages` of a `/new`), in its `home` process. `Begin` is `consolidate`
up to the call of the model (96-121); `Fail` its failure paths with
`_fail_or_raw_archive`, after which a snapshot reads MEMORY.md and asks again in
the same step; `Answer` the entry in HISTORY.md (146); then `Unchanged`, or
`Truncate` and `Write`, since `write_text` empties the file first; and `Save`, by
which the slice's offset moves. From `Answer` to `Save` the job has its event
loop to itself (`MayRun`): only another process sees the steps between, or a
`Crash` or disk error (`WriteFails`) falls there. MEMORY.md is the set of jobs
whose facts it holds. The model is external: its update is what the prompt
showed with the job's own facts, or the same text again. A crash loses snapshots
(they are only in a task) and takes slices back to their session.

### MessageFlow

`entry[m]` is what became of the hand-over by the channel (`HandleMessage`: not
allowed, queue full, accepted), `kind[m]` what the text is (a turn, `/new`,
`/stop`). The loop's tasks stand in `lock`, the queue of `_processing_lock`, whose
head runs; `Progress`, `Reply`, `Fail` and `Leave` are its steps up to the next
await, and a full queue raises in the middle of each as it does in the code.
`Consume` is the agent loop's `run`, `HandleStop` the whole of `_handle_stop`
that needs no await, `StopEnds` its end after the cancelled tasks have been
awaited, where a full outbound queue ends the loop (`agent = "dead"`).
`DispatchOutbound` delivers; `Send` resolves the webhook's future with the first
message that carries its id; `GiveUp` is the webhook's time-out.

### ModelCalls and AgentTurn

One call is five nested loops: `chat_with_retry` (rounds), the router
(providers), `LiteLLMProvider.chat` (models), the breaker (attempts),
`_completion_with_retry` (requests). `ModelFails`, `NextProvider`, `NextRound`
are the loops' ends from the inside out. A breaker is only willing or not;
`Swing` changes that at any time, as other callers do. `AnswerStored` is the
answer from `llm_cache`. `AgentTurn` follows one turn: `Receive`, the skill
(`Recall`, `AskForSkill`, `RouteDirectly` through Ollama, `RouteEnds` with the
deadline of 1.5 s), `RunSkill`, or `Look` in the reply cache, then the foreground
consolidation (`Measure`, and a model call that `Cut` ends), then `Think`,
`ThoughtEnds`, `RunTools` until an answer or the iteration limit; `Stop` and
`StopRouting` cancel the turn's task.

`program` tells the gateway, whose turns hold the processing lock, from the API,
whose turns overlap (`process_direct`, `loop.py:511-521`, takes no lock). The
overlapping turns are there by what they do to the state turns share: they ask
for a skill (`OtherAsks`, the test at `router.py:206`) and awaits later store what
came of it (`OtherResolves`, 248-292), keep replies (`OtherKeeps`) and swing
breakers. `asking` counts those between test and store. `Remember` is the store,
which looks at nothing: it overwrites. `decided` is history and counts the stores
of a text.

### RateLimit

A request's job runs in a thread: `Incr`, then `Expire` when it made the key. The
gateway's `redis_incr` waits a second and starts another job (`TimeOut`, up to
`MaxTries`) while the first may still run, or before a thread has begun it
(`Withdraw`); the API waits for its one. Either command may fail, or its process
die between the two (`ExpireFails`), as may the API's third command, TTL
(`HowItEnds`), and a key ends by expiry or, in the API, with
the time bucket in its name. `limiter` says which of
the two is modelled, `drawn` is the number each try received. `Unnumbered` is what
becomes of a request that gets no number: the gateway refuses it, the API lets it
through, unless `global_rate_limit_fail_closed` is set (it is not by default) and
it was a `RedisError` (`security.py:69-80`).

### WsAdmission

`Connect`/`RefuseIp`/`TurnAway` are the handlers up to `ws.accept`; `Accept` or
`Leave` what follows; `Pruned`, `Reached`, `TakePlace` are `_allow_ip`.
`_release_ip` is called on every way out and defined nowhere, so each such
call raises at the end of its handler and the place stays taken.

### Policy, AutoRepair, Alerting

`Issues`, `DecideActions`, `ShouldRepair` are the policy engine over a health
record and a log. A log is a bag of entries with ages, because no rule looks at
their order, and holds of each kind at most as many as a rule can tell apart
(`Enough`); the polls that saw a Redis error are a set of ages, one a tick.
`Answers` is the loop over the sorted issues: the sort by severity gives each
issue its `Place`, and an issue contributes its action unless one before it has
the same. `AutoRepair` is
`run_auto_repair_loop` for a worker `w`: `Launch`, `Execute`, `Verify`, `GoOn` to
the next attempt or action, `Raise`, `Return`, `Leave`. `Alerting` runs it twice:
in the alert loop's thread (`Poll`, `Trigger`, `AlertRun`, `AlertRunEnds`) and in
the API's repair worker (`ApiRequest`, `ApiRun`, `ApiRecord`, whose slot is
`RepairJobs`' subject; any number of requests come, dry runs and refused ones
among them, and each leaves an entry). `Settings` are the values of the two
environment variables as `Normalized` reads them: a mode it does not know is
`run`. Services fail, the alerting process crashes and boots.
`Budget(w)` is what a run may still execute. One `Tick` is a poll interval; cooldowns and windows are ages of history entries,
and an entry no rule can look at any more is dropped (`Forgettable`).

## 3. Runs

| Run | Bounds | Shows |
|---|---|---|
| `breaker` | 3 coroutines, threshold 2, recovery 2 ticks, 1 probe, 2 attempts | counters, probes, recovery |
| `repair_jobs` | 2 requests, 1 recent result | invariants, refinement of `RepairSlot`, the slot is freed |
| `conversation` | 3 turns, one `/new`, one restart, both programs, Redis off | five invariants, what a step may do to the file; every message is handled |
| `conversation_history_doc` | 3 turns, one `/new` | finding 1 |
| `conversation_fresh_doc` | 2 turns, one `/new`, Redis on | finding 2 |
| `memory_store` | a slice, two snapshots, two processes in any assignment, limit 3, 2 tries of the slice, one crash or disk error | what reaches HISTORY.md, what MEMORY.md loses |
| `monitoring` | 2 workers, Redis failing, 2 attempts, cooldown and windows of 1 tick, trigger cooldown of 2, any number of API requests, 1 crash | flag, kill switch, bounded runs, recovery |
| `message_flow` | 2 webhook requests and one other message, 2 chats, queues of 2 and 1, 1 progress message | four invariants and action properties, refinement of `AtMostOnce`, liveness |
| `gateway` | 5 sockets, 2 addresses, limits 2, 2 and 1 per minute | limits and counters |
| `model_calls` | 2 requests per attempt, 2 attempts, 2 rounds, one text, 2 iterations, 2 calls to consolidate, 1 overlapping turn, 2 messages, both programs, every provider set-up | bounds, order, routing, every turn ends |
| `model_calls_doc` | same with 3 attempts, 4 rounds, 1 call to consolidate, 1 message | finding 3 |
| `rate_limit` | 2 requests, limit 1, 2 tries, both limiters | limit and expiry |

Why these bounds are enough to meet the interesting cases. Breaker: with
threshold 2 and three callers, one can probe while a second retries from before
the breaker opened and a third is refused; with two attempts a call both sleeps
and exhausts. Repair: two requests allow a waiter and the job that replaced its
own, or a request that is refused; one recent result overflows with two.
Conversation: three turns allow two rounds of consolidation on one session, or an
old and a new conversation with a slice to cut; one `/new` and one restart can
fall between any two steps. A second `/new` only makes the epochs longer: each
property compares an epoch with the current one. Memory store: two snapshots in
one process can use up each other's failures, and the slice can succeed between
them; in two processes one writes while the other reads; the fault falls into
any step. Monitoring: the cooldown of the trigger is longer than the policy's, so
each can be the one that holds, and requests of the API fall into both as often
as they like; the run of the thread and the API's can overlap.
Message flow: an inbound queue of two holds a turn and the `/stop` that cancels
it, a third message does not fit; an outbound queue of one is full after a
progress message. Gateway: three clients of one address exceed its limit, two
addresses the common one. Model calls: with a pair of providers and a fallback
model every loop has a second round; an overlapping turn asks before, while or
after the one that is followed does. Rate limit: two requests compete for one
place; a second try may draw a number while the first job still runs.

Deadlock is checked in `breaker`, `repair_jobs`, the `conversation` runs and
`monitoring`. The other modules end when their messages, sockets, jobs or
requests are used up, so their configurations do not check it.

`TypeOK` is a theorem of every module that has variables (section 6), which a
run need not repeat.

The properties, by hazard:

- **Counting over transitions** (breaker): `ClosedBelowThreshold` is an
  equivalence, so neither a stale count after recovery nor retries while OPEN
  can break it. `FreshProbeLimit` limits first attempts only; retries of calls
  from before come on top, which the code does not limit: admission is checked
  once per call (`circuit_breaker.py:77`).
- **Recovery** (breaker): `LeavesOpen`, `HalfOpenDecides` and `RefusalHasProbe`
  hold with the exception `lost > 0`: a cancelled probe keeps its place for
  ever and the breaker refuses everything. `segyr_bot/skills/router.py:249-260`
  does cancel model calls, after 1.5 s, and `/stop` does too. The exception is
  the model's way to say that this is the only cause.
- **Double look** (repair): a submission refreshes (line 313), then tests the
  future (315). A job that ends in between is overwritten and its result is
  neither recorded nor audited. `EndedIsAccountedFor` and `AnsweredIsRecorded`
  show that nothing else loses a result.
- **Two objects of one session** (conversation): `DiskMatchesCache` holds always;
  `TurnKept`, `HiddenWasArchived` and `ArchivedOnce` hold unless something
  straddled a `/new`: an old handler's save displaces the new conversation on
  disk and in the cache. `FileOnlyGrows` says it of steps: `save` rewrites the
  whole file from one object, yet between two `/new` no save takes back another
  turn's messages or moves the offset back.
- **Shared failure counter** (memory): a snapshot is tried three times and relies
  on its third failure to be written raw. `SnapshotKept`: it is in HISTORY.md
  unless another job of the process reset the counter between its failures;
  then it is dropped, and `archive_messages` says True.
  The reset is a loss the code has; the property shows it is the only one.
- **Append, rewrite, save** (memory): `InHistoryOnce` and `UpdateKept` name what a
  crash, a disk error or an overlapping rewrite may do, and show that retries,
  raw archives and cancellations do nothing of the kind. An update that an
  overlapping consolidation undoes is lost in the code too; `UpdateKept` says that
  nothing else is, as each try reads MEMORY.md anew.
- **Futures and queues** (message flow): `PendingIsAwaited` says that time-outs,
  refusals and answers clean `_pending`, and that a full inbound queue is the one
  leak. `HandledOnce` and `QuietOnceEnded` are about `/stop` among queued, waiting
  and running turns. `Handled` has the exception of a dead agent loop.
- **Flag and cooldowns** (monitoring): `FlagTracksThread` ties the flag to the
  thread through every way a run ends; `RedisRecovers` says that neither flag, nor
  trigger cooldown, nor the entries others leave in the history stop the repair
  for ever, unless clients ask for ever (`AskedForEver`). The exception is real:
  `should_repair` (`policy_engine.py:453-483`) counts refused requests and dry runs
  too, so a client that asks more often than the cooldown keeps suppressing the
  automatic repair, and without the exception TLC finds that loop.
  `RunsAreBounded`: a service that never comes up costs `MAX_ATTEMPTS_PER_ACTION`
  executions of each action, however its verifications fail.
- **Places** (gateway): `CountersTell` states the counters' exact error;
  `LimitsHold` that they err on the side of refusing.
- **Nested retries** (model calls): `RetriesBounded` gives the product,
  `GivesUpLast` says a call that fails went through every candidate, except those
  a refusing breaker skips (finding 3). `RoutingSettles`: in
  the gateway one slow answer decides a text's routing for the life of the process;
  in the API every turn that had asked before the first store decides it again,
  and no turn after. `TurnEnds`: no turn keeps the lock.
- **Two commands** (rate limit): `AtMostMax` is about the requests let through by
  a number, and holds although numbers are drawn twice and answers belong to
  earlier tries. It says of those let through without one that they are the API's
  and that their own job failed: by default the API is fail-open, so what fails in
  a window comes on top of its limit. `ExpiryIsComing` says that only a job
  that failed or died between its commands leaves a key without an expiry.

## 4. Fairness

Weak fairness unless said.

- Breaker: the clock; the end of a protected call (`wait_for` bounds it); the end
  of a sleep; and that callers keep coming, since every message asks the model
  and the metrics socket pings Redis every 2 s. Never a cancellation.
- Repair: the handler holding the loop goes on; waiters, strongly, because the
  loop serves ready callbacks in order while the lock-step of other handlers may
  disable a waiter's action again and again; the executor; jobs end, as each
  command and request of a repair has a time-out; and someone asks for the
  status, as the built dashboard (`frontend/dist`) does every 5 s. Without that
  last one a raised job whose client has gone stays on the slot until the next
  request, which is harmless and visible in the model.
- Conversation: each turn, each consolidation, `/new` and the archiving go on.
  Never `/stop` or a restart.
- Message flow: the agent loop consumes, the turn that holds the lock goes on, a
  `/stop` comes to its end, the dispatcher delivers. Nobody has to send or to
  stop, no webhook has to time out.
- Model calls: every await of a turn has a time limit (a skill's by assumption),
  so turn and call go on. No other turn has to go on, no breaker has to recover, no entry to expire.
- Monitoring: polls, ticks, runs and records go on. Of the environment, strongly:
  polls that could trigger a repair do not always find the API out of reach, and
  a service restarted again and again comes up. Nobody has to send a request, to
  stop sending them or to start the alerting process again: `RedisRecovers`
  excepts the last two.

## 5. Findings

1. `HistoryComplete`: `manager.py:54` says `get_history` returns the
   unconsolidated messages. A consolidation awaiting the model when `/new` clears
   the session sets its old offset afterwards (`memory.py:269`), and the save
   makes that object the cached one again. The next messages lie below the
   offset: hidden, and never consolidated.
2. `FreshConversation`: `/new` starts a new conversation (`loop.py:390`), but
   the Redis list of the chat is left, and `loop.py:452-453` merges it into the
   next prompt.
3. `AlwaysResponds`: `chat` is declared to return an `LLMResponse`
   (`base.py:114`, `litellm_provider.py:98`). When the breaker refuses the last
   model, the loop ends without a return; the router raises on the missing value
   outside its `try`, and the secondary provider is not asked.

Met while modelling, and visible in the models, without a statement in the
repository they would contradict:

- Providers: the router asks the secondary for the *primary's* model, so the
  secondary's own is never used. Behind a router `chat_with_retry` never repeats
  ("LLM unavailable" is not a transient error), and neither does a time-out,
  whose text is empty. Excuses and error replies stay in the reply cache for its
  time to live. With a router and an Ollama model, direct routing has no address
  and resolves nothing. The text of an error that names a skill selects it.
- Skills: of two turns of one text that overlap in the API, the one whose model
  timed out stores "no skill" over the skill the other found (`router.py:206`
  against 248-292), and that stays.
- Gateway: `_release_ip` and `_LOG_CHANNEL` are not defined, so an IP's places are
  never given back and `ws_logs` delivers nothing; `/message` calls a
  `handle_message` the runtime does not have, after it passed the limiter. A
  client gone before `ws.accept` stays counted as active.
- Rate limit: a timed-out job still counts, so a request may count three times; a
  key without expiry refuses for ever at the gateway, whose key has no time
  bucket; an open breaker refuses everybody. The API's limiter, fail-open unless
  configured otherwise, lets requests through on top of its limit when Redis fails.
- Channels: Telegram groups never get replies (their ids are negative, the test is
  `isdigit`); replies to `/new`, `/help`, `/stop` and errors carry no request id,
  so the webhook times out; a progress message resolves the webhook in place of
  the reply; a full inbound queue ends the internal channel's start task, a full
  outbound queue at `/stop` the agent loop.
- Monitoring: `/health/full` looks at Redis only, so outages of gateway and queue
  do not reach the alert loop, while an unreachable API restarts the gateway. A
  repair for an error spike is dropped by the thread's own evaluation and still
  uses up the cooldown. Dry runs and refused requests count as repairs;
  auto-repair's own history entries lack the fields the limit looks for, so they
  never count. A crash forgets the cooldown. A misspelt `AUTO_REPAIR_MODE` counts as
  `run` (`auto_repair.py:75-79`). Clients that go on asking the API for repairs
  suppress the automatic one, refused or not. Repairs of the two processes can
  overlap.

## 6. What is proved

For every value of the constants allowed by the modules' assumptions. Each proof
has an inductive invariant, one lemma or step per action, and a last step by
temporal logic.

**CircuitBreakerProofs**: `TypeOK`, `OpenHasTimestamp`, `ClosedBelowThreshold`,
`FreshProbeLimit`, `RefusalHasProbe`, for any finite set of coroutines.
`half_open_calls` is shared, reset by every transition and never decremented, so
the probe limit is not inductive. `ProbeAccounting` is what it needs: the count is
the number of running probes plus the cancelled ones, and outside HALF_OPEN
there is neither. `Locals` ties a coroutine's place to its attempt counter. The
lemmas about `RecordSuccess`, `RecordFailure` and `CountAttempt` say what each
returns; `BeginKeepsIInv` and `EndKeepsIInv` serve all actions that begin or
end an attempt.

**RepairJobsProofs**: `TypeOK`, `UnfinishedIsTracked`, `EndedIsAccountedFor`,
`AuditedOnce`, `AnsweredIsRecorded`, `StatusTruthful`, and `Exclusive`, the
refinement of `RepairSlot`, for any set of requests. `AuditedOnce` alone is not
inductive: `HandlerInv` says that a request whose handler is idle has no job and
no line, that a recorded job has ended and is off the slot, and that a job off
the record has no line. `RefreshEffect` states once what a refresh does; every
handler that refreshes cites it. In the refinement `SubmitStart` is `Begin`
(`UnfinishedIsTracked` with `SlotLooksFree` gives an empty slot), `WorkerFinish`
is `End`, and every other step stutters.

**ConversationProofs**: every safety invariant of `Conversation` (`TypeOK`,
`DiskMatchesCache`, `OneConsolidation`, `TurnKept`, `HiddenWasArchived`,
`ArchivedOnce`) and the action property `FileOnlyGrows`, for any sets of turns
and of `/new` commands, from three inductive layers, each using the ones before.

- `IInv` ties the three kinds of state together: a handler or background job that
  can still act holds an object that exists (`TurnInv`), a foreground job belongs
  to a turn that is consolidating, and a job that asks the model holds the lock
  (`LockHeld`). `DiskMatchesCache` follows because every save makes its object
  the cached one.
- `KInv` adds `Current`: until something straddles a `/new`, the handlers of the
  current conversation all hold the cached object, so each save extends the file.
  `TurnKept` rests on that, and `HiddenWasArchived` also on `ChunkCovers`: the
  slice that is out at the model contains all that its end will hide, although
  other turns append to the session meanwhile.
- `HInv` follows a turn from its handler to HISTORY.md: nowhere before it is
  saved, then once in the file, then in one snapshot or behind the offset; a
  slice has nothing that is not in the file. `ArchivedOnce` needs all of it.

`FileOnlyGrows` takes all three. A turn that saves appends to the cached object
(`Current`), which is the file (`DiskMatchesCache`). A consolidation that ends
moves the offset to the end of its slice; the slice was cut behind the offset and
`SliceOfFile` keeps it there, so the move is forward. Every other step leaves
file or conversation.

`straddled` is an exception of the statements, not of the proofs: `IInv` holds
with it, the other two layers stop claiming anything when it is true.

**MessageFlowProofs**: `TypeOK`, `PendingIsAwaited`, `QuietOnceEnded`, and
`HandledOnce`, the refinement of `AtMostOnce`, for any chats, channels and queue
sizes. `Placed` is the strengthening: an accepted message that has not ended is in
exactly one of the inbound queue, the lock's queue and, as a `/stop`, the loop's
hands, so a step that ends a message ends one that had not ended. `LoopKeeps`,
`TaskEnds` and `Published` state once what the loop's steps share.

**MemoryStoreProofs**: `TypeOK`, `SnapshotKept`, `InHistoryOnce`, `UpdateKept`, and
that a job has at most one entry in HISTORY.md more than there were crashes and
disk errors (`DuplicatesNeedFaults`), for any slices, snapshots, processes, limit
of failures and number of tries. None of the properties is inductive alone:

- `SnapshotKept` is about the end of a snapshot that has failed `MaxFailures`
  times. `OwnFailuresCount` is what its last failure relies on: while it is
  tried, the count of its process is at least its own failures so far, unless
  another job set the count back, or a broken try had left an entry already.
  `Untried` starts that count: who waits for its first try has no failures.
- `InHistoryOnce` follows from `EntriesMatch`: the number of a job's entries is
  told by its place and its broken tries; from the entry to the save it is one
  ahead.
- `UpdateKept` needs `PromptsKnow`: whatever MEMORY.md has got since is in the
  text the running prompt was built from, or noted as unknown to it, so a write
  loses exactly what is noted. A torn file makes a prompt from nothing; the
  invariant still holds because what it had is noted as unknown to that prompt.
- `BrokenByFaults` charges each broken try to a fault.

**GatewayProofs**: of `WsAdmission` `TypeOK`, `CountersTell`, `LimitsHold`, for any
finite set of sockets and any limits; of `RateLimit` `RateTypeOK`, `AtMostMax`,
`ExpiryIsComing`, for any finite set of requests and any limit. The counters of
the first are cardinalities (`Numbers`), `Moves` says how those change when one
socket changes its stage; `Listed` says that whoever was admitted in the last
minute is still in the list `_prune_recent` left, from which the limit per minute
follows. The argument of `AtMostMax`: no two tries have the same number in one
life of the key (`NoTwice`), a request passes by a number up to the limit, so at
most that many pass by one; `OpenOnFailure` is its other half, that whoever passes
without a number has a failed job at the API.

**AgentTurnProofs**: `TypeOK`, `RetriesBounded`, `GivesUpLast`, `RoutingSettles`,
for any numbers of retries, attempts, rounds, iterations and overlapping turns. `Spent` bounds what a
call has requested by the place it has reached in the loops, the induction behind
the product; `Behind` says that whatever lies before that place was tried. `RoutingSettles` is
not inductive: a turn that has asked still decides. `Settling` adds up the stores
made and those still out, of other turns and of this one, and bounds their sum; a
turn only asks while nothing has been stored.

**AlertingProofs**: `TypeOK`, `FlagTracksThread`, `KillSwitch`, `RunsAreBounded`,
for any settings, cooldowns, windows, history and number of polls; and of the
policy engine that `Answers` is a sequence without repetition of exactly the
wanted actions that answer an issue, for any issues (`PlansEachAnswerOnce`).
`KillSwitch` needs that only settings which let a run act get it past its
beginning, and that an idle worker has executed nothing. `HasPlan` says that a
run never comes to act or verify with nothing left, and that its plan stays
distinct (`PlansStayDistinct`): so a plan has at most as many actions as there
are, which bounds the budget a run begins with. `RunSpends` then goes through
the steps of a run: an execution takes one, going on to the next attempt or
action gives none back; `NextSpends` adds that no step of another actor touches
it.

Every safety invariant and every action property that a run checks is stated by
a theorem. Only model-checked are the liveness properties (`LeavesOpen`,
`HalfOpenDecides`, `SlotFreed`, `Served`, `Handled`, `TurnAnswered`,
`RedisRecovers`, `TurnEnds`), which need fairness and ENABLED and so are out of the
prover's reach. That the orders of `Answers` are those of Python's stable sort is
read off `Place`, not proved from a definition of sorting.

## 7. What the models leave out

- Session files are those of one gateway process; gunicorn's workers share them
  with a cache each. `MemoryStore` has several processes, each session with one.
- `save` is atomic; a crash inside it leaves a torn file.
- Disk errors but for MEMORY.md and the audit line.
- The Redis list keeps a chat's last 50 messages and the prompt takes 12 of them:
  more than the runs produce.
- A repair job that itself raises `TimeoutError` is answered as still running,
  like a wait that timed out; a raising job is not told apart by its exception.
- Pauses between retries, latency statistics, scores of the skills router, token
  counts: choices that depend on them are free.
- What tools do: a round of them is one step. `/stop` leaves the subprocess of a
  command running (`shell.py:77`).
- A health snapshot is one look, where the code probes Redis twice and the
  components one after another (`auto_repair.py:150-186`): a snapshot that mixes two
  moments does not occur.
- The limiter in memory, used only when `core.redis.client` cannot be imported
  (`rate_limit.py:9-12`). A job of the API that named its key before a window ended
  still counts the old one; the model has it count the new one, where its number
  is as much its own.
- In `AgentTurn`, the turns that overlap are their effects on what turns share, and
  the session's consolidation lock is left to `Conversation`.
- In the policy, cache issues and `purge_cache`: no health payload of this system
  has cache figures.
- Cancellation of API requests by their clients.
- Not modelled at all: the gateway's start, stop and watchdog; the list queue used
  without RQ (`core/queue`, a test script consumes it); the frontend; the business
  modules and the older orchestrator, sequential code over PostgreSQL.

## 8. Plan

Done: breaker, repair, conversation, memory store, message flow, monitoring, gateway
admission, model calls, rate limits, with the proofs above. Left, in this order:

1. `GatewayRuntime`: start and stop with tasks that outlive it
   (`gateway.py:346`), the watchdog; composed with `MessageFlow`.
2. A session file as lines, for a torn save (`manager.py:137`), and two gateway
   processes over one session (`loop.py:372`).
3. `FallbackQueue` and `ReconnectingSocket`.

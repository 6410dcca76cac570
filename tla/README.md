# ElyAgent in TLA+

ElyAgent is a self-hosted personal assistant: a FastAPI backend (one process, one
asyncio event loop, SQLite) that drives language models and tools on behalf of its
users, from chat conversations and from autonomous missions, and that reaches the
user's machine through a desktop daemon (Go) and a browser extension. This directory
specifies the parts of it whose correctness depends on the order in which things
happen: who may answer a critical action and when, what a mission does when it is
stopped, restarted or answered while it works, what becomes of a command whose
link is cut, of an event or an occurrence nobody was there to see, of a tool call
that ends after its turn, and of a turn of the chat whose page has left. The modules are model-checked with TLC on small instances, and the most
important safety properties are proved with TLAPS for every value of the constants.

The reference is the code. Paths are relative to `src/`, and
`services/`, `routers/`, `agent/`, `models/`, `channels/` stand for
`backend/app/services/` and so on. `PROJECT.json` gives, for each definition, the lines
it models.

## 1. Inventory

The first group holds the program's own core logic with state that several actors
share; the others are listed with the reason they are left for later or left out.

| Component | State | Operations | Talks to | Hard behaviours | What makes it correct |
|---|---|---|---|---|---|
| Human validation (`services/hitl_manager.py`, `routers/validation.py`, `channels/telegram_bot.py`) | `_pending`, one object and event per request, table `hitl_requests` | `request_validation`, `resolve`, `persist_*`, the routes, the Telegram keyboard | tool gateway, notification channels, constraint memory | several people answer at once, the timeout races an answer, cancellation, best-effort database, restart | one verdict, no run without an approval, nothing left pending |
| Missions (`services/mission_service.py`, `mission_heartbeat.py`, `mission_assurance.py`, `mission_questions.py`, `agent/missions/chat_loop.py`, `routers/missions.py`, `routers/autonomy.py`) | tables `missions`, `mission_assurance`, `autonomy_action_receipts`; the set `_in_flight` | start, pause, abort, answer, restart, tick, the heartbeat, a passage, receipts and their resolution | tool gateway, validation, desktop link, users | read-check-write of the status, beat against manual tick, a stop while a call runs, restart in the middle of a call | one passage at a time, a write call at most once, completion only when settled, no mission forgotten |
| Desktop link (`services/desktop_registry.py`, `routers/desktop.py`, `desktop/ws.go`) | `_connections`, `_pending` and `_results` of each connection, the daemon's back-off | register, unregister, `ensure_connected`, `send_command`, `deliver_result`, dialling | tools, missions | resets, late end of old handlers, retry on a new link, answers out of order | the fresh link stays, answers go to their call, no leak, every call ends |
| Tool gateway and the gates it consults (`services/tool_gateway.py`, `idempotency_store.py`, `hitl_preferences.py`, `task_approvals.py`, `tool_acl.py`) | remembered results, preferences, approvals of the task | the chain of gates of a tool call | everything that calls a tool | look-up, execution and storage are separate awaits; failures come as text | what is remembered took place |
| Long tools (`services/long_running_tools.py`) | `_JOBS` | hand-off at the soft deadline, end of a job, delivery | gateway, chat | identical calls, a stopped turn, a restart while a job runs | each job is delivered, its success journalled |
| Compensation (`services/compensation_registry.py`, `journal_service.py`) | `reversible_actions` | record, undo, expire, purge | gateway, Google | two undo at once, a failure announced in a text | only what took place can be undone |
| Event automations (`services/event_automations.py`, `routers/autonomy.py`) | the rule with its cursor, `automation_events` with a unique key | poll page by page, queue, dispatch, switch on and off | Gmail, Calendar, document index, missions | a poll that outlives its rule, a window that moves while it is read, failures between pages | nothing skipped, nothing replayed, the daily limit |
| Scheduled tasks (`services/scheduler.py`, `routers/scheduler.py`) | `scheduled_tasks`, jobs of APScheduler | fire, execute, catch up, report, pause, run now, delete | chat, missions | the process is down at the hour, a one-shot, two executions at once | no occurrence lost in silence or fired twice, a one-shot ends |
| Browser extension link (`services/browser_extension_registry.py`, `routers/browser_extension.py`, `service-worker.js`) | `_connections` and their futures; one socket variable of the worker | connect, handshake, register, evict, command, close, reconnect | tools | close events of old sockets, eviction, end of the worker | the last connection stays, every command ends, the link comes back |
| Provider fallback (`services/fallback_manager.py`) | chain, index and time of activation for each conversation | activate the next, return to the primary, evict | models | none between steps: the index moves within one step of the loop | every provider tried once, the primary comes back |
| Structured missions (`agent/missions/nodes.py`, `services/mission_budget.py`) | checkpoints, budget | nodes, circuit breaker | missions | resume after a restart | the budget is never exceeded by a whole step |
| Learned skills (`services/learning/`) | skills and their versions | propose, canary, activate, retire | agent loop | promotion against withdrawal | nothing unproven is active |
| Agent loop (`agent/graph.py`, `nodes.py`, `tool_node.py`) | state of a turn | iterate, call tools, summarise | models, gateway | iteration cap, recovery of malformed calls | a turn ends |
| Chat (`routers/chat.py`, `services/ws_registry.py`, `run_gate.py`; `chat/page.tsx`, `lib/websocket.ts`) | `isLoading` and the socket of each page; `client_gone`, `stop_event` and the watcher of each handler; the registry of sockets, the semaphore of the user | type, stop, read, run, watch, save, deliver, reconnect, time out | agent loop, validation, push notifications | a page that leaves or comes back on another socket during a run, a stop that crosses the end, the watcher that drops what it reads, slots | a run is broken by a stop only, a message typed after the end is not dropped, every turn is settled |

Interactions. A tool call of a mission passes through the gateway, which may ask for
a human validation and waits for it; a mission's write call is bracketed by a receipt
(`reserve`, then `finish`). A mission that lacks an integration is paused until
`desktop_registry.is_connected` (or another probe) says that it is back. The heartbeat,
the HTTP routes and the WebSocket handlers are tasks of one event loop: they share
memory between two awaits, and the database between two statements. The scheduler's interval jobs
run the heartbeat and the tick of the event automations; a scheduled task and an event end in a turn
or in a new mission. A long tool leaves the gateway with a promise, and its result comes back through
a callback that journals it and resumes the conversation.

## 2. Modules

| Module | Contents |
|---|---|
| `HitlVerdict` | abstract: a request is asked once, settled at most once, and run only after an approval |
| `HitlManager` | `hitl_manager.py` with its callers; its `Implements` is the refinement of `HitlVerdict` |
| `MCHitl` | users, callers and owners of the instances |
| `HitlProofs` | theorems about `HitlManager` |
| `MissionRun` | one mission: row, passages, receipts, user, restarts |
| `MCMission` | symmetry of passages and requests |
| `MissionProofs` | theorems about `MissionRun` |
| `DesktopLink` | backend and daemon ends of the link of one user |
| `DesktopProofs` | theorems about `DesktopLink` |
| `ToolCall` | the end of a tool call: remembered results, hand-off, journal, undo |
| `ToolProofs` | theorems about `ToolCall` |
| `EventFeed` | one event automation: polls, queue, dispatch, the switch of the rule |
| `EventProofs` | theorems about `EventFeed` |
| `TaskSchedule` | one scheduled task: jobs, executions, boots, catch-up, user |
| `ScheduleProofs` | theorems about `TaskSchedule` |
| `ExtensionLink` | worker and backend ends of the link with the browser of one user |
| `ExtensionProofs` | theorems about `ExtensionLink` |
| `ChatTurn` | pages, sockets and handlers of the chat of one user |
| `ChatProofs` | theorems about `ChatTurn` |

The grain of every module is the same: **an action is the code between two awaits** (or,
for the Go daemon, between two blocking calls), with every change that code makes.
Definitions that are not reached from `Next` or from a property and whose comment
describes a mistake (`TimeoutNever`, `RecheckSkipped`, `AnyoneMayAnswer`, `MatchAnybody`,
`NoticeFirst`, ...) are mutants: put in the place of the definition that follows, they
break one property. They show that each property can fail.

### 2.1 Human validation: `HitlManager`

| Variable | Code |
|---|---|
| `pending`, `object` | keys of `_pending`; the `_PendingAction` objects, which callers keep after the entry is gone |
| `row` | status and reason of the `hitl_requests` row |
| `waiter`, `toRecord`, `outcome` | where `request_validation` stands, the arguments of its last `persist_decision`, what it returned |
| `call` | where the answer of each caller stands; `held` says that it found the object |
| `notified`, `rules`, `ran` | requests somebody saw, bans in the constraint memory, what the gateway went on to execute |

`Request`, `PersistRequest`, `Notify`, `StartWait`, `Wake`/`Timeout`/`Cancel`, `RecordVerdict`,
`Return` and `Act` follow the waiting coroutine. `Click`, `ClickBan` and `Press` are the web
route, the ban route and the Telegram keyboard; `ReadOwner`, `BanReadOwner`, `StoreRule`,
`Settle`, `Recheck` and `Apply` are their awaits. A timeout may fire after the event was set as
long as the waiter has not run, which is what `asyncio.wait_for` does. `Fault` is a database call
that raises: everywhere in this module the code logs it and goes on. Cancellation is modelled
for requests awaited under an enclosing `wait_for` (`delegate_tool.py`, 240 s), the real source of it.

### 2.2 Missions: `MissionRun`

| Variable | Code |
|---|---|
| `row`, `provider` | status, `started_at`, `next_tick_at`, `waiting_for`, retries; `provider_retries` |
| `inFlight`, `listed` | the entry of `_in_flight`; the row as the heartbeat read it |
| `pass[p]` | a task that carries a passage: of the beat or of a manual tick |
| `tx[a]` | the ORM session of a change of status between its SELECT and its commit |
| `receipts`, `sent`, `retried` | the row of a write call of a run, and two ghosts that count hand-overs to the tool and retries allowed |
| `req[r]`, `late` | a request of the user; a ghost: calls handed over since the mission was last alive |

All changes of status have one shape, `Begin`, `ReadStatus`, `WriteStatus`: a session selects the
row, tests the status in Python, assigns attributes and commits an UPDATE of the attributes
*whose value changed*, by primary key. `Sources`, `Assigned` and `Flushed` say which statuses
each change accepts, what it assigns and what reaches the database. `BeatResume`, `BeatList` and
`Dispatch` are the three parts of a heartbeat; `OpenTick`, `TickBudget` and `TakeTick` a manual
tick; `Budget` to `Release` the passage; `Permission`, `Asked`, `Reserve`, `Claim`, `Invoke`, `Finish`
and `Interrupted` one tool call; `Verify` the evaluation that follows; `AskMove`, `AskRestart` and
`AskResolve` with their commits the user.

### 2.3 Desktop link: `DesktopLink`

| Variable | Code |
|---|---|
| `current`, `pending`, `answers` | `_connections[user]`, and `_pending` and `_results` of each connection |
| `wire`, `handler`, `rank` | the TCP connection, its WebSocket handler, and the order of the calls of `register` |
| `daemon` | the loop of `ConnectAndRun`: link, delay before the next dial, next delay |
| `call`, `cmd` | where `send_command` stands, and what became of each of its two commands |

A reset (`Cut`) kills the wire; the daemon (`LoseSession`) and the handler (`HandlerEnds`) notice it
each at its own time, so that a handler may register or unregister after its successor.
Commands run in goroutines of the daemon, so that they are executed and answered in any order, also
after the link is lost. `Dial`/`DialFails` follow the back-off.

### 2.4 Tool calls: `ToolCall`

| Variable | Code |
|---|---|
| `kind`, `surface` | what the manifest declares of the tool (idempotent, or with a compensation); `ctx.interactive` |
| `pc`, `tool` | where `execute_tool_call` is with a call, and the invocation it started |
| `listed`, `due`, `told` | `_JOBS` under the key of the fingerprint; coroutines spawned by `_on_job_done`; jobs delivered |
| `memory` | the row of `idempotency_records` for the fingerprint |
| `row`, `old` | the row of `reversible_actions` for a call, and whether its window is over |
| `undo`, `undone` | a request to undo between its sessions; a ghost: how often the compensation ran |

All calls are the *same* call (same tool, arguments and conversation), which is when they meet:
they share a fingerprint. `Starts`, `Looks`, `Invokes`, `Returns`, `Remembers` and `Journals` follow the
gateway; `HandsOff`, `JobEnds`, `JournalsJob` and `Delivers` a long tool; `UndoReads`, `Reverts` and `UndoMarks`
the three parts of `undo`. A tool ends well (`ok`), with a text that says it failed (`said`: `dit_un_echec`)
or by an exception (`raised`). A stopped turn (`Cut`) cancels a direct `ainvoke`, but not the task
behind `asyncio.wait`.

### 2.5 Event automations: `EventFeed`

| Variable | Code |
|---|---|
| `rule` | the row of `automation_rules`: `enabled`, `cursor_json`, with the number and time of its activation (ghosts) |
| `at`, `promised` | when an item (mail, event, document) came, and under which activation |
| `event` | the row of `automation_events` with the unique key of the item: status, order, whether it counts today |
| `lock` | SQLite's write lock, when a transaction holds it over several steps |
| `poll[w]` | a tick: the cursor it began with, what it found, the cursor it will store |
| `request` | a use of the switch between its SELECT and its commit |

A cursor is abstracted to what decides which items are read again: the bounds of the window, the
items of the pages already read, and the items a synchronisation token stands for. `Found` is what the
source answers for it: Gmail between two seconds, without a promise for the second of the lower bound;
Calendar since a watermark, then by token; documents since a watermark, dated a little before they
are listed. Items the filters reject change nothing and are left out.

### 2.6 Scheduled tasks: `TaskSchedule`

| Variable | Code |
|---|---|
| `row` | the row of `scheduled_tasks` |
| `up`, `job`, `catchup`, `marking` | the process; `task_<id>` and `catchup_<id>` in APScheduler; the spawned `_marquer` |
| `run[v]` | the call of `_execute_task` started by the job, by the catch-up or by "run now" |
| `mission` | whether a mission of the task is counted as living by `_lancer_la_mission` |
| `fate` | a ghost: what became of each occurrence |

The clock counts units of the misfire grace. `NextFire` is APScheduler's next date, `Missed` is
`compute_catchup_run`, with its exclusive lower bound and its age; a `DateTrigger` ignores both, which is why a
one-shot is treated apart. `Registers` is what a boot decides for the task: its job, a catch-up, or a report
that an occurrence is too old.

### 2.7 Browser extension: `ExtensionLink`

| Variable | Code |
|---|---|
| `ws`, `connecting`, `suspended`, `timer`, `dials`, `opening` | the variables of the service worker, and its handlers that await |
| `ext`, `down`, `hello`, `cmd`, `reply` | the sockets as the worker sees them, how they were closed, frames under way |
| `srv`, `current`, `lock`, `attempts` | the handler of each socket, `_connections[user]`, `_lock`, the connections of this minute |
| `pending`, `call`, `fut` | the futures of each connection, `_send_and_wait`, the future of a call |

The worker has *one* variable for its socket, and each socket it ever created runs the same
`onopen` and `onclose` on it; `Closes` of an old socket therefore resets what belongs to the new one. `Drops` is
`ws.close(); ws = null`, whose close event comes later. `fatal` stands for the close codes on which the worker
suspends itself. `Guards` is what the test of `readyState` in `connect` sees: a socket that is closing is none. A socket both ends have forgotten is used again, so that loops of reconnection are loops of the model.

### 2.8 Chat: `ChatTurn`

| Variable | Code |
|---|---|
| `sock`, `loading` | the socket of a page and its `isLoading` |
| `awaiting` | a ghost: what was typed on this socket and the page still waits for |
| `wire`, `inbox`, `outbox` | the state of each socket, and the frames under way in each direction |
| `h` | a handler: where it stands, the message it serves, `client_gone`, `stop_event`, whether the watcher reads, whether there is a text, whether a human is asked |
| `slots`, `queue` | the `asyncio.Semaphore` of the user, first come first served |
| `msg` | what became of each message; `stop` and `broken` are ghosts: a stop was clicked while it was under way, its run was left before the end |

`Types`, `ClicksStop`, `Receives` and `WatchdogFires` are the page; `Connects` and `SeesClose` the socket class.
`Reads` begins a turn of the handler's loop, which is a stop to acknowledge (`AcksStop`), a refusal of the budget
(`Refuses`) or a message (`Takes`); `Acquires` starts the run and its watcher; `Hears` and `SeesGone` are what the watcher
reads; `Raises` is an exception outside the `try` of a run: at the reading, between "start" and the run, or at the end of the turn; `RunEnds` and `Breaks` leave through the same `finally`; `EndsEmpty` and `Delivers` end the turn. `Taken` is `_ws_send`:
nothing is sent to a client known to be gone, and a send on a cut socket may fail or be swallowed. A validation during a run is
announced to every registered socket (`Fans`). What a socket brings the page without changing `isLoading` is left out.

## 3. What the runs check

| Run | Module, bounds | Question and answer |
|---|---|---|
| `hitl_races` | `HitlManager`; 1 request, the owner's session, another user's session, a Telegram button, 3 choices, 1 fault, 1 restart, cancellable; 0.9 M states | Callers, waiter and gateway act as the record says (`RecordIsTheTruth`): one caller wins (`OneCallerWins`), his decision is on record (`AcceptedIsTheVerdict`), nothing runs that is not recorded as approved (`RunsOnlyWhatIsRecorded`), a request returns what its row says or a refusal by timeout (`ReturnedIsRecorded`), a finished wait leaves nothing pending (`EndedIsSettled`), a ban through the router is remembered (`RouterBanIsRemembered`). With faults too, no entitled person's approval means no run (`OnlyHumansApprove`), a verdict is final (`VerdictIsFinal`), requests end (`RequestsEnd`), and `HitlManager` implements `HitlVerdict` until a database call fails (`Implements`) |
| `mission_races` | `MissionRun`; 2 tasks, 1 run, 2 calls, 2 requests, one after the other, among start, tick, pause, abort, answer, retry, done and restart, 1 restart of the process; 6.9 M states | a write call is sent once plus once for each retry (`AtMostOnce`); a completed mission has nothing unsettled since its run started (`CompletedIsSettled`), as long as requests do not overlap; `OnePassage`; at most one call is handed over after the stop (`AtMostOneLateCall`) |
| `mission_restarts` | violation; 2 runs, 2 requests that overlap, start and restart, 4 of them | a mission completed over an uncertain call (`CompletedIsSettled`): section 6 |
| `mission_live` | 1 task, 1 restart, 1 provider retry | passages end (`PassagesEnd`), due missions are served (`DueIsServed`), the wait for an integration ends (`LinkWaitEnds`) |
| `mission_mute` | violation; 1 run, 3 requests | a lost update of the status leaves a mission nobody wakes: see section 6 |
| `desktop_calls` | `DesktopLink`; 2 calls, 2 links, every dial may fail; 0.6 M states | `FreshStays`, `NothingLeft`, `OwnAnswer`, `OncePerLink`, `AnswerIsReturned`, `CallsEnd` |
| `tool_calls` | `ToolCall`; 2 equal calls from chat or task, 2 undos, 1 stopped turn, 1 stop of the process; 0.2 M states | only what took place is remembered or can be undone (`OnlyEffectsAreKept`), outcomes have their consequences (`OutcomesFollow`): every success of a reversible tool reaches the journal or is lost in the attempt (section 7), every job is delivered |
| `event_feeds` | `EventFeed`; 2 items, 3 kinds of source, pages of 1, limit 1, 3 seconds, 2 uses of the switch, 1 fault | the cursor never passes an item (`NothingIsSkipped`), cancelled and dispatched are final and a stale poll queues nothing (`NothingIsRevived`), what came is served (`PromiseIsKept`) |
| `task_schedules` | `TaskSchedule`; 2 occurrences or a one-shot, turn or mission, 4 hours, 2 stops, 2 requests; 0.5 M states | no occurrence is lost in silence (`NothingIsSilentlyLost`), no recurring one is fired twice (`NotRedone`), a one-shot the user leaves alone comes to a verdict (executed, left to a living mission, or refused by the budget) and its row goes or is paused (`OneShotDisappears`) |
| `oneshot_refused` | violation; a one-shot, a budget that may refuse, no stop | a one-shot gone without having run (`OneShotRuns`): section 6 |
| `extension_links` | `ExtensionLink`; 2 sockets, 1 call, 2 connections a minute, 1 fault, 1 button; 0.6 M states | the registry tells the truth (`RegistryIsSound`): the last connection stays, and a connection that is unregistered frees who waits on it; calls end (`CallsEnd`), without the buttons the link comes back (`LinkComesBack`) |
| `chat_turns` | `ChatTurn`; 1 page, 3 sockets, 1 slot, 2 messages, 1 stop, 1 validation, 2 faults; 0.4 M states | a run is left before its end only when the user clicked stop on that socket (`OnlyStopBreaks`), a message typed after the end of the turn is not dropped by the watcher (`TypedAfterEndIsTaken`), every message taken is run when its turn comes, and its answer stored and sent, or announced by a push, or the user told that there is none; a message ends without (`failed`, `untold`) only in a step in which something raised or a slow client gave up the run (`EveryTurnIsSettled`); no slot is given back twice (`TypeOK`) |

Why the bounds are enough. Requests of the manager share no entry or row with each other, so
one request with three kinds of callers shows every race of one request; that several requests do not disturb each other
is in the theorems, `ManagerImplements` among them, which hold for any number. The signed link of a push notification
(`Links`) is left empty in the run: a link does what the session of an owner does. One fault and one restart may come
at any step; the invariants under `Reliable` speak of behaviours without faults, the
others hold with them. A mission has one row: two tasks are what the race for `_in_flight`
needs, one write call with a retry is what a receipt can be asked to count, and two requests are a start and whatever
disturbs what it started. Only `mission_restarts` begins a second run, which takes three requests; an instance with one task, two runs, three requests
that do not overlap and one restart of the process (4.1 M states, too large to be part of `mission_races`) satisfies `CompletedIsSettled`
too, and does not if the receipts of earlier runs are counted. Two links are one replacement, which is all a call
can survive (it has two attempts); `ReconnectMax` is lowered, since delays decide nothing there. Two equal
calls are what the anti-duplicate and the remembered result relate; two undos may run on one row at
once. Two items and pages of one item give a first page, a last page and an item that comes
between them; the switch used twice is off and on again during a poll; three seconds give a window with a
second on each edge. The occurrences at 1 and 4 with a maximal age of 1 are a missed one that is caught up, a missed one that is too
old, and one after the stop; two stops are a stop during the catch-up of another. Two sockets are one that is replaced and its
successor, and sockets are reused. The chat has one page, since two make the graph of `EveryTurnIsSettled` too large to
search: the other actors are the handlers that reloads and cuts leave behind, which run, wait for the one slot and are told of
validations beside the handler of the page, as those of another tab would be; a stop belongs to one socket. The theorems of section 5 remove these bounds for
the properties they are about. `CHECK_DEADLOCK FALSE` stands in the configurations since the
modelled world may stop: the user asks nothing more, calls are over, bounds are spent.

### Fairness

- `HitlManager`: weak fairness of each waiter and caller. The event loop runs every ready coroutine
  and the timer of `wait_for` fires. Nobody is obliged to answer: `Click` and `Press` have none.
- `MissionRun`, `FairSpec`: weak fairness of the beat (an interval job of the scheduler,
  `max_instances=1`, `coalesce`), of the passage of time, of each change of status and of each step
  of a passage. A tool call or a model call ends in the code by its own timeout. The user and
  crashes have none.
- `DesktopLink`, `FairSpec`: weak fairness of what `send_command` looks at. The daemon, the network and
  the handlers have none: a call must end with whatever daemon.
- `ToolCall`, `FairSpec`: weak fairness of the gateway's steps, of `_on_job_done` and of what it spawns. The tool has none.
- `EventFeed`, `FairSpec`: a tick every minute (an interval job) whose awaits return or are cut by `wait_for`; the clock; a
  request that began. Arrivals, faults and the user have none.
- `TaskSchedule`, `FairSpec`: the process is started again (its service restarts it), time passes, APScheduler
  fires what is due, the awaits of an execution return. The user and stops have none.
- `ExtensionLink`, `FairSpec`: both event loops, close events, timers and deadlines. The user, Chrome (`Wakes`, `Sleeps`),
  the page that executes a command and the network have none; `LinkComesBack` speaks only of an awake worker.
- `ChatTurn`, `FairSpec`: weak fairness of each handler. A run ends by `recursion_limit` and the deadlines of the models, a
  validation by its timeout, and the semaphore serves in order. The pages, the watcher, the network and the user have none.

## 4. Assumptions about the environment

One backend process (`services/singleton_guard.py` holds a `flock`), one asyncio loop. SQLite in WAL
mode through aiosqlite: a single UPDATE is atomic; a SELECT takes no lock, so that read-check-write
is two steps. `PersistRequest`, `Settle` and the like are one action since the statement and its
commit have no decision of the program between them. A restart loses memory and every task and
keeps the tables. Timers are not measured: whatever may expire may do so at any time the code looks at it.

## 5. What is proved

For any constants that satisfy the named assumptions of the modules (disjoint sets of callers,
owners that are users, bounds that are numbers). The bounds on faults, restarts, requests, links
and calls are arbitrary naturals, which are never used in the arguments.

**`HitlProofs`.** `TypeCorrect`. `HumanApproval`: what ran was approved by somebody entitled,
even with faults. `OnlyHumansApprove` is not inductive; `HumanInv` carries the approval along its path,
object, then the outcome returned to the gateway, then `ran`: each of them holds an approval only if an accepted
caller who was entitled sent it, and every caller that reached the database passed the
ownership check. `FinalVerdict`, the action property that a settled row does not change: the row's writes are
conditional on `Open`, except that of `PersistRequest`, which needs `FreshRows`: a request whose coroutine has
not written its row yet has none. `RecordRules`: `RecordIsTheTruth` speaks of a database that answers
(`Reliable`), and so do its invariants, `RecordParts` and `ReturnInv`. The row is what the rest echoes: an approval in the
object, in the returned verdict or in what ran repeats a settled row (`EchoKnown`), a caller past its UPDATE holds the row's decision
and is the only one of its request (`CallKnown`, `WinnerAlone`), a "ban" that is being answered has its rule
(`BanKnown`), and a waiter that is over has settled its row (`EndedIsSettled`); it needs that rows only move forward.
`ReturnInv` is what `ReturnedIsRecorded` needs: an object whose event is set holds the verdict of the row, of an approval or a refusal alike,
and what a waiter is about to return, or returned, is that verdict or the refusal by timeout. The theorem leaves the latter open beside
any row, since the code does (section 6).
`ManagerImplements`: as long as no database call has failed, every step of the manager asks, settles or runs as `HitlVerdict`
allows, or leaves both of its variables alone. The condition is needed: a failing UPDATE makes `resolve` go on in memory, and the
gateway then runs what no row approves (`OnlyHumansApprove` still holds).

**`MissionProofs`.** `TypeCorrect`. `PassageIsAlone`: `OnePassage` is inductive with the type
invariant, since the entry is taken where it is tested. `OneLateCall`: `LateInv` adds
that a call past its status test was let in with `late = 0`; the single holder of the entry
(`OnePassage`) makes the next late call the first. `CallsAtMostOnce`: `AtMostOnce` is not inductive;
`LedgerInv` relates the status of each receipt to the number of hand-overs (`LedgerOK`) and states what
the passage between `Claim` and `Invoke` relies on (`CallerOK`), which survives a "retry" given
while the call runs; it needs `OnePassage`, or two passages would claim the same receipt. `CompletionIsClean`, for missions whose user does not ask for a restart
(`"restart" \notin Asks`; `mission_races` checks it with restarts that do not overlap other requests, which is not proved): `SettledInv` says that a mission that began has a run, that no run is handed out after a receipt
was written (`BornNow`), so that verification counts every receipt, that a passage at work is on a mission that is not
completed (`AtWork`), and that a change to "completed" is made by a passage in `release` with nothing in doubt
(`ChangeKnown`): `OnePassage` leaves nobody to write a receipt between its read and its commit. A hypothesis on restarts is
needed: with two asked for at once the run `mission_restarts` finds a counterexample.

**`DesktopProofs`.** `TypeCorrect`. `NothingOutlivesItsCall`: `NothingLeft` is inductive.
`AnswersAreOwn` and `RetriedElsewhere` rest on `AnswerInv`, which says for each call what it may know of its
two commands (`AttemptsOf`) and that kept answers were heard. `AnswersAreReturned` is an
action property. `LastRegisteredStays` rests on `FreshInv`: no rank exceeds the number of registrations,
and a handler that has not registered has none.

**`ToolProofs`.** `TypeCorrect`. `OnlyWhatHappenedIsKept`: `EffectInv` adds to the property what each place that leads to the
memory, the journal or a compensation knows of the tool (`PlacesOK`, `UndosOK`), and that a tool that ended stays as it ended.

**`ExtensionProofs`.** `TypeCorrect`. `RegistryTellsTheTruth`: `LinkInv` adds that who evicts holds the lock and the place is
empty meanwhile (`LockOK`), and that a call that waits is in the dictionary of its socket (`PendingOK`), which is
what unregistering looks at.

**`ChatProofs`.** `TypeCorrect` includes `SlotsOK`: the slots that are free and those held are always all of the cap.
`DisappearanceIsNoStop` and `WhatIsTypedIsTaken` share `ChatInv`, one record of facts per socket: what is unread was sent here,
once and in the order it was typed (`InboxOK`, `StopsLate`), a handler that was told to stop serves a message whose stop was
clicked (`StopHeard`), a message typed with nothing awaited is read before any other (`CleanFirst`, `CleanIdle`), the page awaits all
that is unread or served (`AwaitOK`), and a frame that ends a wait is about a settled message (`FramesAreTrue`).

**`EventProofs`.** `TypeCorrect`. `SettledStaysSettled`, an action property for any number of workers: what a reactivation cancelled
stays so and a started mission is not started again; the commit of a dispatch holds the lock since its look.
`NothingComesBack` and `CursorNeverPasses` assume `OneWorker`: one process runs the ticks, as `singleton_guard.py` sees to
unless multi-process is allowed. `GenInv`: a cursor carries the number of the activation that made it, so that a poll that
reads an unchanged cursor belongs to the present activation. `SkipInv` says of every cursor, stored or held by a poll, how old
it is (`Shape`), and of the stored one and of one about to be, that all it has passed is in the queue (`Covers`, `Queuing`, `Stores`).
The hypothesis is needed for the first: with two workers TLC finds that the write of a cursor by one worker, after a reactivation,
restores the cursor of before, and the other's old poll then queues what the reactivation had skipped. For
`NothingIsSkipped` no counterexample with two workers is known (954 885 states); the proof does not cover it.

**`ScheduleProofs`.** `TypeCorrect`, with `JobOK`: the job of a recurring task stands at an occurrence. `NothingIsRedone`, an action
property: `CronInv` says that what was fired is behind the job (`FateOK`, `RunOK`) and that a boot catches up only what
nobody fired (`CatchOK`). `LossesShow`: `LossInv` adds that the loop is in time, that the job is the next occurrence to come, and that each one
that is due is known somewhere: covered, behind the last catch-up, under a mark or before the job (`Known`).

TLC also checks every inductive invariant above on the instances of the runs (EXTEND the proof module and name it as an INVARIANT). All safety invariants and action properties
of the passing runs, and the refinement, are stated by theorems, with the hypotheses named here.

**Model-checked only.** Liveness (`RequestsEnd`, `PassagesEnd`, `DueIsServed`, `LinkWaitEnds`, `CallsEnd`,
`OutcomesFollow`, `PromiseIsKept`, `OneShotDisappears`, `LinkComesBack`, `EveryTurnIsSettled`), which is beyond the prover.

## 6. Where the code and its text disagree

With a run that shows it:

- **Running and mute** (`mission_mute`). A passage started by a manual tick: `mark_running` over a concurrent pause leaves `running` without
  a date; nothing ever selects the mission again, which the heartbeat's own comment calls worse than a failure.
- **Completed over a doubtful call** (`mission_restarts`). `restart` looks for unresolved receipts in one session and resets the row in another,
  and does not wait for the passage in flight. Two restarts pass that check. The first resets the row under a passage that then
  reserves a call, which ends uncertain; the user starts the second run, whose verification ignores that receipt; the second restart resets
  the row between the read and the commit of "completed" ("Les écritures incertaines bloquent la conclusion",
  `docs/livraison-autonomie-2026-09-10.md:6`). After the first reset alone the mission is a draft over a doubtful call ("Une mission ne peut pas
  être relancée à zéro tant qu'une écriture reste incertaine", `docs/guide-autonomie-ely.md:67`).
- **A one-shot that never ran** (`oneshot_refused`). Refused by the daily budget, it is deleted (`scheduler.py:131-136` against `:420`, "runs
  exactly once", and `:127`, "la tâche reste programmée").

Seen while modelling, and kept in the models as the code has them, without a run of their own:

*Validation.* A timeout between the commit of a decision and the event makes the waiter return a refusal although the
caller was told "accepted" and the row says allow ("deux chemins, un seul verdict", `hitl_manager.py:275`); the action does not run.
`ReturnedIsRecorded` allows this refusal, and nothing else that differs from the row. The rule of a Telegram ban is stored by the waiter's gateway only, so that after a restart or a timeout
there is none. A validation cancelled before its wait leaves its entry in `_pending`, one cancelled during it
is recorded as a refusal nobody gave.

*Missions.* `_transition` is called atomic but tests the status it read: aborted can become failed and
conversely. The passage in flight that a `restart` does not wait for may complete the new run.

*Desktop.* The daemon's delay doubles at each lost session for its whole life; the fourth reset takes longer than the
15 s the backend waits for "about 2 s" (`desktop_registry.py:17`). A handler of a cut link that registers after its
successor and then ends leaves the live link unregistered until the next reset (`FreshStays` speaks of the last *registered*
link). A call that fails as "not connected" may have been executed.

*Extension.* `manualReconnect` drops its socket and dials before the close event of the old one
comes; `onclose` then forgets the *new* socket and dials again, the newcomer evicts it, and its close event makes the worker forget the
newcomer, and so on until the rate limit closes a socket with 4029. The worker is then suspended while the registry holds a connection the
worker no longer knows. The comment of the guard of `connect` describes this loop as what it prevents (`service-worker.js:57-61`);
`LinkComesBack` exempts the runs where a button was used. A result goes out on the socket the worker holds when the command is done: if that is not the one the command
came on, it is ignored and the executed command is reported as a timeout. The connection evicted by `register`
is found by nobody, so that its futures wait for their deadline. A cancelled call leaves its future in the dictionary of its connection.

*Tool calls.* Two identical calls within the soft deadline do not see each other (the anti-duplicate looks at the jobs handed
off) nor the result the other is about to remember; both run. Two jobs share one key, and the end of one pops the entry of
the other. `MAX_BACKGROUND_SECONDS` (`long_running_tools.py:57-59`, "on livre un échec honnête") is used nowhere, and a restart
loses the promises made. A stopped turn leaves the tool running, and its result is neither delivered nor journalled. The success of a job is
journalled but not remembered. Two concurrent undos run the compensation twice (`journal_service.py:14`, "annuler deux fois ne
ré-exécute jamais").

*Events.* `tick` reads the rule again, then writes the cursor, in two statements: a rule switched off and on in between gets
the cursor of before, and what came while it was off is queued after all ("Reactivating does not replay events deliberately
paused", `routers/autonomy.py:91`). The properties that hold do so since that cursor is older, and reads more, never less.

*Scheduled tasks.* A stop during a run leaves the status `running` for ever, which `_marquer`
then refuses to replace, and the catch-up repeats what the run had done. A one-shot whose process restarts within the grace of its hour runs
from its job and from its catch-up, side by side ("Fires exactly once on that date", `scheduler.py:734`). `_lancer_la_mission` does not count a mission that waits for its user as living, so that two may live
side by side. Occurrences of the time a user had paused the task are caught up at the next boot; a one-shot that is
resumed after its date stays until the next boot.

*Chat.* The `finally` of a run always sets `stop_event` (`chat.py:707`), so that the tests after it cannot tell a stopped
run: every answer gets " …" (`:865`, "If interrupted but partial content exists"), and an empty one is told as "stopped" (`:727`). The page frees
its input during a validation "so the user can type follow-ups" (`page.tsx:289`), and between the click and "start"; the
watcher drops what is typed then (`TypedAfterEndIsTaken` speaks of messages typed when none is awaited). The acknowledgement of
a stop that came too late may free the input during the next turn. `hitl_resolved` goes to every tab and locks the idle ones until
their watchdog. A client that leaves does not stop a run ("le tour CONTINUE"), but one that is slow does: ten seconds without
taking a token end the handler and the answer is lost (`:605-613`). When `store_interaction` raises (`:905`) the stored answer is neither
sent nor announced. A malformed frame during a run makes the watcher take the client for gone. The handler of a socket that
has left drops the vault and the caches of the conversation (`:1057`) although another socket may run in it ("MUST be the same
instance throughout a conversation", `conversation_filters.py:13-17`), and the history leaves out the last row (`:426`) although that may be
the answer of such a handler.

## 7. Not modelled, and why

- **Missions**: deletion, `MAX_MISSIONS_PER_BEAT`, the semaphore and the round-robin between users, edits of the
  acceptance checks, notifications, the token budget's arithmetic and what the model writes.
  `mission_live` has one mission, so that `DueIsServed` says nothing about many missions that compete.
- **Validation**: transports of notifications and the audit log; preferences that allow without asking.
- **Desktop link**: the commands themselves, the rate limit of handshakes, heartbeats of the socket; a restart of the
  backend (it loses all calls, and a link is then a first link). The daemon defers a reconnection until its ping
  goroutine has ended and writes to one socket from several goroutines: both are left out.
- **Tool gateway**: its gates before the validation (access lists, policy, budget, preferences, approvals of a task) are tests without state
  shared with the rest; the texts it returns, privacy filters and overflow to files.
- **Tool calls**: the turn of the agent that finishes a request after a job; the compensations themselves; `list_reversible` and statistics, which
  change nothing. `lost` is one mark for a write to the journal that failed, a result with nothing to keep and a feature that is
  switched off: the code logs the first and goes on as with the others, and `OutcomesFollow` asks no more of them.
- **Events**: a page token of Gmail that stays bad (every poll fails, and the cursor stays); creation, preview and edition of a rule, the matching of filters, the telemetry envelope.
- **Scheduled tasks**: edition of a schedule (`update_task` with an invalid expression keeps the old job), the commit after the job is
  added in `create_task`, the await between the commit of a pause or of the deletion of a one-shot and the removal of its job (one step in `Pauses` and
  `Finishes`), the system jobs, delivery of results.
- **Extension**: pairing and its tokens, the suspension for a missing configuration (`service-worker.js:76-81`), a constructor that throws
  (`:92-97`), the reset of `connecting` by `onerror` (`:158-162`), which `onclose` follows, what a command does in a page, the keep-alive alarm other than as `Wakes`.
- **Provider fallback**: activation and return happen within one step of the event loop, and most of the file classifies the
  error texts of providers. One sequential fact: a chain of one provider that is exhausted keeps an index without a date
  (`fallback_manager.py:341`) and is never set back to its primary (`:530`).
- **Structured missions, learned skills, agent loop**: thousands of lines of prompts and of parsing what a model wrote; the status,
  receipts and passages of missions are in `MissionRun`.
- **Chat**: attachments, profiles, history and the vault of a conversation, the commands that run no agent, malformed frames, the voice
  socket (`routers/voice.py`), usage records, the card of a validation that a tab already shows.
- **Hazards without a property** are in `PROJECT.json`, each with the reason.
- Vault, MCP clients, memory and retrieval, privacy filters, models and their routing, web interface,
  sandbox, voice and benches: cryptography, HTTP, text or presentation, without an order of steps to decide.

The repository has some 120 000 lines, of which the larger part is prompts, texts, HTTP, formatting, cryptography and user interfaces. The
modules cover its state machines that several actors share, which is a small share of the lines.

## 8. Plan

1. `HitlManager`, `MissionRun`, `DesktopLink` with their runs and first theorems: **done**.
2. `ToolCall`, `EventFeed`, `TaskSchedule`, `ExtensionLink`, `ChatTurn` with their runs: **done**.
3. Theorems of those modules, `RecordIsTheTruth`, `CompletedIsSettled` and the refinement `Implements`: **done**.
4. To prove next: `NothingIsSkipped` for any number of workers, or a counterexample; what a restart keeps of `CompletedIsSettled` (the
   receipts of the present run); abstract specifications of the other components (a write call that is sent once and once more
   for each retry; a link that answers each call once) and that the models implement them; the steps that the liveness properties
   rest on, as action properties.

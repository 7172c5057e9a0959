# Verification of the AI desktop assistant

This directory holds TLA+ specifications of the assistant's backend (Go, `src/internal`), the TLC
configurations that model-check them, and proofs checked by TLAPS. Paths below are relative to
`src/internal/` unless they start with `docs/` or `scripts/`; line numbers are those of the commit
beside this project. `PROJECT.json` lists every run, the source lines each definition translates, the
hazards, the findings and the theorems.

    tlc -workers 2 -config MCPermissionGuard.cfg MCPermissionGuard     # any run: its cfg, its module
    tlapm EngineProofs.tla                                             # any module named *Proofs

## 1. The system

The assistant answers chat requests: an engine asks a language model for tool calls, passes each by a
permission guard, executes it and asks again. Requests arrive over HTTP (or from the desktop shell),
each in a goroutine of its own; nothing serialises two requests of one session but the locks of the
components they share.

| Component | State it keeps | Operations | Behaviours that are hard |
|---|---|---|---|
| Permission guard (`domain/agent/service/security`) | remembered signatures, pending confirmations, one resume slot per session, denial streak | `Check`, `CreatePending`, `Approve`, `Reject`, `TakeReadyResume` | `Check` takes its lock three times; one slot for many confirmations; users answer late, out of order, or never |
| Agent engine (`domain/agent/service/engine`) | local to each run: round, retries, calls left, totals, repeats, verdict | `RunWithOptions` | six ways to end; calls that ask in the middle of a reply; "continue" racing with "continue" |
| Chat application service (`application`) | two channels and two goroutines for each stream | `Chat`, `ChatStream`, `ContinueAfterPermission` | publishing never waits; the reader leaves before the stream ends |
| HTTP trigger, desktop shell (`trigger`) | none of their own | streaming loop, approve, reject, MCP handlers | the client that is slow or gone |
| Task plan and breakdown (`domain/agent/model/valobj`, `domain/agent/service/task`) | a cached `*TaskPlan` per session, shared by its runs without a lock | `Breakdown`, `StartNext`, `AdvanceWithTool` | word-by-word races; a plan outliving its request |
| Orchestrator and model router (`domain/agent/service/orchestrator`) | table of models | `Orchestrate`, `Select` | asks for the plan before the engine does |
| MCP manager, service, marketplace, tool registry (`infrastructure/mcp/manager.go`, `domain/mcp/service`, `domain/agent/service/tool_registry.go`) | configurations, clients, routes, tool definitions, the registry's MCP tools, stored servers | `Start`, `AddOrUpdate`, `Remove`, `ReloadAll`, `refreshTools`, `CallTool`, `syncTools`, install, delete, reload | starting and listing happen outside the lock; a callback without a lock; restart |
| MCP stdio and SSE clients (`infrastructure/mcp`) | pending calls, pipe or event stream, tool cache | `Initialize`, `call`, reader, `Close` | late answers, full pipes, a server that dies, a context that is cancelled |
| Device hub (`trigger/ws`) | devices, consoles and their connections, under a lock whose writers go first | register, replace, remove, broadcast, send | a replaced connection's reader; two writers of one connection; a console that does not read |
| Rate limiter (`infrastructure/redis`) | counters with an expiry in redis, or in the process | `AllowRate` | re-armed expiry, failures of redis, counters that are lost, chats that do not ask |
| Context reducers (`domain/agent/service/context/reducer`) | none: pure functions | `Reduce` | equal messages, boundaries |
| Chat context, prompts and milestones (`domain/agent/service/context`, `.../prompt`) | milestones, task and last tool results of a session, corrections of a user | note, save, provide | runs share every list; caches; restarts |
| Intent recognition (`.../intent`) | cache of results, last intent of each session | `Recognize` | three locks one after the other; a full cache; time |
| Repositories, export and import (`infrastructure/repository`, `application/export_service.go`) | sessions, messages, notes, servers | save, load, export, import | last writer wins; errors nobody looks at; ids that collide; restarts |
| Skills (`domain/skill`) | directories on the disk, map of skills in memory | install, uninstall, reload, `Match`, `FilterTools` | files and map change without a lock in common; steps that fail; a source that is the target |
| Desktop services and tools, LLM gateways, bootstrap, web console | the machine, an external service, wiring, a client | | external, or input and output |

How they interact: a trigger calls the application service; `ChatStream` starts a goroutine that calls
the engine with a publisher; the engine calls the orchestrator and breakdown for a plan, the guard for
every tool call, the registry for the tool, and an MCP tool calls the manager, which calls a client.
The approve and reject handlers call the guard beside all that. The MCP handlers change the manager,
whose callback rewrites the registry under the engine's feet.

What makes each component correct:

- guard: a session waits only on a confirmation that can be answered, resumes only what was approved
  and once, skips a question only after an approval of its own, and the breaker stops it in time;
- engine: work is bounded, nothing runs unasked without a rule or an approval, a question ends the
  run, and every request ends that no tool and no database keeps waiting;
- stream: events arrive in order, are lost only to a full channel, nobody waits for a reader that is
  gone;
- plan: never claims more than was done; serial runs share it and advance it in order;
- manager: a mapped client is a working one, clients do not leak, routes and registry follow what is
  online, a call reaches the server whose tool it is, stored servers survive a restart;
- MCP clients: no answer is lost that a request still wants, and every request ends;
- hub: its lists follow the goroutines, and an arrival is not kept waiting by broadcasts;
- limiter: of the chats that ask it no more are let through than the limit says, and a refusal has
  been earned;
- intents: a text is taken for what it or its own session said, whatever the cache holds;
- reducer: the budget is kept, and what fits of the end of the history is there;
- prompt: what it shows is of this run, this session and this user, and is up to date;
- sessions and messages: what a session counts is stored, but for saves that failed, results stand
  behind their calls, and an answer is in the history of later runs;
- skills: the map ends as the disk is, an install answers with what it installed, and the choice of a
  skill does not hang on the order of a Go map.

## 2. The modules

| Module | Models | State and actions against the code |
|---|---|---|
| `PermissionLifecycle` | the promise of the guard for one confirmation: issued, answered once, resumed at most once, or lost to a newer one of its session | abstract |
| `PermissionGuard` | `permission_guard.go` | `sessionAllow`, `pending`, `awaiting`, `denyStreak` are the fields of the struct. `Check` is `BeginCheck` (streak under the read lock), `DecideCheck` (signatures, then rules), `IncDeny` (streak under the write lock), `ReturnCheck`; every other method is one action, since it holds the lock throughout. `issued`, `approved`, `resumed` are history |
| `AgentEngine` | `agent_engine.go`, `RunWithOptions` | extends the guard. `run[r]` is the locals of one goroutine and `at` its place in the loop: resume (292-341), round (344-), model and retries, the calls of a reply (436-522), end of a round (524-). `executed` and `replied` are history |
| `LossyStream` | the promise of a stream: order, at most once, lost only while a backlog waits | abstract |
| `ChatStream` | `agent_app.go` 182-235, the readers of `server.go` 222-257 and `trigger/desktop/app.go` 52-78 | two channels, the forwarder's hand, the reader; `published` and `seen` are history |
| `TaskPlan` | `task_plan.go`, `breakdown.go`, and the engine's and orchestrator's use of them | `cache` is the locked map; each read of a subtask (`Look`) and each write of a word of its status (`Write`, a Go string is a pointer and a length) is an action, as nothing locks the plan |
| `MCPManager` | `manager.go`, `mcp_service.go`, `bootstrap/app.go` 132-172, `mcp_tool.go` | the manager's maps, the clients as objects, the registry, stored servers; each critical section of the manager's lock is one action and each call of a client made outside of it another; `Die` and `Boot` restart the process |
| `McpRpc` | `stdio_client.go`, `sse_client.go`, and the end of an installation (`manager.go` 83-92, `mcp_service.go` 186-195) | `at` is the place of each request's goroutine in `call`, `reader` that of `readLoop` or `readSSE`; `pending`, `arrived`, `mutex` are the map of channels, the channels that hold an answer, and the lock; pipes and stream are sequences of ids. `answered` is history |
| `Conversation` | `agent_app.go`, `export_service.go`, the saves of `agent_engine.go`, the session and message repositories | `rows` and `messages` are the tables or maps; `run[r]` holds the copy of the session a run loaded (`count`) and the history it read; each load or save is one action, and `kept` says whether it worked, which the run does not look at. `lost`, `answered`, `overlapped`, `clipped` are history |
| `Skills` | `skill_service.go` | `disk` is the root directory, `skills` the map; what is installed comes from outside or from a directory of the root; each step of a request on a file, its scan, directory by directory, and its putting of the map are actions, as the lock is held for the last only |
| `DeviceHub` | `trigger/ws/hub.go` | `devices`, `clients` are the maps, `conn[c]` the goroutine of a connection: where it is, what it writes to, whether it holds the lock for reading; the panic of writes that collide and what is deferred |
| `Clock` | the time that windows and caches are measured with | |
| `RateLimiter` | `infrastructure/redis/client.go` | `counter` is the counter in redis or the bucket of the process; `AllowRate` (which `Chat` asks), its failure, `ChatStream` (which asks nobody) and the loss of the counters are the actions, `asked` is history |
| `IntentRecognition` | `domain/agent/service/intent` | `cache`, `context` are the maps; `rec[r]` is the place of a run in `Recognize`: cache, rules, model, context, cache; `said`, `answers` are history |
| `ContextReducer` | `context/reducer` | `TrimHistory` as an operator over a history and a budget; the history grows by `Remember` |
| `PromptContext` | `prompt/milestone_tracker.go`, `context` and its providers, the repositories of milestones and memories | `milestones`, `tasks`, `toolResults`, `memories` are the shared lists; what a run still has to do, note by note and provider by provider, is the set `todo` of steps, each with its place in the code |
| `Preparation` | what happens before the first round: the four modules above, in one specification | `part` says which of them moves |
| `MC*` | small instances | constants only |
| `EngineProofs` | theorems about `PermissionGuard` and `AgentEngine` | |
| `ConnectionProofs` | theorems about `ChatStream` and `DeviceHub` | |
| `PlanProofs`, `ManagerProofs`, `RpcProofs`, `ConversationProofs`, `SkillsProofs` | theorems about `TaskPlan`, `MCPManager`, `McpRpc`, `Conversation`, `Skills` | |
| `PreparationProofs` | theorems about the limiter, the intents, the prompts and the trimmed history of `Preparation` | |

Composition: `AgentEngine` extends `PermissionGuard`, so each of its steps is the guard's action and
the loop's in one, and `EngineUsesGuard` states that the engine never reaches the guard otherwise.
`PermissionGuard` implements `PermissionLifecycle`, and `ChatStream` implements `LossyStream`, by
INSTANCE ... WITH. `Preparation` extends `RateLimiter`, `IntentRecognition`, `ContextReducer` and
`PromptContext`. `TaskPlan`, `ChatStream`, `MCPManager`, `McpRpc`, `Conversation` and `Skills` share no variable with the engine: what
they need of it (a tool was executed, an event is published, a tool is called) is one nondeterministic
action each, so they hold whatever the
engine does.

Operators named `X_Something` beside an `X` are faults: the definition as a plausible bug would write
it. No action uses them; `PROJECT.json` says which property detects each.

### Modelling decisions

- The guard's rules (deny patterns, confirm patterns, read-only tools) are three sets of calls; a
  signature is any function of a call. `Sig` need not be injective.
- An id of a confirmation is the clock in nanoseconds (`permission_guard.go:187`); the model draws an
  unused id, so two confirmations of one instant are not modelled. `ClearAwaiting`, `MarkDone`,
  `MarkRunning` and `BreakdownService.Clear` have no caller and no action.
- A run executes a tool in one step with no result: success and failure lead the engine to the same
  place. A panic of a tool is not modelled.
- `AgentEntity.MaxSteps` always is at least one in a built system, so it replaces the intent's number
  of rounds; the total of calls does depend on the intent (`ChatToolCalls`). A "continue" is given
  the full total.
- A goroutine of a run handles one request in the model; a session gets further requests from
  further goroutines.
- The plan's `Result` texts and `CurrentIndex` after its first use are not read by the engine; only
  the test `CurrentIndex == 0` is kept.
- In `McpRpc` a message is the id of its request. Notifications, which nobody waits for, and the
  decoding of results are left out. The server is arbitrary: it may answer late, twice or never, or
  die; over pipes it works on one request at a time and waits while its own pipe is full, as
  `cmd/mcp-demo/main.go` does.
- In `MCPManager` a client is open until the manager closes it; that its server dies meanwhile shows as calls
  and listings that fail. The registry starts with the builtin tools. An MCP tool may have the name of
  one (a server names its tools freely): it takes its place, and when it goes the name is gone. Stored servers survive a
  restart, as they do with MySQL; with the in-memory repository nothing does, and `Boot` after `Die`
  is then the first `Boot`. The name of a clashing tool is the pair of server and tool; the code
  joins them to one string (`manager.go:239`), where two pairs may give the same name, which is left out.
- Each call of the repository of servers may fail by itself, with MySQL: the listing, the finding and the
  saving at the start (`bootstrap/app.go:139,154,155`, three choices of `Boot`), the deletion, whose error is
  ignored (`mcp_service.go:219`), and the save of an install and the listing of a reload, which end the
  request (`Refuse`). A call that fails is taken to have changed nothing. `strays` are the servers where
  repository and manager may disagree for that.
- In `Conversation` a message is named by its run, what it is and its round, which is its id too. Over
  MySQL each single load or save may fail, whatever the ones before and after do: the connection is lost, the
  text is refused, or the time of the chat is over; the in-memory repositories never fail. The engine
  ignores each of these errors (`agent_engine.go:202,252,305,333,404,430,516,553`), so the run goes on and
  counts what it said. A save that fails is taken to have stored nothing. MySQL orders messages by a
  time in milliseconds and leaves ties to itself; the model keeps the order of saving. A reply asks for
  one tool: several at once are in `AgentEngine`.
- In `Skills` a package is the name of its directory, the id its frontmatter gives and the tools it
  names. A file that was created and not yet written is a state of its own, as a scan may meet it:
  it parses, to a skill without tools. An install may name a directory of the root as its source: its
  file is opened before the target's is emptied and read after it, and what is read is what it held then or
  anything written since. The source that is the root itself or contains it, and files beside `SKILL.md`,
  are left out.
- In `RateLimiter` the limit is switched on and there is a client of redis, used or not, as `Build` makes
  one; without either nothing is counted. The counters are lost for all users at once; that redis, gone for
  a time, comes back with old counters after the process has counted is left out.
- In `DeviceHub` a panic of the websocket library is possible whenever two goroutines write to one
  connection, and never forced: its check is a flag that nothing guards.
- In `IntentRecognition` a text has the keywords of one intent, refers to the last intent, or neither.
  Which half of a full cache goes is arbitrary, as it is the order of a Go map.
- In `PromptContext` saves may fail, as mysql refuses some, and reads do not: a failed read of the
  corrections shows none, which is no promise worth stating. The task that is shown is the provider's;
  where there is a plan its text takes that place in the prompt. The plan's own note is the optional
  first step of a run.
- The parts of `Preparation` share the clock at most, and none reads what another writes, so
  that their steps commute. A behaviour therefore moves one part, chosen at the start among `Parts`, and
  the states of all four are checked without their product.
- A run that continues after an approval has a text of its own ("继续执行已批准操作", `agent_engine.go:193`),
  which corrects nothing; so `BeginRun` notes no correction for it.

## 3. The runs

| Run | Instance | What it shows |
|---|---|---|
| `guard` | 2 sessions, 3 confirmations, 2 goroutines, limit 2 | the guard's maps and history agree in every interleaving of checks, answers and continues; the breaker's overshoot is bounded; the guard implements `PermissionLifecycle` |
| `engine` | 1 session, 2 requests, 2 rounds, replies of 1 and 3 calls, 1 retry | bounds of work, repeats cut, a question ends the run, the engine uses the guard as the guard expects, and every request ends unless a tool or the database keeps it |
| `engine_race` | 2 sessions, 3 requests, 1 round | racing "continue" requests resume an approved call once and as approved; nothing runs unasked; the invariant the proofs use |
| `engine_early` (violation) | 1 session, 2 requests | the call that needs a confirmation is executed in the round that asks: the `break` at `agent_engine.go:472` leaves the `switch`, not the loop |
| `chat_stream` | channels of 2, tail of 2, 5 events before it | what is left of a round fits the channel behind the reader, after the engine's end the forwarder ends and a willing reader is served; implements `LossyStream`: order, at most once, lost only to a full channel |
| `plan` | 2 runs, 3 tools each, plans of 2 and 3 subtasks | however writes interleave, no more subtasks are finished than tools executed; runs in sequence share the plan and keep its order |
| `mcp` | 2 servers sharing a tool name, of which one is a builtin's, 2 requests, 1 restart, 3 clients | mapped clients are open; leaks need overlapping starts of one server; after requests in sequence the registry, the routes and the online clients agree; calls reach the server they were made for; stored servers come back, but for those whose listing, finding or deletion failed; a builtin goes only for a tool of its name |
| `rpc` | 3 requests, pipes and stream of 1 message, each transport | an answer on its way to a request that wants it is not lost; every request ends, by an answer, a timeout or an error, unless one waits to write to a pipe that stays full, and closing the client ends that too |
| `conversation` | 2 ids of sessions, 2 requests, 1 round, histories and exports of 3, 1 message lost, 1 export or 1 restart, each repository | a session counts what is stored or failed to be, runs in sequence count all, a result stands behind its call unless that one was lost, answers come back in later histories |
| `skills` | 2 directories, 2 packages (one with the other's id), 3 requests | when all requests are over the map is what the disk holds, unless an older scan came in last or one failed; an install nobody met answers truly, and emptied when it is its own target; the choice does not hang on the order of the map |
| `hub` | 1 device id, 4 connections | the lists follow the goroutines, at every panic; an arrival is registered at last |
| `preparation` | 1 user, limit 2, window 2; 2 sessions and 3 runs of intents; histories of 6, budgets 5 and 8; 3 sessions of 2 users and 2 runs of prompts | the limit of `Chat` is kept and refusals are earned, whatever is streamed; intents are their session's; a trimmed history keeps its end; prompts are current |

### Bounds, and why they are enough

- Guard: a confirmation can be superseded by a later one and that by a third, across two sessions;
  two goroutines are the fewest that read the streak before either raises it, and with a limit of 2
  the breaker opens and is overshot.
- Engine: with two rounds a repeated reply is seen, with a threshold of 1 it is cut; a cap of 2 calls
  truncates the reply of 3, a total of 2 ends the second round early, and a chat's total of 1 ends
  the first. The race instance trades rounds for a second session and a third request, which
  "continue against continue" and "continue against a new question" need. Liveness is checked without
  symmetry, which would not be sound for it.
- Stream: both channels fill at capacity 2, so events are dropped and the forwarder waits. The bounds
  of the code (64 and 64, about 15 events in a round's tail) enter only through `TailFits`.
- Plan: two runs and plans of 2 and 3 subtasks show each search found and not found; three tools
  finish a plan and go beyond it.
- MCP: two requests are the fewest that race; three clients are enough for a start of the process and
  two more, be they two that race for one server or a reload of both servers. Requests that need a fourth
  fail to start it. One restart meets every set of stored servers the two requests can leave.
- RPC: the first request belongs to the installation, the other two run at the same time. With one
  message in each pipe, answers to the first that keep the reader busy, the second in the pipe and the
  third writing, the circle of writer, server and reader closes.
- Conversation: two ids of sessions let a request meet its session, a new one and an imported one; two
  runs are the fewest that overwrite each other's count; a history of 3 pushes out the messages of
  a run of four, and an export of 3 cuts off its beginning. A session loses one message at most
  (`MaxLost`), any of them: that is enough for a count above the rows and for a result alone. A
  behaviour has an export, or a restart and a session that loses messages (`OneAtATime`); that nothing goes
  wrong when all happen, and more is lost, is covered by the theorems.
- Skills: two requests race, the third reloads between them; two directories are the fewest of which
  one holds the other's id. When a directory of the root is installed, one other request is there at
  most (`InsideInPairs`); the theorems have no such bound.
- Hub: with three connections of a device and a console, or two and two, one replaces another while a
  third writes; four connections with one id collide more often than with two.
- Preparation: six requests over six ticks cross two windows, and a window that redis keeps
  prolonging; three runs of two sessions fill a cache of two; six messages of two lengths and
  two roles reach each reducer, equal messages included; two runs of two users interleave every note.
  The runs and sessions that may be exchanged are those which are alike in each part (`Symmetry`): the
  third run is in the intents only, the third session has another user.
- All runs bound histories by the finite sets of runs and ids, or by the constants named as bounds in
  the modules (`MaxTools`, `MaxProgress`, `ClientIds`, `MaxBoots`, `MaxRestarts`, `MaxExports`, `MaxLost`, `MaxAsked`, `MaxTime`,
  `MaxIdle`, `MaxMessages`, `MaxCalls`). Deadlock is not checked:
  each instance has finitely many requests and stops when they are served.

### Fairness

- `FairEngineSpec`: weak fairness of each goroutine's `OwnStep`, the steps it takes without waiting for
  anybody: the Go scheduler runs every runnable goroutine. Nothing is assumed where a run waits
  (`Outside`): a tool may never return, as the write to the pipe of an MCP server has neither context nor
  deadline (`stdio_client.go:221`) and a command runs on `context.Background()` and waits for whoever
  holds its output open (`command_service.go:75,106`); and notes go to the database on
  `context.Background()` too (`milestone_tracker.go:61`). So `EveryRunEnds` says that a run changes
  finitely often and then stands still at its end or at one of these places. Nothing is assumed of requests
  and of the user's answers. That a run may take `Cancel` is allowed, never forced.
- `StreamSpec`: weak fairness of the forwarder alone. The engine may wait for a tool for ever, so that
  its end is a premise of `ForwarderIsNotLeaked` and `ReaderIsServed`. Nothing is assumed of the reader:
  it writes to a network. `ReaderIsServed` makes its fairness a premise.
- `RpcSpec`: weak fairness of each request's goroutine, timers included, and of the reader. Nothing
  is assumed of the server, of the manager and of new requests. Weak fairness cannot make a writer get
  past a full pipe, nor a mutex held by it: `Blocked` names exactly that state, and it is the one way
  `call` outlives its timeout, which starts after the write.
- `HubSpec`: weak fairness of what each goroutine of a connection does by itself. A write ends when its
  peer takes it or its connection breaks; the code sets no deadline, so of a peer that does neither the
  hub waits, and the assumption is the network's to keep. Nothing is assumed of what clients send
  and of their leaving. That a writer waiting for the lock gets it is the promise of `sync.RWMutex`:
  new readers wait behind it, and so weak fairness suffices.
- `TaskPlan`, `MCPManager`, `Conversation`, `Skills` and `Preparation` state safety only, without fairness.

### What the runs say about races left in the code

`RegistryInStep`, `StoredServersAreKept`, `SerialRunsKeepOrder` and `SerialRunsShareThePlan` are
promises for operations that follow one another, and their premises say so (`overlap`, `fault`). With
overlapping operations they do not hold: a slower refresh restores older routes, a removed server
comes back when its start ends, two runs skip a subtask, and the map of `syncTools` may be written
by two goroutines, which ends a Go process. What does hold under every interleaving is stated without
such premises: `MappedClientsAreOpen`, `ClientsLeakByRacesOnly`, `DoneIsEarned`. Also seen while
modelling: a server of the yaml file which the user disabled is online again after a restart, as
`bootstrap/app.go:139` reads the enabled ones only; `ReloadAll` leaves configurations of servers that
were offline and are no longer stored; a server that fails to restart leaves its tools listed.

### Divergences seen while modelling

One is a run: `engine_early`. The others are stated where the model meets them, as premises of
properties or as what an action does:

- An approval not yet continued is lost when the session asks again or another of its confirmations is
  approved (`permission_guard.go:195`); `scripts/eval_agent_smoke.md:53` has approving and continuing
  execute the original tool. `PermissionLifecycle` has it as the fate "lost".
- The denial streak counts denials with allowed calls between them (`permission_guard.go:299`); the code
  (`:47`, `:134`) and `docs/interview-guide.md:39` call them consecutive.
- Any tool completes the running subtask (`task_plan.go:73`), whatever `:66` and
  `docs/architecture.md:71` say of expected tools.
- The event stream of an SSE server is opened with the context of `Initialize` (`sse_client.go:73`),
  which `UpsertServer` cancels when it returns (`mcp_service.go:187`): a server just installed cannot
  answer, while `docs/features.md:56` has it usable in the next round.
- Milestones are loaded from the repository when the tracker has none (`milestone_tracker.go:68`, and
  the comment at `:76`), but a run notes its own text before it asks, so that nothing is ever loaded.
- `ChatStream`, which serves `/chat/stream` and the desktop, never asks the limiter (`agent_app.go:182`),
  which only `Chat` does (`:134`): streamed chats have no limit, while `docs/features.md:20,108` and
  `docs/architecture.md:63` have one of chats per user and minute. `LimitIsKept` therefore speaks of
  `Chat`, beside any number of streams.
- Installing a skill from its own directory empties it: the file is truncated before it is copied
  (`skill_service.go:385`); the comment at `:118` has sources come from outside.
- A server whose deletion the repository refuses is gone from the manager and still stored and enabled
  (`mcp_service.go:219`); a row that cannot be read at the start is overwritten by the yaml file's
  server (`bootstrap/app.go:154`), while `docs/features.md:57` has installed servers restored.
- A run counts messages whose save failed (`agent_engine.go:252,404`), and stores the result of a call that
  it failed to store (`:430,516`).
- The rate is counted in a fixed window (`client.go:78`), which redis prolongs with each request
  (`:88`), so that who keeps asking stays out; `docs/architecture.md:63` says a sliding window.
- With MySQL an import leaves the new session without messages: they keep their ids, and saving an id
  that exists changes the old row (`export_service.go:124`).
- An MCP tool with the name of a builtin takes its place for good (`mcp_service.go:48`).
- Of a connection that replaced another one of its device the entry goes when the other's reader ends
  (`hub.go:76`); a connection whose greeting panics stays listed (`hub.go:61`).
- Of two equal messages the reducer keeps the first, which may then fall out of the window
  (`hybrid_reducer.go:70`).
- A call that is denied leaves no message of its tool behind the call (`agent_engine.go:454`).

## 4. The proofs

All are for any sets of sessions, calls, runs, servers and so on, and any limits, under the named
assumptions of the modules: `GuardAssumption` (sets and functions have the types the code gives them,
the limit is positive, `None` is no value), `FiniteAssumption` (a process has finitely many goroutines
and confirmations; only the counting argument needs it), `EngineAssumption` (limits are positive,
replies are not empty), `StreamAssumption` and `TailFits` (capacities are positive, and the tail of a
round, about 15 events, fits into a channel of 64), `PlanAssumption` (a plan has at least two
subtasks, as both ways to make one see to; a process has finitely many runs), `RpcAssumption` (ids
are numbers, and a pipe holds something), `ManagerAssumption`, `HubAssumption`,
`RecognitionAssumption` (types, and `None` is no value, nor a kind of request), `ConversationAssumption`
(types, and that requests have a round and histories room), `LimiterAssumption` (the limit is
positive), `SkillsAssumption` (types, a directory is listed once and has a name, as directories have,
what a directory may hold can be told apart, and the threshold is positive: with a threshold of zero
and scores of zero the walk chooses none), `PromptAssumption` (types, limits are positive, and a prompt
shows no more milestones than the tracker keeps: 8 and 100), `ReducerAssumption` (a text has a number
of tokens, budgets are positive). There is one inductive invariant for each question; what makes it
inductive is said here. Leaves that need more than the provers' default time name their prover and its
time, `SMTT(30)` or `ZenonT(40)`.

- **Guard** (`EngineProofs`). `GuardInv` is the inductive invariant: types, "pending is
  exactly issued and unanswered", "only issued ones are approved, only approved ones resumed", the slot
  property and the signatures property. The last two are not inductive without the ledger facts: that
  an approval cannot hit an answered confirmation is what keeps the slot's state and the history equal.
  From it `SlotIsAnswerable`, `RememberedWasApproved`, and `GuardImplementsLifecycle`: each operation
  maps to one step of a confirmation's life, each step of `Check` to none.
- **Breaker** (`EngineProofs`). `OvershootInv` counts a goroutine between reading and raising the
  streak as a denial that may still come. A denial moves a unit from that count to the streak; a check
  that begins adds one only while the streak is below the limit; a rejection adds one on both sides.
- **Engine** (`EngineProofs`). `EngineInv` adds to the guard's invariant: what a goroutine holds of
  `Check` agrees with its place in the loop (`CheckAgrees`), what it holds at each place
  (`RunsAreConsistent`), and that counters bound histories, counting calls begun and not yet executed
  (`CountersCover`). One lemma per action says what the action does to the locals; each conjunct has
  one step lemma. From it `WorkBounded`, `NothingUnasked`, `AskingStops`, and, since each step of the
  engine is a step of the guard or leaves it alone, `EngineImplementsGuard`, through which every
  theorem about the guard holds inside the engine (`EngineKeepsLifecycle`).
- **Histories** (`EngineProofs`). That an approved call is resumed once (`ResumptionsUnique`) relates
  the histories of all runs. `HandsHold` bridges the two steps of a resumption: who took an approved
  call holds it alone, and no history has it yet; `ResumptionsAsApproved` and `ResumptionsDiffer` then
  stay true when it is executed. That repeats are cut (`RepeatsCut`) needs `RepeatsCounted`: the
  counter of a run is at least the number of repeats at the end of its history.
- **Stream** (`ConnectionProofs`). `InFlightIsOrdered` says of the events in the two channels and in the
  forwarder's hand that they are in order, and that behind each of them so many others were published
  as there are behind it. With `PublishedFits` (after a Completed event no more than a tail is
  published) what is left behind fits (`LeftoversAlwaysFit`), and with `HandsAgree` each step is one of
  `LossyStream` or none (`StreamImplementsLossy`).
- **Calls** (`RpcProofs`). That no answer is lost (`AnswersArrive`) needs to know where an answer can
  be: what the pipes, the server and the stream hold was sent before (`OnlySentIsAnswered`), so that a
  request which has not sent yet has no answer to lose; a request that waits is registered
  (`Registered`), and what the reader took is with it until delivered (`ReaderHolds`).
- **Plan** (`PlanProofs`). `DoneIsEarned` compares a plan with the tools executed with it, and is not
  inductive: a subtask may look finished while its status is half written, by several runs at once.
  `Earned` therefore counts the finished subtasks that nobody is writing, and each run that has
  executed a tool and not yet written its last word. A tool adds a run and its pay; the last word
  trades the run for one subtask; every other step counts no more than before, words of "running"
  included, which never finish anything. As many subtasks at most are being written as runs write
  (`FinishedIsCovered`), and the property follows. For runs in sequence, `SerialInv` says that as long
  as no two have overlapped one is at work at most, and its plan is the cached one
  (`SerialRunsShare`). That such runs keep the order of the subtasks (`SerialOrderKept`) holds between
  operations only; inside one the plan passes through statuses that are half a word. `OrderInv`
  therefore has `Rests` (as many subtasks done as tools executed, the next one running, the others
  pending) where no run is at work, and for the run at work `Stands`: at each of its places, which
  subtasks it has looked at, which one it is writing, and how much of the word is written.
- **Manager** (`ManagerProofs`). `ManagerInv` says what the map promises (`MapsServe`) also of the
  client in a goroutine's hands between starting and storing it, which nobody else knows
  (`HandsServe`), and that who starts a server nobody else is starting finds its place empty
  (`StartsAlone`): why only races leak. From it `MappedAreOpen` and `LeaksAreRaces`.
- **Requests in sequence** (`ManagerProofs`), whichever calls of the repository fail. Without an overlap one goroutine is at work at most, names
  of published tools are distinct, since shared ones are prefixed by their server, and the servers'
  tools in the registry are among those published (`SerialInv`): so a call finds the route of its own
  server (`CallsReach`). `KeepInv` adds what is still to be done: a server that is stored and enabled is
  configured so or waits to be started, one that is online is wanted or waits to be removed, and where a
  failing repository broke this the server is among the strays (`StoredAreKept`). `StepInv` says how far a refresh has come, and that it is still to come as long as
  there are servers to start (`RegistryIsInStep`); that a builtin goes only for a tool of its name
  (`ShadowInv`) holds however requests race.
- **Hub** (`ConnectionProofs`). `HubInv` adds to `ListedAreServed` and
  `ConnectedAreListed` that only a holder of the lock has consoles left to write to (`LeftAreHeld`: why
  nobody leaves during a broadcast), and that of connections of one device which are registered at
  the same time each has met the other (`SameIdHasMet`: why the end of one takes the entry of no stranger).
  Eight of the steps move one goroutine among the places of a registered connection and share one
  lemma (`HubMoves`).
- **Intents** (`PreparationProofs`), for any rules, guesses, sessions and runs, inside `Preparation`.
  `IntentsAreTheirs` speaks of answers; `RecognitionInv` extends "right" to all that answers are made of:
  the contexts, the cache, and what a run holds at each stage, where a run that asks the model has a
  text without keywords. That the cache keeps its size needs that dropping half of it makes room
  (`CacheFits`), which is a fact about cardinalities.
- **Limit** (`PreparationProofs`). Streams are in the history but in no counter, and leave all that is said of
  the others alone (`StreamsAreFree`); where counters are lost all begins anew. `LimitIsKept` is about every window of time, past ones too, while a
  counter is about now. For redis the invariant finds where the counter's life began: a request since
  which no pause was as long as a window (`LivesSince`), and since which as many were let through as the
  counter says, up to the limit. No window reaches into two lives, as each request prolongs the life
  by a whole window. For the process a bucket is a window fixed at its first request: what was let
  through inside is the counter or the limit, whichever is less (`Inside`), and a window of time that
  reaches into a later bucket leaves out the first request of the earlier one (`Earlier`), whence
  twice the limit less one.
- **Prompts** (`PreparationProofs`). A run collects its prompt step by step, with the steps of
  other runs between them. `PromptInv` says that a run does its steps in order (`InOrder`), what the
  providers still to be asked will find (`StartIsThere`: the note of the run's start is the last it
  wrote, or others have pushed it out; `TaskIsThere`: the task is its own or that of a run it met), and
  that what was shown stays right. `HaveMet` carries the interleaving: two runs of a session that both
  have the task still to show have met, so who overwrites a task is never a stranger. That nothing
  is loaded from the repository after the run's own note is what keeps old milestones from
  displacing it.
- **History** (`PreparationProofs`). What `TrimHistory` keeps is a matter of sums over sets of messages,
  which the model takes as folds. The prover cannot instantiate an induction theorem, so induction is
  stated over sets: what holds of a finite set if it holds of all its smaller subsets (`SetsUpTo`, from the
  well-foundedness of inclusion) and of a number if of the one before (`UpTo`). With these the sums a
  fold is defined by exist (`SumsExist`), do not depend on the order of adding (`SumByAny`) and grow
  with the set (`SumsGrow`). Hence the messages that fit form a window at the end (`SlidingFits`), the
  window of fewer messages is no shorter (`WindowsGrow`), and what is missing of it has an equal message
  before (`TrimKeeps`). How the priority reducer orders the messages plays no part, as the final
  window corrects whatever it keeps.
- **Conversation** (`ConversationProofs`), over both repositories. `ConversationInv`: sessions that are
  worked on, stored or exported were generated, and what mysql exported it still stores, which is why an
  import there adds no message. `CountsAreBacked` needs its claim of every copy of a count as well: the
  runs', the export's and the file's (`CountsInv`), as each may become the row; each side of it counts what was lost, so that a save
  that fails moves a message from one sum to the other and disturbs nothing. What an import took from a
  file with the oldest messages cut off (`clipped`) is outside of these claims. `SerialInv` says of a
  session nobody overlapped that one run works on it and its copy is what is stored. `ResultsInv` adds
  that who executes a call has stored or lost it, and `AnswersInv` that a run says nothing after its answer, so
  that the newest messages of a session hold it or hold only later ones.
- **Skills** (`SkillsProofs`). The map that is put last need not be of the newest scan. `SkillsInv` says
  that as long as nobody is between changing the disk and reading it, and nobody failed there since
  (`Quiet`), the newest scan has read what is on the disk: of each id the last of the directories read so
  far, and only directories that lie before those still to be read (`HasRead`). So if it is also the
  one that was put last, the map is the disk's (`ViewIsAlwaysFresh`). For an install that has met nobody
  `Installs` says at each place what it has put on the disk already (`InstallsAnswerTruly`).
- **Choice of a skill** (`SkillsProofs`). The fold over the map is a walk, step by step (`MatchWalks`); a
  step keeps `ChoseBest`, which says of the skills seen so far what the choice is to say of all; and an
  order of the skills passes each (`OrderIsWhole`, a counting argument). So the choice does not hang on
  the order of a Go map (`MatchAlwaysPicksBest`).

Model-checked only: liveness (`EveryRunEnds`, `ForwarderIsNotLeaked`, `ReaderIsServed`, `RequestsEnd`,
`ArrivalsAreServed`), which this prover does not do under fairness. Every safety property of a passing
run is a theorem.

## 5. What is not modelled

- The wording of prompts, events and views, the parsing of the model's replies, the assemblers: they
  make text of state, or a call of text; the model's replies are nondeterministic here.
- Desktop services and tools, LLM gateways, web console: input and output with the machine, an
  external service, and a client; the models let them answer anything or fail.
- Configuration, routes and hints of the orchestrator, DTOs and the catalogue of the marketplace:
  tables.
- The SSE client's `messageURL` and `sessionID`, which goroutines write without the lock, the start of
  a stdio server's process, and notifications.
- Methods without a caller (`ClearSession`, `GetLastStep`, `RecognizeWithLLM`, `Set`, `Get` and `Del` of
  the redis client, deleting and counting of the repositories).
- Two confirmations of one instant, which would share an id (`permission_guard.go:187`).

## 6. Plan

1 to 8 are done.

1. `PermissionLifecycle`, `PermissionGuard`, their proofs, and the breaker.
2. `AgentEngine` composed with the guard, its runs and proofs.
3. `LossyStream`, `ChatStream`.
4. `TaskPlan` and `MCPManager`.
5. `McpRpc`: the calls of the stdio and SSE clients.
6. `Conversation` and `Skills`: sessions, messages, export and import; the disk and its map.
7. `DeviceHub`, and `Preparation` with its four parts.
8. Proofs of every safety property the runs check.
9. The parsing of replies as an operator over small replies, and the start of a stdio server.

Modules that are to be proved about use sets, functions and sequences and no recursive operator.

# wackypub in TLA+

wackypub runs agents out of plain directories: an agent is a folder with its
instructions, its memory (`MEMORY.md`), its session (`session.jsonl`) and its
configuration, and everything that talks to it (a one-shot command, a stdio
server, a TCP server, a remote parent) shares that folder through the file
system. There is no database and no coordinator. What keeps a session whole is
a lock file, an append-only log that is sometimes rewritten, a number on every
line, and the order in which a lot of deferred calls run.

This directory holds TLA+ models of that machinery, TLC runs that check them
and TLAPS proofs about them. Line numbers are those of `src/` at the commit the
models were written for.

    tlc -workers 2 -config SessionLock.cfg MCSessionLock.tla
    tlapm Processes_proofs.tla

## Inventory

### Session lock, registry, cancellation
`pkg/agent/lock.go`, `cancel.go`, `lock_holder.go`, `sdk.go:236-345`, and the
report of `workspace.go:539-712` / `cmd/workspace_locks.go`.

* State: the kernel flock on `session.lock`; the PID written in that file as a
  hint; `heldLocks`, a count per process; `inFlightTurns`, the running turn of
  each agent in a process.
* Operations: `AcquireSessionLockContext` polls every 25 ms and can be
  cancelled; `Release` undoes its steps in a fixed order; `registerInFlightTurn`
  and its cleanup; `CancelTurn` (same process); `CancelAgentTurn` (any process:
  probe the lock, read the PID, recognise it through `/proc`, SIGTERM).
* Interactions: every writer of a session relies on the lock or asks
  `IsSessionLockedByCurrentProcess`, which answers for the process and not for
  the goroutine.
* Hard: death between any two steps, recycled PIDs, a probe that owns the lock
  for an instant, a context that ends while the call waits, owns, or is between.
* Correct when: locked regions exclude one another; the four records of who
  holds the lock agree whenever somebody relies on them; a call that is
  cancelled ends.

### Sequence numbers and session log
`seq.go`, `session_store.go`, `file_session_service.go`.

* State: the lines of `session.jsonl`; whether its last line is terminated;
  `seqAllocBump`, the last number a process handed out; `seqMu`.
* Operations: `AppendSessionContentGetSeq`, `NextSeq`, `CurrentSeq`,
  `WritePersistedTurns` (temporary file and rename), recovery of the highest
  number from the last line or from a scan.
* Interactions: appends come from the handler and from the goroutine of a turn's
  stream, which may outlive its handler; rewrites come from compaction and from
  signature stripping; `NextSeq` polls for the session lock while it holds
  `seqMu`.
* Hard: torn writes, a process with an old bump, a rename under an open
  descriptor, a lock given back while a write is under way.
* Correct when: no acknowledged turn is lost, numbers are unique, grow, and
  survive a rewrite, and the last line always shows the highest one.

### Session subscriptions
`events.go`.

* State of a subscriber: what it last saw of the file (`lastFileInfo`,
  `lastOffset`), pending events, `lastEmittedSeq`, a channel of wakeups in the
  broker of its process.
* Operations: subscribe, snapshot, replay by cursor (all, last n, since, live),
  then poll on a ticker or on a wakeup and read incrementally or in full; or ask
  for what is above a cursor, again and again (`ReadSessionEvents`).
* Hard: the file grows, is torn, or is replaced between any two steps; writers
  of other processes do not notify; wakeups are dropped when the channel is
  full; a compaction removes what a cursor points at.
* Correct when: events come in order, once, without a gap, and eventually.

### Runtime fallback and turn watchdog
`sdk.go:346-648`, `runtime.go`, completion hooks of `hooks.go:700-836`.

* State: failed-until windows per backend (process-wide); per turn the level,
  the goroutine and channel of each level's stream, whether text was said.
* Operations: skip, load, attempt, receive, time out, descend, give up, and one
  deferred hook that classifies how the turn ended.
* Hard: a stream that ignores its context, `select` with several ready cases,
  windows that other turns open under the walk.
* Correct when: one backend speaks, the walk ends, nothing is left running
  untold, and the hook tells the truth.

### Compaction and memory
`compaction.go`, `memory_consolidation.go`, `usage.go`, `context_budget.go`.

* State: `MEMORY.md` with its claims, the log, a chain of backends of its own.
* Operations: decide by token estimates, choose a boundary, reconcile claims,
  summarise with retries over the chain, write memory (a minor pass appends, a
  major one rewrites), rewrite the log, put a notice at the tail. An aside reads
  session and memory without the lock (`sdk.go:1083-1298`).
* Hard: a failure after any of the writes; degenerate summaries; a boundary that
  archives everything; claims that were resolved and are still in a copy; a
  reader between the two files.
* Correct when: what leaves the log is in memory first, a failed compaction
  changes nothing, and no reader misses a turn that was moved.

### Turn loop
`agent_folder.go:860-1387`, `adk_agent.go`.

* State: two continuation budgets, the `UsageTracker` (calls, tokens, flags, the
  run of failures), images that tools deferred, the agent with its prompt.
* Operations: run a model turn, execute tools, continue by itself after a bail,
  for an image or for a hook, stop on budgets, break off after repeated failures.
* Interactions: tools report concurrently; compaction rewrites the session and
  `MEMORY.md` between iterations; end-of-turn hooks may ask for more.
* Hard: three grounds to go on and two budgets, in six branches whose order
  matters; a compaction that archives what the next iteration would answer; an
  agent that is rebuilt half way.
* Correct when: every turn ends within its budgets, goes on only from a session
  it can go on from, keeps what it promised the model, and tells hooks the truth.

### Turn streams and tool events
`sdk.go:649-912`, `sdk.go:1339-1500`, `tool_events.go`, `inprocess_stream.go`.

* State: a queue of tool events with a notification, a channel of warnings, a
  channel of chunks, the stream to the client.
* Hard: three producers, one `select`, and an end that may come first; a client
  that no longer reads; calls of one signature that overlap.
* Correct when: what was recorded before a chunk is delivered before it, an end
  is told as it was, and no goroutine waits for ever.

### Scratchpads
`scratchpad.go`, `tools_scratchpad.go`, and `agent_folder.go:68-200`, `340-447`,
where tools take their input from entries and leave their output in one.

* State: the files of a directory, in their names the slug, the number of lines
  and the creator; their modification times.
* Operations: create (find a free slug, open, write, evict the oldest above the
  cap), read a page, search, diff, list, delete, expand macros. There is no lock.
* Hard: every operation is several file operations, and other processes create
  and evict between them.
* Correct when: eviction takes the oldest and only what is too many, and a
  reader gets what was stored or is told that it is gone.

### Remote dispatch and transports
`routing_server.go`, `dispatch.go`, `remote_manifest.go`,
`grpc_bridge_client.go`, `pkg/stdio`, `cmd/stdio_serve.go`, `cmd/tcp_serve.go`.

* State: a child process per call, its pipes, the stages of closing them.
* Hard: end of input, drain, escalating signals; a child that dies under a call,
  or hangs after it; a context that kills a child that is being waited for.
* Correct when: a caller is told what became of its call, and a child does not
  outlive it.

### Agents that call agents
`a2a.go`, `workspace.go:169-333`, `git.go`, `agent_folder.go:67-447`,
`env_protection.go`.

* State: the call chain and trace in the environment of every command, the
  session locks along it, the commits of each agent's repository.
* Hard: a chain that comes back to an agent that waits for it; values the model,
  a hook or an .env sets; timeouts that kill a whole process group.
* Correct when: the chain is the lineage, no call waits for itself, every call
  ends, and a commit tells which command made the call.

### Prompts, hooks, environment
`cmd/agent.go`, `sdk.go:81-288`, `sdk.go:938-1023`, `hooks.go`, `dotenv.go`,
`session_store.go:60-251`.

* State: hook scripts in directories; variables a message's hooks leave for the
  next generate; the environment of a process, which every agent's .env is
  written into; what a line may hold.
* Operations: add, generate, prompt, repl, add-media and compact, each with the
  chains of hooks it runs under the session lock.
* Hard: scripts that hang, fail, detach children; turns of two agents in one
  process; calls that are refused or cancelled half way; an image that is dropped
  when its line is written.
* Correct when: an answer is true of the session, scripts run in order and
  change what they may, a tool runs in the environment of its own agent, and a
  call ends.

### The rest
Skills, hygiene, images, model adapters, read-only commands: sequential
transformations of text and files. `PROJECT.json` lists each with its status and
the reason.

## Modules

| module | models | role |
| --- | --- | --- |
| `SessionMutex` | what the session lock promises | abstract; also the lock of `SessionLog` |
| `SessionLock` | flock, hint, `heldLocks`, registry, cancellation, processes | implements `SessionMutex` |
| `TurnLog` | what a session promises its readers | abstract |
| `SessionLog` | appends, numbering, rewrites, crashes | implements `TurnLog`, uses `SessionMutex` |
| `SessionLog_proofs` | | proofs |
| `SessionWatch` | `SubscribeSession` and `ReadSessionEvents` against writers of two processes | |
| `SessionWatch_proofs` | | proofs |
| `RuntimeFallback` | the walk over the runtime chain and its streams | |
| `TurnLoop` | one turn at one level: model, tools, limits, continuations | |
| `TurnLoop_proofs` | | proofs |
| `TurnStream` | the two streaming calls: generator, sink, handler, client | |
| `Scratchpad` | the scratchpad directory and everybody who uses it | |
| `StreamAndPad_proofs` | | proofs about `TurnStream` and `Scratchpad` |
| `Bridge` | one call to a child process, and the end of that process | |
| `Processes_proofs` | | proofs about `SessionLock` and `Bridge` |
| `AgentCalls` | agents that call agents: chain, locks, commits, timeouts | takes the lock of `SessionLock` as a flock |
| `AgentCalls_proofs` | | proofs |
| `Compaction` | passes over `MEMORY.md` and the log, claims, an aside | what `SessionLog` takes as a choice |
| `Compaction_proofs` | | proofs |
| `HookChain` | a chain of hook scripts, as operators | used by `Prompts` |
| `Persist` | what of a turn its line holds, as operators | used by `Prompts` |
| `Prompts` | the calls that add to a session, their hooks, tool and environment | |
| `PromptsAndRuntime_proofs` | | proofs about `RuntimeFallback` and `Prompts` |
| `MC...` | constants of each for TLC | |

**SessionLock.** A goroutine runs handlers one after another: `pc` is its place
in `AcquireSessionLockContext`, in the region, or in the deferred calls.
`Flock`/`WouldBlock`/`Tick`/`GiveUp` are the poll loop; `BlankHint` and
`StampHint` are the two file operations a reader can look between; `RegisterTurn`
and `EndTurn` are the generation handlers, `RunPlain` and `EndPlain` the handlers
that lock without registering. A canceller is a goroutine inside
`CancelAgentTurn`; its probe takes the flock like anyone else. `Die` is exit,
crash or SIGKILL; `Spawn` puts a new program, perhaps a foreign one, under the
same PID. The file remembers which incarnation wrote the hint; no action looks
at that, only properties do.

**SessionLog.** The lock is `SessionMutex`, which `SessionLock` is shown to
implement. A worker is a handler with its stream goroutine; `op` holds the local
variables of the operation under way, `pc` its next step. Every access to shared
state is a step: the test of `heldLocks`, the acquisition, `seqMu`, the read of
the tail with the update of the bump (both under `seqMu`), the open with its
healing newline, the write, and for rewrites the truncation and the write of
`MEMORY.md`, the second read of the log and the rename. Turns are numbers; a
line is a turn, its seq and whether it parses. A descriptor remembers the file
it was opened on, so a write behind a rename goes to an unlinked file. Crashes
and failed writes leave nothing, half a line, or a line without its newline.
`Abandon` is a handler that returns while its stream goroutine is inside an
operation; the initial state decides whether an execution has such orphans.

**SessionWatch.** One subscriber, writers inside its process and outside of it.
Sizes count two units for a line, text and newline, so that an offset can point
between them. `StatFirst`, `ReadSnapshot` and `Replay` are the three looks at the
session before the loop; `Poll` is the stat of the loop, `Read...` its four ways
to read, `Emit` a batch. Writers allocate, append, tear, compact and strip
between any of them. Instead of subscribing, the consumer may poll:
`ReadSessionEvents` reads the lines, `AnswerEvents` the latest seq and decides
whether the cursor, given as the last event (`since_seq`) or the next one
(`from_seq`), is behind or ahead of the log.

**RuntimeFallback.** The walk is a loop of `Skip`, `LoadFails`, `Attempt` and the
`select` (`LevelDone`, `ReceiveError`, `ReceiveChunk`, `Completed`). Each level has
a stream goroutine that produces, fails, finishes, or drops what it was about to
send because its context ended. A stream may ignore its context for ever.
`Return` is what every way out does: the deferred cancels, then the hook.

**TurnLoop.** The session is its last turn (after the folding of
`CleanSessionTurns`) and a size in units of the budget; the handler holds the
lock, so nobody else changes it. `BeginTurn` is the guard and the cold-start
compaction, `StartIteration` the head of the loop with the refresh of prompt and
agent. A model call is answered by the first of the four checks of
`BeforeModelCallbacks` that applies (`BreakerAnswers`, `BudgetAnswers`,
`ImageAnswers`, `LimitAnswers`) or goes through (`CallModel`). The tool calls of a
response report one by one in any order, `ToolsAnswered` is the event that holds
all answers. The branches of `handleContinuationOrCompaction` are actions in the
order of the code. What a compaction does is a member of `Outcomes`: nothing, a
failure before or after `MEMORY.md` was written, or an archive of some or all
turns with or without a notice. The configuration is a constant record, chosen
at the start. `fails`, `promised`, `hook` and `iterations` are ghosts.

**TurnStream.** The generator puts `Chunk`s and warnings on bounded channels, each
chunk with the number of tool events recorded before it; tools announce and
finish; `Signal` is the token that wakes the handler. The handler is one action
per case of its `select`, then the drains in the order of the code, each send a
step that waits for room. The client is in the same process or remote, reads,
cancels, or hangs up. `Paired` is the FIFO of calls by signature.

**Scratchpad.** An entry is a file of a creation, and no two are written at the
same time. A creation is `Open`, the write, the listing and one removal per victim;
a read is two lookups, the read, and for a macro once more; a search gives the
line whose page is then read; a list takes the directory first and each entry
after. A process may die between any two steps. Not every step is interleaved
with every reader: one reads at a time (`MayRead`), since readers change nothing.

**Bridge.** The handler, the watcher of the child's context and the child are
three programs. `Close` goes through the end of input, SIGTERM and SIGKILL, each
after a wait that the child's own exit may cut short. Inside the child the call
runs, answers in chunks, heeds its context or not.

**AgentCalls.** A call is validated, waits for the lock of its agent, runs a turn
with commands that may be calls again, in the foreground or under a supervisor,
and is committed; a timeout kills the group of its command. Calls are numbered,
the environment is the record `meta`.

**Compaction.** A pass is the holder of the session lock: read, decide the kind,
choose the boundary, reconcile the claims, walk the chain with `Retries` per
level, write memory (torn or whole), rewrite. The aside reads in the order of
`ReadOrder`. A document is what it covers, its cycle, its claims, and what kind
of text it was made from.

**Prompts.** A command is one process or a call of one server. `chain[<<c, "turn">>]`
is the hook chain the call waits for, `chain[<<c, "post">>]` the goroutine after a
compaction. The steps of a script are `StartScript`, `Exit`, `Kill` and
`CloseStdout`; what a chain makes of its output is `After` in `HookChain`.
`executeTool` is `CallTool`, `PrepareTool` and `RunTool`: the environment is
copied, the agent's .env written, hooks run, and the tool started, with other
calls of the server in between. What an appended turn holds is `Persisted`.

## Runs

| run | question | distinct states |
| --- | --- | --- |
| `SessionLock` | is the lock exclusive, do its records agree, and does a cancelled call let go of it, under death, PID reuse, probes and cancellation | 0.3M |
| `SessionLog` | is the session a `TurnLog`, is nothing lost, can numbering always go on | 2.1M |
| `SessionWatch` | order, gaps, wakeups, rewinds and delivery, for subscribers and pollers | 0.5M |
| `RuntimeFallback` | one voice, no stray stream, honest failures, an end | 2.0M |
| `TurnLoop` | budgets, continuations, images, the breaker, hooks, an end | 1.4M |
| `TurnStream` | what is shipped ahead of what, what the end tells, who waits for whom | 0.7M |
| `Scratchpad` | what eviction takes and what readers get | 2.7M |
| `Bridge` | is a caller told the truth, and does the child go away | 9k |
| `AgentCalls` | lineage, commits, no call that waits for itself, an end | 1.0M |
| `Compaction` | is nothing forgotten, are documents made from what they replace | 1.0M |
| `CompactionBoundary` | finding: an exchange that session and memory both drop | |
| `Prompts` | do answers match the log, do hooks keep their place, does a call end | 0.2M |

Properties of one question are conjunctions of named parts, so that a
counterexample names its part: `RecordsAgree` of the parts of the lock's records,
`StreamFaithful` of order, gaps, wakeups and rewinds, and so on. Every property
is shown to depend on the code by a mutant, an operator next to the one it
replaces (`PROJECT.json`, `mutants`); operators marked as mutants and not listed
there break other parts of the same property.

Deadlock checking is off except in `AgentCalls`: the bounds stop the models, and
the real programs come to rest.

Bounds, and why they are enough:

* `SessionLock`: a server with two goroutines and a command with one, one
  canceller, one PID reuse each. Two goroutines of one process are needed for
  the per-process records, two processes for the flock, one reuse for a stale
  hint. `MaxSpawns` is the only counter; the proofs have none.
* `SessionLog`: three turns, one rewrite, one tool event, two faults, one legacy
  row. A torn line followed by a healed append, or a crash and a recovery from a
  damaged tail, takes two faults; a rewrite with an archived and a surviving turn and
  an append afterwards takes three turns. The two handlers of the server
  are interchangeable, and `SYMMETRY` uses it; the run checks no liveness. An
  execution with orphans has no rewrite and no fault (`OrphanRewrites` = 0): its
  appends still settle and keep their turns, but two processes may give out the
  same number, so the refinement and the numbering are claimed of the executions
  without orphans only, and what an orphan loses next to a rewrite is a finding.
* `SessionWatch`: a session of no lines or of two, two more numbers, two
  renames, one fault, batches of one, one wakeup token. The channel, the batch
  and the offset reach their limits with two lines; a compaction that archives
  two turns, keeps one and adds its notice takes four.
* `RuntimeFallback`: three levels on two backends, the last on the backend of
  the first, channels of one, one chunk per stream, one window opened elsewhere.
  Three levels are a first, a middle and a last one.
* `TurnLoop`: five configurations that differ in every switch the loop reads,
  with limits left out, negative, one and two; a breaker of two failures, two tool
  rounds, two tool calls in a response, one image, a budget of two units. Every
  limit is reached and passed: a bail and an image in one iteration, an image
  after a bail, both budgets exhausted in one turn, a breaker that trips while
  another call of the response still reports. The proofs have no bound.
* `TurnStream`: two tool calls of one signature, one chunk, one warning, every
  channel with room for one: each channel is empty, full, and full with somebody
  waiting.
* `Scratchpad`: two processes, three creations, a cap of one, three slugs of which
  two are symmetric, texts of one and two lines and one with a macro, a read
  limit of two lines: a creation evicts one entry or two, a page ends inside and
  at the end of a text.
* `Bridge`: two responses; no other counter.
* `AgentCalls`: two agents that allow each other, four calls, one command in a
  turn: a chain of three that comes back, two chains that cross, a call whose
  caller was killed.
* `Compaction`: a chain of two with one retry, three turns, two passes, one claim,
  one fault, a major pass every second cycle or at two summaries: a minor pass
  followed by a major one that either trigger asks for, a pass that falls back,
  a fault at any one place.
* `Prompts`: eight set-ups of two commands (repl with two lines), on one agent or
  two, in one server or in processes of their own, with two scripts at one event
  and one at another; scripts print one of two outputs, or fail. `PersistIsLoud` of
  `MCPrompts` evaluates `Persisted` for all turns of up to two parts.

Fairness, and why the code justifies it:

* Straight-line code goes on (weak fairness of the steps of an operation).
* A registered turn reaches a `context.Err()` checkpoint only once it is
  cancelled: `EndTurn` is fair only then. Nothing is assumed of a turn that
  nobody cancels.
* Between two ticks of the poll loop only `ctx.Done` can be taken, so giving up
  is strongly fair. Success of an attempt on the flock is not assumed.
* A subscriber's 50 ms ticker fires; nothing is assumed of writers.
* The walk takes a ready case and timers fire; nothing is assumed of streams.
* The loop of a turn goes on: a model call returns because its level has a
  deadline, a command because it has a timeout. Nothing is assumed of errors,
  cancels or consumers that leave, so `TurnEnds` does not rest on them.
* A stream handler takes a ready case, a goroutine that may go on does, the
  client reads on or hangs up; nothing is assumed of models and tools.
* A child process that may exit does, and the timers of its reaping fire.
* Calls of agents go on, a free flock is granted, and a command's timeout fires.
* A compaction's model calls end, by a reply, an error or their deadline.
* A hook script may run for ever, its timeout fires; a child it leaves behind
  with its stdout lets go of it (`LetsGo`), which the program does not enforce.

## Proofs

For every value of the constants, from the named assumption of each module:

`Processes_proofs`, the session lock
: `Invariance`, `TypeCorrect`, `MutualExclusion`, `HeldIsExact`, `HintIsCurrent`,
  `RegistryIsExact`, all of them in `RecordsAlwaysAgree`, and `ImplementsMutex` (the
  refinement of `SessionMutex`).
  None of the properties is inductive: `HintNamesOwner` speaks of the file and
  the flock, which change at different steps. `IInv` ties the program counter of
  a goroutine to each of the four records (`FlockInv`, `HeldInv`, `HintInv`,
  `RegistryInv`) and says that a dead process has no goroutine inside
  (`ProcessInv`); `HintInv` also bounds the incarnation in the hint, or a
  process that does not exist yet could already be named there. The refinement
  maps the occupant of the critical steps to `owner`.

`SessionWatch_proofs`
: `WatchInvariant` and `StreamIsFaithful`, for any log, cursors, batch, channel and
  writers. `StreamFaithful` looks back: at what was sent, archived and owed. `IInv`
  says what the next step will find. What is owed is pending or behind all that
  was read (`OwedInv`), and as long as the file is the one that was stated, it is
  behind the stat and the offset as well (`OffsetInv`); so a subscriber that has
  nothing left to find has nothing owed, and a wakeup may go (`WakeInv`). What was
  archived is below what was left (`ArchiveInv`), and a poller's cursor and lines
  tell what became of every number at or below them (`PollInv`). A cursor with a
  mode has a number (`SessionWatchAssumption`): `since_seq` and `last_n` of 0 are the
  cursor that was not given.

`PromptsAndRuntime_proofs`, the walk over the runtime chain
: `Invariance`, `TypeCorrect`, `NoFrankenstein`, `NoStrayStream`, both in
  `BackendsStayApart`, and `FailuresAreReported`, for chains, channels and streams of any length.
  `OneBackendSpeaks` alone does not survive a descent; `TextInv` says that text
  was yielded only at the present level and only if `spoken` says so, `FreshInv`
  that levels ahead have not started, `LevelInv` that levels behind were told to
  end, `HookInv` that the hook has not fired before the walk is done. The
  argument is one lemma per action over a common lemma for every way out
  (`ReturnPreserves`).

`TurnLoop_proofs`
: `Invariance`, `TypeCorrect`, `WorkIsBounded`, `ContinuesSoundly`,
  `ContinuationIsSound`, `PromisesAreKept`, `BreakerIsSound`, for any limits (unset and negative ones
  too), images, tools and sizes: all safety properties of the run. `ChargeInv`
  counts every iteration but the first against one of the two budgets, which the
  bound itself does not say. `BreakerInv` holds the breaker's count between the
  length of the last streak of identical failures and the number of failures
  since the last success; only both bounds together survive a schema failure,
  which counts without comparing signatures. `PromiseInv` says where an image can
  be that is promised and not shown. One lemma per part of the invariant, with
  one step per action or group of actions that disturb it alike.

`Processes_proofs`, the bridged call
: `BridgeInvariance` and `CallersAreToldTheTruth`, for any number of responses.
  `CallsAreTold` speaks of the moment of the answer; `StageInv` ties the stage of
  the handler to the connection and the child, `ChildInv` says that a status on
  the pipe is the one the call ended with, and the rest that a call that is
  reported dead failed, never began, was cancelled or crashed.

`AgentCalls_proofs`
: `Invariance`, `CallsReportTheirDispatch`, `ChainsAreLineages`,
  `NobodyAwaitsItself`: all safety properties of the run, for any agents,
  allowlists, and numbers of calls and commands. The last two follow paths
  through the calls, upwards and downwards. `IInv` says of one hop what they say of
  a path (`HopInv`, `WaitInv`, `LockInv`), and a path is taken by the least call for
  which it fails (`LeastNat`), since induction theorems of the library cannot
  be instantiated. That nobody awaits itself rests on the lineage: a call that
  waits for the lock of an agent above it would find that agent in its chain,
  and is refused.

`StreamAndPad_proofs`, the streaming turn
: `Invariance`, `EndsAreTold`, `OutcomesArePaired` and the action property
  `EventsShipAhead`, for any tool calls, signatures and capacities. `CountInv`
  balances what was produced against channels, hands and client; `MarkInv` says
  that the events a chunk is marked with were recorded, `ClientInv` that a
  handler that holds a chunk has sent them. The announcements of a signature
  that have no outcome are exactly those in its queue (`QueueInv`), each once.

`StreamAndPad_proofs`, the scratchpad
: `PadInvariance`, `EvictionIsSound` and `ReadersGetWhatWasStored`, for any processes,
  slugs, texts, cap and number of creations, through deaths in the middle of a
  creation. That eviction keeps the cap is a claim about quiet moments: in between,
  `TrimInv` says who will bring the directory down, a process that has yet to
  list it, or one with enough victims in hand; a listing that is stale only has
  entries in it that are gone by now. The victims are the oldest because no two
  writes have one time and an entry in nobody's hands keeps its own (`ClockInv`,
  `CreatorInv`). What a reader has in hand between its steps is in `Rest`: a slug in
  use, the line a search found (`Located`), the page before (`AnswerHas`), what a list
  has seen and what is still to come (`ListHas`). It stays true because a slug is a
  creation (`SlugInv`) and its file, once whole, changes only by removal (`KeptInv`).
  `ReadersGetWhatWasStored` assumes that no slug is given twice (`FreshSlugs`);
  without that the property is false, as `ScratchpadCollision.cfg` shows.
  `EvictionIsSound` does not. `ScratchpadAssumption` also has the limit of one read
  below `Whole`, the number that stands for no limit, and what a tool prints made
  of the lines of the instance.

`PromptsAndRuntime_proofs`, the calls
: `PromptsInvariance`, `AnswersAreTrue` and `HooksStayInPlace`, for any commands and
  agents, any directories of hooks, whatever the scripts print and whatever is sent
  and attached. `AnswersMatchTheLog` compares an answer with the session; `StageInv`
  and `LogInv` say where a call is and what the session holds of its message at each
  place: nothing before the append, its text or its image afterwards. What a line
  holds is a lemma about `Persisted` (`PersistedIs`): it fits, a message keeps a text
  whatever is cut, and an image is there or is reported as dropped, which is what
  the error of `AddMedia` (`sdk.go:244-251`) rests on.
  `EnvInv` says that the variables of a message are in one place until they are rendered:
  kept by one process or held by one turn, never in two; that is why no two turns are
  given them. `ChainInv` says of a chain that it has run the first of its scripts in
  their order, that what is left is the rest of them or nothing, and that its text
  and variables are those of the last script that gave some; it is kept by one step
  of a script (`AfterOk`), so no induction over the outputs is needed. That the
  order exists for every directory (`DiscoveryIs`) comes from ranking each file by
  how many are before it. `ToolInv` says that the environment of a process, and
  what was captured of it for a tool, has values of the system or of an .env only:
  what the model or a hook sets is added behind it.
  What is assumed (`SetupsAssumption`, `MessagesAssumption`, `NoNumberAssumption`,
  `PersistAssumption`): a directory of hooks is finite, and two of its files differ in
  their names; `NoNumber`, which stands for a file without a leading number, is above every
  number, as such files come last (`hooks.go:224`); a message has a text
  (`NewContentFromText`, `sdk.go:149`), add-media attaches a blob (`sdk.go:228-238`),
  and neither was cut before; a cut text fits its cap and a text with a banner fits a
  line, as they do with the sizes of `session_store.go:17-43`.

Two proofs share a module where neither fills one; the operators of `Scratchpad`
and `Prompts` whose names another module has are called `PadInit`, `PadNext`,
`PadSpec`, `PadTypeOK`, `padVars`, and `PromptsInit`, `PromptsNext`, `PromptsSpec`,
`promptVars`.

`Compaction_proofs`
: `Invariance`, `NothingIsForgotten`, `DocumentsAreSound`, `MajorPassesAlternate`,
  `ResolvedClaimsStay`, `AsidesMissNothing`: all safety properties of the run, for
  chains, retries, passes, claims and turns of any number. `Known`, what `MEMORY.md`
  tells or is about to be given together with what a boundary parted, never
  shrinks but for a torn write; turns leave the log only into it. That is why
  nothing is forgotten and why an aside, which reads the log first, misses
  nothing although it takes no lock. `PartInv` says which part of the log a pass
  holds, `CopyInv` which document its copy still equals, `MajorInv` where the
  counters of the document stand at each step of a pass.

`SessionLog_proofs`
: `Invariance`, `LogIsSound`, `AckedTurnsStay` and `ImplementsTurnLog` (the
  refinement of `TurnLog`), for any processes, handlers and bounds: all properties
  of the run. Every step is a handler's, a stream's or a crash; the argument is
  that without orphans the worker that holds the lock is alone (`Alone`), so what it
  has read is still true when it writes. `TurnInv` says so: the rows are sorted, the
  snapshot of a rewrite is the log, its prefix is told by `MEMORY.md` once that is
  written, and the number a line will carry is above all rows. `CountInv` keeps
  lines and numbers within what the bounds spent, less what is still to come, or a
  number taken from a damaged tail would have no limit; `OrphanInv` says what an
  execution with orphans has left to do, `WriteInv` that the descriptor a line is
  written to is the file. In the refinement `remembered` is what the file tells
  together with what a compaction holds of it, so truncating `MEMORY.md` is a
  stutter and dying in between is `Forget`. As stated, `AckedTurnsStay` leaves
  out executions in which an orphan may meet a rewrite (`OrphanRewrites` > 0): there
  the property is false, as `SessionLogOrphanLoss.cfg` shows.

Only model-checked: liveness (`CancelFreesLock`, `WalkEnds`, `Delivered`,
`TurnEnds`, `CallEnds`, `EventsArePushed`, `NoOrphan`, `CleanupEnds`, `CallsEnd`,
`PassesEnd`, `PromptsEnd`), which needs ENABLED and is out of the prover's reach.
No safety property of a run is left to TLC alone.

## Findings

`CompactionBoundary` is a run of its own: `compaction.go:681-684` promises that the
remaining session starts with a fresh user turn, and the loop that should see to
it looks for the role `model`, which a turn that calls a tool has as well. The
response that is left behind is stripped from every later request, the call
without a response from the seed of the summary.

These properties quote what the code, its comments or its documents say, and are
refuted by the configurations beside them. They are run by hand, with the module
named like the configuration's first part (or its MC module):

* `SessionLogOrphanLoss.cfg`: the walk returns while the stream goroutine is still
  appending (`sdk.go:521-537`); with the lock gone, a rewrite of the next holder
  drops a turn whose append reported success, although `sdk.go:438-440` says that
  all writes have landed by then.
* `SessionWatchResume.cfg`: a consumer that resumes with nothing to replay starts
  with `lastEmittedSeq` 0 (`events.go:454`) and is sent events at or below its
  cursor after a rename, which `agent.proto:1193` rules out.
* `RuntimeFallbackLoud.cfg`: at the deadline two cases of the `select` are ready
  (`sdk.go:536`), and one of them calls the turn complete; `sdk.go:504-506`: "the
  deadline wins".
* `RuntimeFallbackHonest.cfg`: a walk that descends and then cannot load a level
  (`sdk.go:497`), or runs out of levels, surfaces an error and fires
  turn-completed, against `hooks.go:723-730`.
* `TurnLoopSilent.cfg`: after a compaction that changed `MEMORY.md` the agent is
  rebuilt without its sink of tool events (`agent_folder.go:631`), and tools run
  unannounced, against `adk_agent.go:458`.
* `ScratchpadCollision.cfg`: `scratchpad.go:285` says creation is "collision-safe
  across separate OS processes via O_CREATE|O_EXCL", but the name holds the number
  of lines and the creator too, so two files may share a slug.
* `BridgeDied.cfg`: `grpc_bridge_client.go:28` says that the process exited or
  crashed; any status Unavailable, Internal or Unknown of a living child
  (`grpc_bridge_client.go:215-245`) is reported so, its own panics
  (`robustness.go:76-90`) among them.
* `AgentCallsCommits.cfg`: `README.md:115` of the repository says a commit names its
  caller; the commit of a turn names what the process was called with, the
  commit before a command what its own environment says (`git.go:283`).
* `PromptsDotEnv.cfg`: a harness-owned variable can be one of an .env, because the
  environment is captured (`agent_folder.go:253`) after an .env was loaded into it.
* `PromptsKeys.cfg`: with two agents in one server, `runtime.json` is expanded from
  an environment that the other agent's .env was written into.
* `PromptsDetach.cfg`: `hooks.go:795-799` advises to detach long work inside the
  script; a child that keeps the stdout is waited for, past the timeout.

`SessionLockLive.cfg` (each half of `CancelFreesLock` with other bounds) and
`AgentCallsThree.cfg` (the safety of `AgentCalls` with three agents, 6M states)
hold, and are run by hand as well.

Seen while modelling, without a configuration of their own:

* The "lock-free" `CurrentSeq` (`seq.go:253-260`) takes `seqMu`, which `NextSeq`
  holds while it polls for the session lock.
* A cold-start compaction that archives everything leaves an empty session, but
  the old turns are kept for the second guard (`agent_folder.go:881-883`), which
  then lets a generation on an empty session pass.
* Tools ask `runtime.json` whether images are supported
  (`tools_scratchpad.go:124`, `tools_skill.go:136`), the loop asks the level that runs
  (`agent_folder.go:1051`): with a fallback that takes no images, and with
  `disableAutoContinuation`, an image that was promised for the next turn never
  comes. `ImagesAnswered` leaves both cases out.
* `hooks.go:618-631` lists the failure breaker among the paths where `can_continue`
  is false; a turn the breaker stopped ends like any other and may be continued,
  and turns that end with an error, a cancel or an empty response fire no hook.
* Failures of a schema count together whatever their signature
  (`adk_agent.go:195-210`).
* `CancelAgentTurn` recognises a PID and signals it in two steps
  (`cancel.go:100`); what runs there may change in between.
* A server that is sent SIGTERM drains without cancelling its turns
  (`tcp_serve.go:180-184`, `serve.go:105-108`), so a cross-process cancel of a
  server's turn reports success and changes nothing until the turn ends.
* After a compaction that archives every turn and a restart, numbering starts
  again at 1 (`compaction.go:1025-1035`, `seq.go:132-134`); a live watcher filters
  the new turns out, and a poller whose cursor they stay below never gets them.
* The latest seq of `ReadSessionEvents` is read after the lines and counts numbers
  no line carries yet (`events.go:281-290`): a consumer that moves its cursor there
  instead of to the last event it was given misses what is written meanwhile.
* A poll keeps the stat of a read that failed or that hit another file
  (`events.go:555-587`); the ghost `blind` marks it.
* `MEMORY.md` is truncated and written in place (`compaction.go:257`); the ghosts
  `torn` and `wrecked` mark a process that ended in between, or a failed write.
* The `NextSeq` of tool events uses the agent's directory, not the workspace
  directory of the request (`sdk.go:726`, `sdk.go:1354`).
* An error chunk ends a stream at once, and warnings and tool events that wait are
  dropped (`sdk.go:828`). Outcomes of overlapping calls of one signature may be
  attributed to each other (`adk_agent.go:459-467`); `PairsBySignature` says what is
  left. A client of the same process that stops reading without cancelling
  leaves the handler in its send.
* A call that asks for a whole text takes a turn without text for an error,
  although the turn is in the session (`sdk.go:900`).
* A minor pass that replaces the document takes any non-empty text, a refusal too,
  and drops the frontmatter that counts cycles, after which no major pass is due
  by count. A synthetic answer of the compaction agent's own limits can be stored
  as a summary.
* An aside has no watchdog of its own: a backend that hangs holds it until its
  caller gives up; it holds no lock. It ignores that `MEMORY.md` cannot be read
  (`sdk.go:1139`).
* A macro whose entry is evicted between its two lookups is an error, and a reader
  that took an entry from a list may find it empty.
* Two chains that cross (A to B, B to A) wait for each other's locks until a
  command times out, for ever with a timeout of -1. A killed call's turn is
  committed by the next call of that agent.
* The variables of a message's hooks are not cleared by a prompt, so a later
  generate may be given those of an older message; they are lost when the load
  fails, and between two commands.
* A repl that was interrupted once keeps its cancelled context for the lines that
  follow. `generate` prints no warnings.

## Not modelled

The alarm that watches long lock holds and the lock report (both only read);
`head_only` requests; deletion of session files; inode reuse (`os.SameFile` may
take a new file for an old one); fsync and loss of power; the arithmetic of token
estimates and the stubs for oversized turns in a compaction's seed; an aside's
walk over its backends; snapshots, tags and pushes of git, and git's failures;
the choice of a route by manifest, and manifests that lead in a circle; the TCP
listener; the syntax of claims, macros and hook output; texts of any kind. Files
are read and written atomically per call, as the kernel does for the sizes at
hand. Generated protocol code, model adapters and read-only commands keep no
protocol state. One tool call of a turn is modelled in `Prompts`, any number in
`TurnLoop` and `TurnStream`.

## Plan

Done: every component with protocol state has its module and its run, and the
safety of all of them is proved, with both refinements of an abstract
specification (`SessionMutex`, `TurnLog`). Liveness stays with TLC.

The models that are left to extend: the aside's walk, `head_only` and the
`latest_seq` a consumer is given, the routes of manifests.

# Verification of q15

q15 is a self-hosted agent. `q15-agent` runs one conversational agent with its
channels, tools, scheduled jobs and long-term stores; `q15-exec` runs commands for
it, `q15-proxy` is its egress proxy, and `q15-web` serves the browser front end.
This directory holds TLA+ modules of the parts that carry the program's own
concurrency, recovery and resource logic, the TLC runs that check them on small
instances, and TLAPS proofs that hold for every instance.

Paths below are relative to `src/systems/agent/internal/` unless they start with
`src/`.

## 1. Inventory

| part | state it keeps | operations | interacts with | what is hard |
|---|---|---|---|---|
| scheduler (`schedule`) | job table, running set, wake token; one goroutine | Create, Update, Delete, List, RunHistory, Run, recovery in NewManager | store, executor, acknowledged bus, history | crash between any two durable writes, API calls during a run, clock boundaries, lost or late acknowledgements |
| schedule store (`schedulestore`, `atomicfile`) | one file per job, one archive entry per run | LoadJobs, StoreJob, DeleteJob, AppendRunRecord, QueryRuns | file system | failing writes, idempotent append |
| bus (`bus`) | inbound, outbound and acknowledged-delivery channels | publish, publish and wait, acknowledge | channels, workers | a publisher that gives up before its answer |
| runtime workers (`app/workers.go`) | none of their own | agent worker, outbound worker, joint shutdown | bus, channels, agent loop | cancellation while a run starts, ends or is delivered; several errors |
| chat bridge (`channel/bridge`) | per session: event log, subscribers, running run, its cancel func; per run: coalescer, flush timer, terminal flag | SendMessage, Abort, WatchEvents, Deliver, ListTurns, PutMedia | bus, agent worker, `q15-web` | three locks, a timer, streams that overflow, a Stop that arrives late |
| browser library (`src/libs/chat-contract/browser`) | cursor, projection of the run in progress, sealed channel, replay window | watch, event, snapshot, open and seal | bridge, web front end | a projection folded from a stream with gaps |
| media (`media`, `tools/media`) | objects, reference records, scopes | Store, Resolve, ReleaseAll, sweep, attach_media | bridge, Telegram, tools | a sweep beside uploads and sends, half-written stores |
| Telegram (`channel/telegram`) | drafts, status message, stop button, polling session | run session, draft, deliver, split text, poll | bus, Bot API | timers, edits and lost answers out of order |
| agent loop (`agent`, `turnreply`) | turn budget, repeated-call guard, messages of the turn | Reply, model attempts, tool dispatch, fallback, store | providers, tools, history | budgets, retries, guards that fire within a batch |
| model providers and discovery (`provider`, `discovery`) | the stream being assembled, the catalog cache | map a conversation, assemble an answer, merge metadata | model APIs, models.dev | cut and reordered streams, a change of client in mid-conversation |
| model catalog and selection (`modelcatalog`, `modelselection`, `selectionstore`, `app`) | roster snapshot, selections, cached clients | refresh, replace providers, select, bind | configuration watch, agent loop | a roster that changes between lookup and use |
| OAuth login (`auth`, `authcli`) | `auth.json` | login, logout, refresh | issuer, agent and CLI processes | rotation, lost answers, two processes |
| secrets (`secret`, `cli/secret.go`) | sealed payloads, podman's records | set, rm, provision, the shell driver | podman, systemd-creds | kills between podman's delete and store |
| history (`history`) | Postgres turns, derived search data, bootstrap row | append, import, index, search, fit into a prompt, read pages | agent loop, embedding | leases and retries, an interrupted cutover, byte limits |
| embedding (`embed`, `tools/embed`) | job, state file, vector collection | register, sync, search, prune | Qdrant, providers | a restart between a point and its record |
| subagents (`tools/subagent`) | sessions, record directory, reserved number | start, write, kill, evict, restore | agent loop | retention, crashes, cancellation |
| exec service (`src/systems/exec`), exec tools (`tools/exec`) | session, output buffers, watchers | start, read, write, kill, reap | each other | process exit racing a read or a kill |
| file operations (`fileops`, `tools/files`, `memory`) | files, memory lease | patch, write, edit, read | memory repository | partly written patches, torn reads |
| egress proxy (`egressproxy`, `src/systems/proxy`) | rules, CA | match, substitute, tunnel | exec | rule precedence |
| web front end (`src/systems/web`) | passkey sessions, sockets | login, relay | bridge, browser | expiry, relaying |
| configuration and its watch, skills, prompts, other tools, CLI | files and settings | load, watch, render | all | mostly data and I/O |

`PROJECT.json` lists every component with its sources, its status and, where it
is not modelled, the reason; under "hazards" it lists what in this code is hard to
test, each at its line, with the properties that watch it.

### How the modelled parts interact

The *scheduler* claims a due job by writing it, hands it to the executor, writes
the result with a notification intent, publishes the notification through the
*bus*'s acknowledged queue, which the *outbound worker* serves, marks the delivery,
records it in the conversation history, archives the run and clears its marker.
Every one of these is a separate durable write, and `NewManager` continues from
whichever was the last one.

A *browser* sends a message through the *bridge*, which publishes it on the bus.
The *agent worker* takes it, opens a run session, installs the run's cancel func
and calls `Loop.Reply`, whose events the run session coalesces and appends to the
session's *event log*. Every open `WatchEvents` stream gets each event through a
bounded channel; a client that falls behind is dropped and reconnects at its
cursor, and is resynced when the log no longer reaches back that far.

`Loop.Reply` asks the *models* of the *roster* in turn, through clients that hold
*tokens* or keys, dispatches *tools* (exec sessions, files, sub-agents, media, the
recall of *history* and of *embedded* documents), and stores the turn. *Telegram*
shows the same run through its own session. The *media store* holds what any of
them attached, under scopes that an hourly sweep releases.

### What makes each part correct

* scheduler and store: no occurrence runs twice; every started run is archived
  exactly once; a notification that was promised is delivered or recorded as
  failed; an acknowledged one is not sent again; the files never reach a state
  the next start refuses; a due job is eventually run.
* event log: no event is lost, repeated or reordered without the client being
  told; the window keeps its limits; a reading client catches up.
* runs: a Stop hits the run it named and is not lost; each run ends with one
  terminal frame with a true status; no delta is lost; the session is idle again
  at the end.
* browser: what is shown is what was streamed, and a run that is over is not shown.
* outbound and media: an error means that nobody got the message; accepted media
  resolves for as long as something refers to it.
* tools: a stored turn can be replayed, reported output leaves out only what the format
  does, a crash leaves directories that restore, a failed patch that was rolled back leaves nothing.
* access: an answer is stored whole or not at all, a request uses the credentials
  of the entry it was resolved to, a refresh token is sent once, a secret reads as
  it was last set.
* recall: what was stored can be found and read whole; a limit never costs the
  user an answer.

## 2. Modules

| module | models |
|---|---|
| `Scheduler` | `schedule/manager.go`, `schedulestore`, the acknowledged queue of `bus`, the outbound worker, stops, crashes and restarts |
| `RunLedger` | what the store promises of a run, without processes or crashes: the abstract specification `Scheduler` implements |
| `SchedulerInvariant` | the inductive invariants IInv and DInv of `Scheduler` |
| `SessionEventLog` | `channel/bridge/events.go`'s log and `WatchEvents`; the cursor of `browser/session.go` |
| `BridgeRuns` | `SendMessage`, `Abort`, the logical and run sessions, the coalescer and its timer, the agent worker, the order of `Loop.Reply`'s events |
| `BridgeBrowser` | `BridgeRuns` composed with `SessionEventLog` and the browser's projection |
| `Outbound` | the bus with its publishers, the outbound worker, the bridge's `Deliver` fan-out, the bridge server's stop, `runRuntimeWorkers` |
| `TelegramRun`, `TelegramText` | a run in a Telegram chat; how its text is cut into blocks, chunks and splits |
| `MediaStore` | `media/store.go`, the sweep, uploads, sends, Telegram attachments, attach_media, the polling supervisor |
| `AgentEngine` | `Loop.Reply` over `Engine.Run`: fallback, empty answers, tools, guards, budgets, the stored turn, `turnreply` |
| `ExecSessions`, `ExecStartup` | one session of the exec service with the tools that use it; the service's start |
| `Subagents` | the sub-agent manager, its sessions, retention and record directory |
| `PatchText`, `FileCommit` | the patch grammar, hunks and pages; the commit of a patch, its rollback and the memory lease |
| `ProviderWire` | the three model clients: requests made from a conversation, answers assembled from a stream |
| `ModelRoster`, `ModelDiscovery` | the roster with reloads, selections and requests; how lists and metadata are merged |
| `OAuthTokens`, `SecretStore` | the login and its refreshes; the stack's secrets behind podman |
| `HistoryStore`, `HistoryContext`, `HistoryRecall` | the turn store, its import and indexers; fitting the past into a request; the paged tools |
| `EmbedIndex`, `EmbedSearch` | syncs of the embedding service; the bounded answer of a search |
| `MCScheduler`, `MCBridgeRuns`, `MCBridgeBrowser`, `MCAgentTools`, `MCChannels`, `MCModelAccess`, `MCRecall` | the instances TLC checks |
| `SchedulerProofs`, `SessionEventLogProofs`, `BridgeRunsProofs`, `ToolsProofs`, `AgentProofs`, `AccessProofs`, `ChannelsProofs`, `RecallProofs` | theorems |

Definitions keep the code's names where TLA+ allows it; `PROJECT.json`'s `map`
gives the lines each one stands for. An operator commented as a *fault* is not part
of the model: it is a plausible bug of the definition that follows it, and with it
in that place the property named in `PROJECT.json` must fail.

Four MC modules are *unions*: their components share no state in the code at the
level modelled, so a behaviour chooses one of them at the start (`focus`), follows
its next-state relation and leaves the other variables where they start. The state
graph is the disjoint union of the components' graphs; an invariant of the union
is a conjunction of the components' invariants, each of which only reads its own
variables. Interaction is modelled inside a component: `MediaStore` has the Telegram
handler, the bridge's uploads and the sweep in one state machine, `Outbound` the bus
with its workers, `ExecSessions` the service with its clients.

### Scheduler

`disk`, `archive` and `transcript` are durable; `mem`, `running` and `wake` are
the manager's fields; `pc`, `cur`, `run`, `fctx`, `timerAt` are the position and
locals of its one goroutine; `outq`, `inflight` and `ack` are the acknowledged
bus; `started`, `intended` and `sent` only record history for the properties.

* `Create`, `Update`, `Delete` are the API calls. They run on other goroutines, so
  they interleave with every step of the loop that does not hold `m.mu`
  (`Locked`). `Create` computes its first fire from a clock reading `t` that may be
  older than `now`.
* `PendingNotifications`/`ResumePendingNotification`, `ClaimNextDue`, `GoToSleep`,
  `WakeUp`, `TimerFires` are the Run loop; `Execute`, `ExecuteReturns` and
  `PersistCompletion` are `executeClaimed`; `Publish` to `ClearPendingRun` are
  `finalizePendingRun` and `finishPendingRun`, one action per durable write or
  hand-over.
* `OutboundTake` and `OutboundDeliver` are the outbound worker. The transport may
  send and still report an error.
* `Stop` (graceful), `Crash`, `WriteFails` and `PersistDeadline` are faults that may
  happen between any two steps; `Boot...` is `NewManager`'s reconciliation.

Abstractions: texts, names and tool lists are left out, of a job's counters only
what decides a step is kept (`ConsecutiveFailures` and `RunAt` are not), the
clock does not run backwards, and cron arithmetic is a pair of constant operators
with the assumptions the manager relies on (next is later, previous is not).
A failing write changes nothing: the store's restore after a partly applied write
succeeds. `executeClaimed`'s `stillExists` test has no branch of its own because
`TableMatchesStore` shows that it cannot be false.

### SessionEventLog, BridgeRuns and BridgeBrowser

In `SessionEventLog`, `events`, `nextIndex`, `retainedBytes` and `subscribers` are
the log's fields; `replay` and `channel` are what a handler has yet to send;
`cursor` is the client's; `seen` and `excused` are ghosts of what the client
received or was told is gone. Each action is one critical section of the log's
mutex, or one hand-over between a handler and its client. `Drop` is the eviction
loop as the least number of events that satisfies its exit condition. An event's
contents are its index and size. A log is never empty, because a session's opening
event is appended before the session can be found; the `NotFound`/reset branch of
the client is unreachable while the agent process lives and is left out.

In `BridgeRuns`, `session` is the logical session, `rs` the current run session,
`fired` the flush callbacks that wait for its mutex, `stage` and `result` how far
`Loop.Reply` is and what it will return. The run session's mutex is held while its
frames are appended: `outbox` holds the frames of the critical section in progress,
and `AppendFrame` appends them one by one, so that an `Abort`, which takes the
other mutex, may land in between. `stop` is the `*StopError` of the tool-loop
guard, the turn limit and the turn budget. The engine's side is the order of events
`Loop.Reply` and the engine report, not their contents: text is a sequence of
numbered tokens, one per delta; the turn sequence of the r-th run is r; a tool's
start and end are one kind of event. Sessions other than the one are left out.

In `BridgeBrowser` frame i of `stream` is event i of the log, so the composition
only conjoins `AppendFrame` with the log's append. `view` is the projection of
`session.event`; `adrift` marks that a resync skipped frames and no frame has reset
the draft since.

### Outbound and MediaStore

`outbound` and `requests` are the bus's two queues; `told` what each publisher
waits for or was told; `stream` a Deliver handler with its buffered channel and its
client; `registry` the bridge's set of handlers; `main` is `runRuntimeWorkers`. One
action of `OutboundWorker` is one message: the fan-out holds the bridge's mutex
over all handlers. A client reads whenever it likes or never; a channel that is full
drops its stream. A worker fails at most `MaxFailures` times; when the joining times
out the process is about to exit and nothing else happens (the model stops there).

In `MediaStore`, `disk` is what `media/store.go` has in its directories, `scopes`
its scope records, `rpc` the SendMessage in progress with its steps resolve, hash and
retain (the store hashes its source before it takes `mu`), `sweep` the hourly sweep
with the scopes it listed, the page it is at and the references the transcript
keeps. The age of a scope is one bit, and *no message waits a day for its run*:
`Age` happens while nothing is queued. Without that the sweep could take the media
of a queued message, as the code has no other protection for it.

### The other components

Each module's header names the files it models and what it abstracts; the actions
carry the names of the code's functions. The common conventions: a call of an
external service (Bot API, model API, issuer, podman, Postgres, Qdrant) is an action
that may fail or, where the code's answer can be lost, may take effect and report
failure; a process kill forgets the fields that are not files; a file written with
`atomicfile` changes in one step, and every other file may be left between any two
writes; text is a size, an atom or a model value.

## 3. Runs

| run | checks | instance |
|---|---|---|
| `scheduler_safety` | `TypeOK`, `NeverInconsistent`, `OccurrencesAdvance`, `OnlyUnavailableOneShotsRetry`, `NotificationsAreTrue`, `AckedNeverResent` | one job of either kind, two API calls, two faults anywhere |
| `scheduler_two_jobs` | `TableMatchesStore` | two jobs, three API calls against the Run loop, one fault |
| `scheduler_runs` | `ImplementsLedger`, `SchedulerProgresses` | one job, two calls, one fault, three instants |
| `bridge_stops` | `StopsAreExact`, `SessionTruthful`, `Quiesces` | two messages, two Stops, shutdown |
| `bridge_deltas` | `OneTerminal`, `DraftsAreWhole` | two messages, two deltas, two attempts or tool calls a run |
| `browser_runs` | `ProjectionFaithful` | two runs, window of two, channel of one |
| `browser_liveness` | `BrowserSettles` | one run, one broken stream |
| `agent_tools` | `AgentSafe`, `ExecSafe`, `SubagentsSafe`, `FilesSafe`, `ToolSteps`, `WorkEnds` | the agent loop, an exec session, the exec service's start, two sub-agents, patches of up to five lines, nine patch plans by two callers |
| `agent_orphans` | `StoredCallsAreAnswered` (expected to fail) | the agent loop |
| `channels` | `OutboundSafe`, `WindowSound`, `NoSilentGap`, `NoticesAreTrue`, `HandoffExact`, `TelegramSafe`, `MediaSafe`, `QuietAfterEnd`, `ChannelsSettle` | two Deliver streams with a buffer of one, two messages; two watchers; one Telegram run; documents of up to four lines and texts of up to seven characters; one content, two scopes, one turn |
| `model_access` | `ProvidersSafe`, `ModelsSafe`, `CredentialsSafe`, `AccessSteps`, `AccessIsAnswered` | three clients, three conversations, streams of three events; two changes of the configuration; two callers, one login, three token pairs; two secret names, three values, two faults |
| `recall` | `HistorySafe`, `RecallSafe`, `RecallSteps`, `MemoryCatchesUp` | two turns, two indexers, one upgrade; three windows; stored turns with up to three texts or answers under a limit of two, read in pages; two documents, three syncs, a collection dropped in two steps beside them; ten size limits |

All runs but `agent_orphans` pass. That one shows a counterexample: when the
repeated-call guard fires within a batch of tool calls, the calls of the batch that
are left get no result and the turn is stored (`agent/engine.go:271`), although
`agent/loop_conversation.go:118-120` and `turnreply/turnreply.go:346-349` treat
orphaned tool calls as an error that providers answer with status 400. `AgentSafe`
states what does hold of stored turns.

What the conjunctions stand for (each part is a definition of the component's
module, with a comment that states it):

* `NotificationsAreTrue`: an intent is not lost, what is recorded as delivered was
  sent, a suppressed notification was earned. `SchedulerProgresses`: started runs
  are archived, due jobs are claimed.
* `StopsAreExact`: a run is cancelled only if a Stop named it or was blanket while
  it ran, and no Stop is lost. `SessionTruthful`: terminal statuses are true, and the types.
  `DraftsAreWhole`: no delta is lost, keyframes hold the draft, pending text has a timer.
* `AgentSafe`: stored turns replay, exactly the media of deliver tools is
  delivered, each reply ends once, a continued session shares one budget. `ExecSafe`: the terminal
  event is last, reported output is exact over cursors and truncation but for nix noise under exit code zero and a blank stderr, a finished
  exec is complete; the service listens only on a complete store and cleans up.
  `SubagentsSafe`, `DoneIsFinal`: below. `FilesSafe`: nothing of a patch is dropped, the
  policy sees every path, hunks land exactly or are refused, pages cover the file,
  core memory is never torn, a failed patch leaves nothing unless its rollback fails or a root does not open. `ToolSteps` adds the steps: a
  finished sub-agent is final, memory edits are not undone, a start keeps what was authored.
* `OutboundSafe`, `MediaSafe`: below. `TelegramSafe`: the final text is shown once
  and whole, the chat is clean after the run, a dirty preview has a timer, every
  line is sent, chunks stand alone, splits keep the text.
* `ProvidersSafe`: an answer is whole or absent, the preview was the answer, calls
  meet their results after a change of client, nothing is lost in replay, sources of
  metadata are ranked, metadata is its model's own, an outage uses the cache.
  `ModelsSafe`: the roster is that of the applied configuration, live selections are saved
  ones, requests use the credentials they were resolved to. `AccessSteps`: refs are not reused, and no step takes the
  login away without a cause.
* `HistorySafe`: one turn per delivery, readiness means indexed, identities are
  fresh, batches are serial. `RecallSafe`: history never rejects a request, requests fit, drops
  go in order, source pages are whole and so is each text an overview owes, settled means indexed, a full sync repairs what was
  interrupted, removed sources are pruned, omissions add up, the best hits are shown. `RecallSteps`: complete
  turns are immutable, selections are stable, nothing is embedded and paid for twice.

Why the bounds are enough to be interesting. A crash matters relative to one run's
durable steps, so one job and two faults reach every pair of a fault and a second
fault during its recovery; the second job is there for the table. Three instants
are a fire, a run that outlasts it, and a later one. A window of two or three events
with a channel of one makes every way of falling behind happen: dropped during the
replay, dropped live, resynced, resynced again. Two runs are needed for a Stop to
meet the wrong one and for a resync to skip the end of one and the start of the
next. Two deltas make coalescing, order and repetition visible. Two callers of one
token are the smallest number that can race, a limit of two texts the smallest that
three exceed, two streams the smallest of which one
can fall behind alone, two scopes the smallest that can share a content, two
sub-agents with limits of zero logs and one record make every eviction happen, and
pages, windows and limits are chosen so that each size class (fits, fits shortened,
does not fit) occurs. What the bounds leave open is closed by the theorems of
section 4 for the components they cover.

`CHECK_DEADLOCK FALSE` is set in every run because the system may really come to
rest: a scheduler without jobs and a session without messages only wait, and the
bounds on calls, events and time end the environment's steps.

### Fairness

* `Scheduler!FairSpec`: weak fairness of the Run loop, of the exit of a cancelled
  process, and of the restart and its reconciliation. The loop's blocking calls
  are bounded (execution timeout, ten second publish timeout, persist
  deadline), the join at shutdown is bounded, and the service unit restarts the
  process. Nothing is assumed of the outbound worker, the API callers or the clock.
* `BridgeRuns!FairSpec`: the worker, the engine, the timer and the holder of a
  mutex keep going. That `Reply` returns is the property `WorkEnds` of the agent
  loop, given that its calls return, which their timeouts bound.
* `BrowserFairSpec`: both the bridge's and the log's. A client keeps reading and
  reconnecting (`session.watch` is such a loop). Appends and breaks need not
  happen; breaks are bounded.
* `ToolsFairSpec`: goroutines run on: the engine's, a session's waiter and capture,
  a killed process dies, a sub-agent's run goroutine.
* `ChannelsFairSpec`: the runtime's goroutines, timer callbacks and finishes of
  Telegram (strong fairness of the steps that take a Go mutex, which is handed on
  after a millisecond of starvation), the media and polling goroutines. Nothing is assumed of
  the clients of Deliver streams.
* `AccessFairSpec`: model calls and the login command go on once begun; strong
  fairness where a caller waits for `openAICredentialMu`; the configuration watch ticks.
* `MemoryFairSpec`: the indexer's and the sync's loops run on and a failed attempt
  is retried by the code's own backoff; failures are bounded.

Fairness of the component in focus is stated as one formula per group of components:
only one is ever enabled in a behaviour, so it is the component's own.

### What the code does that a reader may not expect

Consequences of the code as it is, met while modelling; apart from
`agent_orphans` none is a run here, because no document or test says otherwise.

*Scheduler and bridge.* A graceful stop while a run's result is being written follows
the path for an undelivered notification: the run is archived with a notification
error rather than kept as an intent for the next start. An acknowledgement that
arrives after the publisher's ten seconds is dropped: the message was delivered and
the run is recorded with a notification error; `AckedNeverResent` is about
deliveries that reached the disk. A Stop that names no run takes whatever runs when
it arrives. Messages still on the in-memory bus at a shutdown are lost with it, hence
"unless the worker was shut down" in `Quiesces`. The run session's own closing frame is
needed when `Reply` refuses a message before the engine reports anything, and else
the engine's terminal event comes first. After a resync the browser's text is
stale until the next keyframe, and its reasoning, which has no keyframe, until the
next attempt; `ProjectionFaithful` states exactly this.

*Agent and tools.* An empty final answer after the retries is shown as "(assistant
returned no text)" while the stored turn ends with the tool message. Stripping
delivered media also strips the same reference from other tools' results. A
stdin_closed event may follow an exec session's terminal event; `exec_read` can
report a session that is not running without having drained it; a context cancelled
during StartSession leaks the session, and a failing close of stdin leaves an
untracked process. `exec` takes the lines it knows as nix noise out of stderr when the exit code is
zero, and any result has no STDERR section when stderr is white space only; neither is announced, the cursor moves past
those lines all the same, and `exec_read` filters nothing: `ReportedOutputIsExact` names both exceptions. SIGKILL hits only the direct command, so a background child that
holds the pipes keeps the session terminating. A health check that finds paths
missing copies over a /nix that was healthy.

*Files.* A move whose source sorts before its destination deletes the source first, so a
crash between the two loses the text (only the rollback in the process restores
it). `commitDesiredStates` rolls back when a write fails but returns as it stands when a root does not open after
other files were written; `rollbackDesiredStates` skips a file whose root does not open: `torn` in `FileCommit` marks these
calls, and `FailedPatchLeavesNothing` excepts them. A patch that removes every line of a file that ended in a newline
leaves that newline, a file with one blank line, and `ExactOrRefused` says so; mixed line endings are rewritten on edit. Outside the memory root no lease is held, so
concurrent edits of a workspace file can lose an update. A rollback leaves created
parent directories, a crash `.q15-tmp` files.

*Telegram and media.* After a preview is disabled its stop button is unregistered, so
pressing it does nothing. Activity noted while the status message is being sent
schedules no edit. An edit whose answer is lost is followed by a second full send.
A voice message from Telegram is stored as application/ogg; attach_media accepts
its reference, but `ensureTelegramAudio` refuses the type when it is sent back,
although the guidance of the tool suggests resending it. `FileStore.Store` hashes
its source before it takes `mu` and copies it afterwards. A failed scope write or
release leaves objects that no scope names, which are never swept. A message that
waited more than a day for its run could lose its media to the sweep.

*Models and providers.* switch_model saves before it sets, so a roster that changed in
between leaves a saved selection that is not live, with an error. A configuration
edit refused only because discovery failed for a moment is not retried until the
file changes, and going back to the applied content leaves the old error in
config_reload. A start while the selected provider is down overwrites the saved
selection. A bound client keeps the credentials it was bound with. Refresh publishes
an empty roster when every provider fails. A corrupt 200 body from models.dev is
saved over a good cache before it is parsed. An Ollama /api/show failure removes the
chat capability for that cycle. A Codex response with only commentary text gets its
streamed text appended again as plain text. With text and refusal both present in an
unlisted output the refusal is dropped. An image attached to one of several parallel
tool results puts a user message between two tool messages. A stored call whose
arguments are not JSON makes every later request of the compatible and Ollama clients
fail, while Codex passes it through.

*Login and secrets.* A refresh response without refresh_token stores an empty one. The
store's mutex is per process, so a `q15 auth login` that lands while the agent
refreshes can be overwritten by the older credential or lose its fresh refresh token
to the clearing of the rejected one, and a logout can be undone: `overtaken` in
`OAuthTokens` marks exactly these behaviours. A lost answer after a rotation forces a
new login. A rotation of a secret whose sealing fails or is killed after podman's
delete leaves the name without a value.

*History and embedding.* An advisory lock lost with its connection does not stop the
batch; old and new releases running at once would digest back and forth.
`RequireReady` does not refuse after an interrupted re-import of a source that grew
once an earlier import was prepared. A full sync after a move leaves a stray point at
the old id; a copy of a document is treated as a move, identical documents share one
point; a new document at a moved one's path overwrites its point until the next
sync, and a chain of such documents takes one sync each, so that "settled" is as many
completed syncs as there are documents; a full sync that fails midway leaves texts
without points until later syncs complete. Vectors and records change in two calls, with no lock over both, and
each call looks at its context first. So a crash, a cancellation or an error between deleting vectors and saving the state
(a prune, a removed source, `DeleteCollection`), or between making a collection and clearing its state (`syncSource`), leaves
records without points. Later syncs count those documents as unchanged: they are not found until a full sync, or
until the collection is made anew and its state cleared. `DeleteCollection` also runs beside a job: one that makes the collection
again between its two halves has its records cleared and leaves points that no record describes, as does a crash between
the upsert and the checkpoint. `EmbedIndex` keeps both sets (`lost`, `orphan`); `SettledMeansIndexed` and `RemovedIsPruned`
except exactly them, and `FullSyncRepairs` says what ends the state. When the records of a removed
source outlive its collection, each sync fails at the prune until the deletion is repeated.

The overview of a recalled turn holds at most four texts of the user and four of the last message of the assistant that
answers (`LIMIT 4` in `ReadConversationPartIDs`; `ConversationLimit` in `HistoryRecall`). Commentary, earlier answers and texts
beyond the limit are left out with no continuation; only `view=source` shows them. The `omitted_bytes` of a
search hit counts bytes of text for an excerpt, and bytes of JSON (keys, escapes, earlier marks) for a hit
reduced to its reference. The comment on `existingOmitted` says that only the tool's accounting is meaningful, yet a document's own
`omitted_bytes` is the number it starts from, unless it is an integer in a payload that was not excerpted first.
`OmissionsAddUp` therefore asks for exact numbers of excerpts and for bounds on reduced hits.

## 4. Proofs

The theorems hold for every value of the constants that satisfies the assumptions
the modules state: any set of positive job IDs, any cron semantics in which the next
fire is later and the previous one is not, any bound on jobs, calls, faults, time,
queues (`JobsAssumption`, `BoundsAssumption`, `CronAssumption`, `NoCronAssumption`,
`NoRunAssumption`); any number of watchers, retention, event sizes and buffers
(`LogAssumption`, and `BrowserAssumption` where the log is composed with a browser); any number of messages, Stops, tokens and steps
(`RunsAssumption`); any number of sub-agents numbered from 1 and retention limits
with no more logs than records (`RetentionAssumption`; in the code both are
constants, `maxFinishedSessionLogs` and `maxFinishedSessionRecords`); any set of paths, of which the memory files and
the seeds are some, any plans and any set of callers (`CommitAssumption`); any number of chunks and calls of an exec session, any output
budgets and any choice of noise and white space (`ExecAssumption`) and any number of entries in the tree its service copies (`StartAssumption`); any tools, media,
models and limits of the agent loop (`EngineAssumption`); any number of callers, token pairs and secrets (`AuthAssumption`,
`SecretAssumption`); any configurations whose entries name a provider that serves some roster, or none
(`RosterAssumption`); any number of turns, of which the imported ones are some, of indexers, releases and faults
(`HistoryAssumption`); any documents whose paths differ from the model's mark for no document, contents, syncs and faults (`EmbedAssumption`); any set of Deliver streams and contents and any number of
scopes, updates, turns and faults (`MediaAssumption`); any number of events and failing calls
of a Telegram run, which needs no assumption. `OutboundSafe` needs no
assumption on the size of a channel at all.

Each proof has the same shape: an invariant `Inv`, one lemma per action that the
action preserves it, one per invariant conjunct the action disturbs, and a final
theorem that combines `Init => Inv` and the step. The safety property follows from
`Inv`; an action property from `Inv` and the step. Facts about the operators of the
model (a bounded append, the shape of `Drop`, a run session's `Finish`, a queue and
the messages already delivered as one sequence) are lemmas that several actions cite.

| module | theorem | states |
|---|---|---|
| `SchedulerProofs` | `InductiveInvariant` | `IInv` is an invariant of `Spec` |
| | `TypeCorrect`, `NeverInconsistentCorrect`, `TableMatchesStoreCorrect` | the properties of those names |
| | `OccurrencesAdvanceCorrect` | executions of a job advance in start and occurrence |
| | `DeliveryInvariant` | `DInv` is an invariant of `Spec` |
| | `OnlyUnavailableOneShotsRetryCorrect`, `NotificationsAreTrueCorrect` | the properties of those names |
| | `AckedNeverResentCorrect` | the action property |
| | `ImplementsLedgerCorrect` | `Spec` implements `RunLedger!Spec` |
| `SessionEventLogProofs` | `LogInvariant` | `LogInv` is an invariant of `Spec` |
| | `WindowAlwaysSound`, `GapsAreAnnounced`, `NoticesAlwaysTrue`, `HandoffAlwaysExact` | `WindowSound`, `NoSilentGap`, `NoticesAreTrue`, `HandoffExact` |
| `BridgeRunsProofs` | `BridgeInvariant` | `BridgeInv` is an invariant of `Spec` |
| | `StopsAreExactCorrect`, `SessionTruthfulCorrect`, `OneTerminalCorrect` | the properties of those names |
| | `PendingIsArmedCorrect` | one part of `DraftsAreWhole` |
| | `DraftInvariant`, `DraftsAreWholeCorrect` | the text of the runs: its invariant, the property |
| | `BrowserInvariant`, `ProjectionFaithfulCorrect` | runs, log and browser composed (`BridgeBrowser`): their invariant, the property |
| `ToolsProofs` | `SubInvariant`, `SubagentsSafeCorrect` | the sub-agent manager |
| | `DoneIsFinalCorrect`, `ToolStepsCorrect` | one part of `ToolSteps`, and the whole of it |
| | `CommitInvariant`, `FailedPatchLeavesNothingCorrect` | the commit of a patch: its invariant, one part of `FilesSafe` |
| | `PolicySeesEveryPathCorrect` | the patch parser and the access policy: one part of `FilesSafe` |
| | `ExecInvariant`, `ExecSafeCorrect` | an exec session and the start of its service |
| `AgentProofs` | `AgentInvariant`, `AgentSafeCorrect` | the agent loop and its turn replies |
| `AccessProofs` | `AccessInvariant`, `CredentialsSafeCorrect` | the login and the secrets |
| | `LoginOutlivesTroubleCorrect` | one part of `AccessSteps` |
| | `RosterInvariant`, `ModelsSafeCorrect` | the roster, its reloads and selections |
| | `AccessStepsCorrect` | the whole of `AccessSteps`, `RefsAreNotReused` with it |
| `ChannelsProofs` | `ChannelsInvariant`, `OutboundSafeCorrect`, `MediaSafeCorrect` | the bus with its workers, the media store |
| | `TelegramInvariant`, `QuietAfterEndCorrect` | a run shown in a Telegram chat: its invariant, the action property |
| | `ChatIsCleanCorrect`, `PreviewIsArmedCorrect` | two parts of `TelegramSafe` |
| `RecallProofs` | `HistoryInvariant`, `HistorySafeCorrect` | the turn store, its import and its indexers |
| | `IndexInvariant`, `RemovedIsPrunedCorrect` | the embedding service's index: its invariant, one part of `RecallSafe` |
| | `SettleInvariant`, `SettledMeansIndexedCorrect` | what its syncs get done: the invariant, one part of `RecallSafe` |
| | `FullSyncRepairsCorrect` | a full sync repairs what was interrupted: one part of `RecallSafe` |
| | `RecallStepsCorrect` | `RecallSteps`: stored turns, selections, vectors paid for |

### Why the invariants are what they are

*Scheduler.* `NeverInconsistent` and `OccurrencesAdvance` are not inductive: they
say what the next start accepts and what past executions were, and nothing about the
marker of a run in progress. `IInv` adds what one job file satisfies by itself
(`JobSound`: a pending run is that of the last start, a running job has started, the
next fire of a live job lies after its last start), what it has to do with the archive
(`ArchiveSound`: its archived runs are older, or the current one once finished with its
notification settled) and with the executions handed out (`StartedSound`), and what
the manager's table and position have to do with the file of the job at work
(`TableSound`, `StepSound`). The number of jobs that `NewManager` refuses is covered
for every `MaxJobs`, which is why no run is spent on a store that is full.

*Notifications.* `DInv` adds where the notification of the job at work is: a request
that can still be acknowledged is the last of the queue and belongs to the waiting
publisher (`LastIsLive`), nothing is in the queue when its answer is there
(`AnswerIsLast`), and no request is left of a notification whose delivery is on disk
(`DeliveredIsGone`). The lemma `DurableSteps` shows that every step makes one of a few
kinds of change to `disk`, `archive`, `started` and `sent`; the action property
and the refinement argue about the kinds, not about the forty actions.

*Refinement.* The ledger's variables are functions of the scheduler's durable state.
Each kind of change is mapped to `Claim`, `Complete`, `Acknowledge`, `GiveUp`,
`Settle`, `Archive`, or leaves the ledger as it is; crashes, stops, failed
writes and everything in memory are stutters.

*Event log.* `WindowSound` alone does not survive a `Watch`. `LogInv` describes each
stream as a chain: the frames a handler has yet to replay, then those in its channel,
are consecutive events that begin at its cursor or behind a notice that leads them
(`NoticesLead`), and end at the newest event unless the stream was dropped. The lemmas
`ChainAppend`, `ChainTail`, `DropStops`, `ReplayIs` and `ReplayContinues` say
what an append, a hand-over, an eviction and a subscription do to a chain.

*Runs.* `BridgeInv` ties the four places a run's end is known in: the run session
(its terminal flag and the frames it holds back), the stream, the logical session
(`running`, the cancel func) and the engine (`Reported`: what it has reported matches
what it will return). `StopKnown` says that a run whose context is cancelled was
asked to stop, `FramesTold` that what has been said of a run in the stream agrees with its
result. Without the order of the frames held back by the critical section in
progress, an `Abort` between two appended frames would break `OneTerminal`.

*Drafts.* The text of a draft is a fold of the frames, and the steps add frames at the end of
a fold. `FlattenAppend` says what that adds: the recursive function behind `FlattenSeq` is
the only one with its equations, because the least place where two of them differ cannot
exist (`SumsAgree`, from the library's well-founded order of the naturals), so
the text of a sequence and one frame more is the old text and the frame's. `DraftInv`
then says of the frames, those of the critical section included, and of what is pending
(`Draftful`): together they carry every delta once and in order; the answer kept for
keyframes is what the frames of the current attempt carry and what is pending; every
keyframe, and every frame that ended a run without a final text, holds the draft of its
place; and an engine that may forward a delta has begun an attempt in the log. `PutFrame`,
`PutStart` and `PutDelta` say what a frame, the start of an attempt and a delta do to it.

*The browser.* `BrowserInv` composes the invariants: those of the runs; `LogInv`, from
`SessionEventLogProofs` instantiated with the one watcher (`Logs`; the constants of the
composition meet its assumption, `LogsAssumed`); `Together`, that frame i of the stream is event
i of the log and no notice covers the newest event; and `ViewInv`, which says of the cursor
what `ProjectionFaithful` says of a browser that has caught up: what a browser shows that has
missed nothing since the last reset is the text since that reset, cut to the browser's limit
(`ShownNext`, `BoundedMore`), and what it shows right after a keyframe is that text whatever it
missed. The latter needs `AttemptInv`: a keyframe lies in an attempt of its run, with no start or
end of a run in between, because pending text only exists in an attempt and every
frame that leaves an attempt flushes it first; so the draft a keyframe holds (`DraftInv`) is
the one a browser shows (`KeyframeShows`). A step of the composition is a step of each part or
leaves it alone (`StepOfTheLog`, `StepOfTheRuns`).

*Sub-agents.* `SubInv` gives each session a life (`Life`: what its goroutine, its status,
its finish time and its file have to do with each other), says that used numbers
are reserved on disk (`SubReserved`) and that the limits are kept (`SubRetained`).
That no more than `MaxRecords` records stay is a counting argument: a session is evicted
exactly when enough newer ones have ended, and `RankBound` bounds the number of
those that have fewer newer ones than the limit.

*Files.* `FailedPatchLeavesNothing` speaks of the files once a patch is over. `CommitInv`
says what holds in the middle: a call that touches the memory files holds their lease, so
no other call's writes come between; each memory file has the text it had or the text the
call wants, by how far the writes have come, forward or back (`PlannedFile`); what the call wants and
what it would put back carry only changes that were settled when it took the lease;
and every change in a memory file is that of a call that is done or in `torn`: one that could not
be rolled back, or that returned without a rollback because a root did not open after a write (`TextsKnown`). `PolicySeesEveryPath` compares two readers of the same
lines. `PatchInv` says that the files the parser's operations name so far are among those the scan
finds so far, in every mode of the parser and not only when it has accepted; each
parser function adds at most the file its line names (`Parsed`).

*Exec.* `ReportedOutputIsExact` compares what a call shows with what the log has between its two
cursors: the same lines, in order and once, up to a cut it reports, but for the nix noise that `exec` takes out of the stderr
of a command with exit code zero and a stderr of white space. Which lines are noise or white space is a constant
(`ErrTexts`); the filter and the format keep an order that the collected bytes have (`Kept`, `FilterIs`, `ErrShown`). `ExecInv` follows a chunk from the process to the caller: it is in the pipe, in the hands
of its stream's goroutine, or in the log, in that order and numbered as it was written
(`Flow`, `ChunksNumbered`); a call holds exactly what its cursor has passed, or a prefix and the
note that it was cut, once its budget is spent (`Told`). The log ends, but for stdin_closed, when
the session does (`Closes`, `SessionOK`): the session is only terminal once both goroutines
are done, hence nothing is left in a pipe, which is what `FinishedExecIsComplete`
needs. The lemmas `BytesExtend` and `ShowsChunk` say what one chunk more, or what of it fits, does
to the bytes; `ChunksStep` and `CountAppend` count. `StartInv` says that while the image is complete the profile link, the
last entry of the copy, is whole only when everything before it is.

*Agent loop.* `StoredTurnsAreWhole` and `DeliversExactly` speak of the end of a run. `AgInv` says
what holds on the way there (`InRun`): every result in the transcript is the only answer to a call that was made, the calls
without an answer are exactly those still to do, calls are numbered by their place, and the media
of the results of deliver tools are what the history variable `given` has. One lemma says what an assistant message
does to that (`AssistantSays`), one what a result does (`ResultSays`); the batch whose calls are left
unexecuted on the final turn (`UnexecutedAnswers`) and the summary of a stop (`SummaryEnds`) follow. What a run ends with
(`RunEnded`) is what `Canonicalize` gets, and `CanonicalizeHands` shows that the stored turn is whole and
gives out `given`, moved to a last message or not, and that canonicalizing it again changes
nothing (`Handed`). It needs that `Survivors` returns a transcript unchanged when every message
survives: an induction over its prefixes, which `SurvivorsAll` does with a least counterexample, because the witness for the
recursive function can be written down. `AgBounds` and `AgBudget` say that an attempt, a batch and a retry each use
a turn that was left, and `AgTold` what has been told by then.

*Login and secrets.* `AuthInv` says of each call what it holds while it refreshes
(`CallOK`), whose the file's credential is (`FileOK`), which refresh token may still be
sent (`SendableOK`), and that a token sent twice has an excuse (`RefreshedOnce`): the
answer was lost, the save failed, or the process was killed. `SecretInv` says that a
record of podman has a payload of its own (`Distinct`), sealed with a key this
machine has unless a fault has shaken the name (`NameOK`), at every step of the shell
driver (`CommandOK`).

*Roster.* `RosterInv` adds to the two invariants what is between a change and its end: the
providers a watch has read are those of the file it read, or of the roster still applied
(`WatchOK`); a selection that is not the saved one belongs to the switch that has just saved it,
or to a slot whose live selection was refused after the save (`SelectionOK`). `RefsAreNotReused` needs what the roster holds
for a ref: the first model of that ref that some provider serves (`LookupIs`, `FlattenIs`).

*Turn store.* `HistInv` says which turn has which number (`Numbered`: the identity's value is never behind
the numbers in use, and before the cutover the new store only holds imported turns), that a delivery has one
turn whatever was retried (`OneDelivery`), how far the import has come (`BootOK`), what a
command does with it (`CommandOK`), that an indexer in a batch holds the lock of its kind
(`LocksOK`) and that what it is about to embed still is what it read (`UnitsOK`). Readiness then
follows from the turns themselves (`TurnOK`: derived data is that of a stored turn and not newer than the release).
`HistoryIsImmutable` is an action property: each step is one of a few changes of one turn (`TurnKept`).

*Request fitting.* `SelectionIsStable` needs the shape of a frozen snapshot (`ContextInv`): an attempt that
fails to fit hands back the snapshot it was given, and nothing but the first attempt of a run chooses groups.

*Embedding index.* `RemovedIsPruned` speaks of a source that is gone and a sync that has ended. `IndexInv` says what a job
works on (`JobOK`), that points and records describe each other but for two sets
(`PointsDescribed`): `orphan`, points the code cannot find (a lost batch, the old place of a moved document, a job that ran between the
halves of a `DeleteCollection`), and `lost`, records whose point was taken first; that a text that was paid for has a
record, in memory and in the file (`PaidIsRecorded`), and that a job which began after the removal only
prunes (`RemovalSeen`). `NothingPaidTwice` follows from `PaidIsRecorded`. It had to be corrected while it was being proved:
a document that takes over the place of another text is embedded without a look at the other
records, so a text that is recorded elsewhere is paid for again; the smallest behaviour takes three documents, four moves
and four syncs, more than the run has. The property now excludes that case and says so.

*Embedding settled.* `SettledMeansIndexed` said that two completed syncs are enough. Reading the proof
of it said otherwise, and TLC found the behaviour with three documents: a document that is put
where a moved one was takes over its point, the next sync embeds the one that lost it and
may take over a third one's, so a chain of n documents takes n syncs; and a full
sync that fails in the middle has taken over points without getting to the documents that had
them. The property now asks for as many completed syncs as there are documents since the last change or the
last start of a full sync, or for a full sync that completed. `SettleInv` proves it by
counting: documents whose text is where they belong (`HomeTexts`) stay there while nothing changes,
because a job that is not full embeds only a text that no record has (`LeanJob`) and then
puts it at home; so a sync that ends with a text missing has put one more at home than
there were (`Rose`, `Rising`), and there are at most as many as documents. A full job puts every document it has
dealt with at home (`FullJob`). What a job has dealt with is true of the source (`JobRecords`), and a
point agrees with its record in memory and in the file outside `orphan` and `lost` (`PointsMatch`), which also covers a crash. Making a
collection and clearing its state are two steps, as in the code; an interruption between them leaves records in `lost`, which
`SettledMeansIndexed` excepts because no number of lean syncs notices them. `FullSyncRepairs` is the answer to that: a full job
keeps for each document it has dealt with its own point and record, in memory and in the file, and none of them in either
set (`Home` in `FullJob`, `FullJobRepairs`), so a full sync that completes with no change meanwhile leaves the index as
the source is.

*Outbound.* What a stream *had* (sent, in its channel, or in its handler's hands) is a
stretch of what was fanned out since it began (`StreamOK`). With that, an error means
that no stream has the message (`FailedOK`), and a message reported as delivered is in
what one of them had (`DeliveredOK`). `JoinInv` says which worker errors the runtime
has collected. That no worker is joined while the runtime runs had to be added: without it
an error could be overwritten.

*Media.* A message's references are held by a scope that is *young* from the moment
it is written until the turn is stored, and after that by the transcript, whose
references the sweep reads, page by page, before it releases anything. `SweepOK` says
that every page already read is in what it keeps; a scope that is being released
therefore names nothing a stored turn needs, or something else holds it (`SendOK`,
`QueueHeld`, `TranscriptHeld`, `AttachedHeld`), and what a scope names is on disk
(`Backed`). A scope written between the listing and the release was young when the
scopes were listed, so it is not in the list.

*Telegram.* `TgInv` says who calls the Bot API: a callback that sends holds `opMu`, and
once the end of the run has it the session is finished, so that no callback starts a call
any more (`TgLocked`). From this follows `QuietAfterEnd`. `ChatIsClean` speaks of the last state only. Its invariant
(`TgCounted`) is an account: the status messages in the chat that the session neither
knows (`Known`: its own, the one a callback has just sent, the one the end is about to edit or
delete) nor can lose, and the preview once nobody is left to clear it (`GivenUp`), are at most as
many as the calls that failed. Each outcome of a call has its own lemma (`Erased`, `Shown`,
`Stayed`, `Failed`, `AddedCounted`), and each step of the end is one of them. `TgPreviewed`
adds to `PreviewIsArmed` that a fired timer has its callback and that a preview that is off has no timer.

The theorems about `OutboundNext`, `TgNext`, `MediaNext`, `SubNext`, `CommitNext`, `PatchTextNext`, `ExecNext`, `StartNext`, `AgentNext`, `AuthNext`, `SecretNext`, `RosterNext`, `HistNext`, `HistoryContextNext` and `EmbedNext` are
stated for the unions (`ChannelsSpec`, `ToolsSpec`, `AccessSpec`, `MemorySpec`): a step of another
component leaves the component's variables as they are (`ChannelsStep`,
`AccessStep`), so the invariants of one do not mention the others.

### What is only model-checked

* Liveness under fairness (`SchedulerProgresses`, `Quiesces`, `BrowserSettles`,
  `WorkEnds`, `ChannelsSettle`, `AccessIsAnswered`, `MemoryCatchesUp`): the temporal
  prover has no ENABLED.
* Whatever is an induction over data: folds, selections and recursive functions
  in `PatchText`, `TelegramText`, `ProviderWire`, `HistoryRecall`, `EmbedSearch`; the
  log's byte counter as a sum over its window.
* `NothingIsDropped`, `ExactOrRefused` and `PagesCoverTheFile` of `FilesSafe`, which are
  about what selections and folds of lines give.
* `FinalTextOnce` of `TelegramSafe`, which selects the pieces of the answer from what the
  chat shows, and its parts about the text itself, which are folds.
* `ProvidersSafe`, which compares what folds of a stream and of a conversation give.
* `RecallSafe` but for `RemovedIsPruned`, `SettledMeansIndexed` and `FullSyncRepairs`: fitting, paging and the bounded search answer are folds and
  recursive functions over data.

## 5. What is not modelled, and the plan

Not modelled: the egress proxy's rules and tunnels (pure matching and I/O); the web
front end's passkey sessions and sockets; the web user interface; the sealed
channel and replay window of the browser library; HTTP clients and cryptography; the
wording of prompts; the parsing of configuration and cron expressions; deployment
tooling; the git history of the memory; skills; the terminal (a Ctrl-C at a hidden
prompt can leave its echo off); usage figures, tool schemas and image scaling in the
model clients. Left out inside modelled parts because nothing calls them:
`MaxFailedModelAttempts` and `RequireToolCalling` of the catalog, `DeleteTurn` of the
history, `Registry.Run` of the tools. A store whose restoring write fails after a
failing write is left out as well: it is the one hazard without a property, because no
property of the code survives it.

Plan, in this order:

1. the parts of `RecallSafe` about fitting and paging, whose folds need lemmas like `FlattenAppend`;
2. a module of the web front end's sessions. Reading it showed that a re-authentication at
   the limit of sessions is refused although it would replace the browser's own, that a logout
   commits without looking at `failed` again, and that the window in which a reuse is
   tolerated relies on a clock that does not go back.

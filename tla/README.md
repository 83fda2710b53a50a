# SIM-ONE Alpha: formal model

TLA+ modules of the stateful parts of this repository, model-checked with TLC on
small instances and, for the properties that matter most, proved with TLAPS for
every value of the constants. Paths are relative to the repository root; `src/`
is the gateway, `tui/` the terminal clients, `crates/` the native modules.

Contents: 1 the system and its parts, 2 the plan, 3 the modules, 4 the runs,
5 what the code does and its texts deny, 6 the proofs, 7 limits, 8 how to run.

## 1. The system

One Node process, the gateway (`src/app.ts`), serves chat channels over HTTP,
runs an orchestrator agent and its workers (the agent runtime, Flue, is an
external library), fires scheduled prompts, and keeps everything in SQLite
tables, JSON files and a vector collection. Node runs one piece of synchronous
code at a time, so the unit of interleaving is the code between two `await`s.
The hard behaviours come from there (state read before an `await` and used after
it), from stores that no transaction spans (SQLite and a directory tree, SQLite
and vectors, memory and SQLite), from a process that may die between any two
steps, and from other processes (the `sim-one` command on the same files,
terminal clients that share a server, language servers, GitHub).

| Part | State | Operations | Meets | What makes it correct | Module |
|---|---|---|---|---|---|
| Schedules (`src/engine/schedules`) | tables `schedules`, `schedule_runs`; Croner jobs; concurrency gate; pending observations; retry timers | create, edit, pause, delete, run now; cron fire, dispatch, observe, retry; start, stop | agent runtime through `dispatch` and `observe`; routes; tools | slots counted and passed on, every fire ends, jobs mirror rows, a run row says what its fire does, no run row is reopened | `ScheduleStore`, `ScheduleManager`, `RunLifecycle` |
| Schedule tools (orchestrator, coding worker, routes) | the rows, their owners | the operations above, in the name of a scope | schedule store | a prompt runs in the name of who wrote it | `ScheduleTools` |
| Configuration (`runtime-environment.ts`, `coding-runtime-configuration-tools.ts`, `migrate-runtime-config.mjs`) | `sim-one.config`, the environment of the gateway, approved changes | start, update of a key, migration of a `.env`, edits by hand | shells that start the gateway, operators | a gateway runs with what was last asked of each key | `RuntimeConfiguration` |
| Approvals (`coding-worker/approvals`, `src/engine/approvals`) | `approvals.json` | gate of a tool call, list, decide, expire | mutating tools, operators on several channels | no effect without a valid approval; records agree with themselves | `CodingApprovals` |
| Coding loop (`coding-worker/workflow/loop.ts`) | loop state; `task-runs.json`; the workspace | triage, implement, test and debug, review, GitHub; checkpoint | subagents, commands, approvals, edit transaction | completed means verified; bounded turns and replans | `CodingLoop` |
| Edit transactions (`coding-repo-tools.ts`) | workspace files | check, write, patch, roll back | coding loop, other edits | all, or nothing but what the result names | `EditTransactions` |
| Repository registry (`repo-registry.ts`, `coding-repo-workflow-tools.ts`) | `repos.json`, its lock, directories under `repos/` | clone, retry, register | git | no registration is lost | `RepositoryRegistry` |
| GitHub (`coding-worker/github`) | what the tools reported; pending reviews, published writes on GitHub | comment, reply, resolve, branch, pull request | GitHub's MCP server, approvals, git | what is reported is what happened; no review stays pending | `GithubTools` |
| Language servers (`code-intelligence/lsp`) | client table, open documents, pending requests, processes | open, request, initialize, evict, dispose | coding tools, server processes | every tool call ends | `LanguageServers` |
| Capability lifecycle (`src/engine/capabilities`) | SQLite registry; tree of promoted packages | add, update, enable, disable, remove, reconcile at boot | agents, the `sim-one` command, the loader at boot | nothing executable loads that was not enabled; failures restore; successes install | `CapabilityLifecycle` |
| Capability authoring (`capability-authoring-tools.ts`, `capability-manager-tools.ts`) | the package in the workspace, attestations, handoffs | scaffold, test, hand off, add, update, enable | lifecycle, edits of other tools | what is loaded is what was tested | `CapabilityHandoff` |
| Protocols (`src/core/protocols`, `protocol-admin.mjs`) | the table of protocols | seeding as a provider is opened, by any release; add, remove, enable, disable, seed | loader of tools, capability manager, the script | the base protocols of the release are in force; users' rows stay | `ProtocolStore` |
| Session index (`session-database.ts`, `session-persistence.ts`) | index tables, memory chunks, vectors, a chain of promises per key | save, delete, queued indexing and vector deletion | Flue's session store, vector store, search | index follows the store, no vector outlives its row, pointer at the newest session | `SessionIndex` |
| Session routing (`session-routing.ts`, chat and Telegram routes) | `chat_sessions`, `active_sessions`, events, allowed users, groups | resume, create, switch, receive, administer | session index, channels | a message reaches its owner's session only | `SessionRouting` |
| Transcript and chat ingress (`session-transcript.ts`, `chat-events.ts`) | recorded prompts, log of events, deliveries | record, admit, answer, page | agent runtime, terminal | shown with the client's | `ChatTranscripts` |
| Terminal client (`tui/ratatui`) | document of exchanges, stream, pending requests | submit, switch, page, reconnect | gateway | one exchange per submission, nothing lost, nothing of another session | `TerminalClient` |
| Prompt editor (`app.rs`, `input.rs`) | text, cursor, selection, palette | keys and mouse | terminal client | a selection is of the text that is there | `PromptEditor` |
| Gateway launcher (`gateway.rs`, `server-manager.ts`) | the server a client started | find, start, wait, stop | other clients, other gateways | no server is left behind; launches end | `GatewayLauncher` |
| Structured memory (`structured-memory-*.ts`, `rust-memory-engine.ts`, `crates/gorombo-memory`) | records in the WASM module, in its cache, in SQLite; vectors of notes | create, update, move, delete, hand off, reconcile | memory tools, vector store | the stores agree after every failure; items hang from the top; vectors follow notes | `StructuredMemory` |
| Retrieval and vectors (`lance-db-store.ts`, `background-indexer.ts`, `knowledge-store.ts`) | rows of a collection | index, prune, upsert, add | startup, reindex route | one row per document, none of an old version | `DocumentIndex` |
| Web research (`web-research.ts`, its caches) | two caches, budgets, gathered contexts | plan, search, fetch, pack, stop | web workflow | within budgets, as fresh as asked, stops with evidence or with its plan run | `WebResearch` |
| Context budget (`session-budget.ts`, `compaction-policy.ts`) | ledger per model | estimate, record, report | Flue's session entries | what is reported is what the model will read | `ContextBudget` |
| Telemetry (`flue-telemetry.ts`, its routes) | newest events of the newest runs | record, evict, serve | Flue's persisted events | a summary is the end of its run | `RunTelemetry` |

Not modelled, each with its reason in `PROJECT.json`: approval channels (their
effect is `recordDecision`, in `CodingApprovals`), repository inspection and
memory providers (they read), coding-worker assembly, registries and tools, the
command line (adapters to the parts above), model registry, schemas and other
configuration (tables and parsing), sandbox and command policy (a pure decision
on words, and I/O), capability runtime (loading at boot is the set of loaded
packages in `CapabilityLifecycle`; connections to MCP servers are not modelled),
scripts and packaging.

`PROJECT.json` lists each component with its sources, and the hazards at their
lines, each with the properties that would catch it. Further hazards met in the
survey that no module covers: an MCP server that connects after its start timed
out is not closed (`mcp-broker.ts:75`); a Telegram pairing is approved in two
statements (`session-database.ts:770`), but nothing creates pairings; an audit
event creates a request and then decides it (`approval-service.ts:213`); the
approval key of edits is a hash of the present contents and the paths and not of
the edits (`loop.ts:848`), so that an approval given for one set of edits opens
the gate for another on the same files; and in the schedules, overlapping fires
are not held back by `protect` (`schedule-manager.ts:180`) and a waiting run of a
one-shot polls a row that auto-delete removes (`routes/schedules.ts:243`).

## 2. The plan

Done, most important behaviour first:

1. **Schedules**: store, manager, abstract run history; every safety property proved. Who may do what: `ScheduleTools`, proved.
2. **Approvals and coding loop**: what an agent may change, and when it may say it is done. Proved. Its tools: `EditTransactions`, `RepositoryRegistry`, `GithubTools`, proved, and `LanguageServers` (liveness). What it may set: `RuntimeConfiguration`, proved.
3. **Capabilities**: what code gets into the gateway, and how it is written and handed over (`CapabilityHandoff`); what governs it, `ProtocolStore`. Proved.
4. **Sessions**: `SessionIndex` and `SessionRouting`, proved.
5. **Memory and retrieval**: `StructuredMemory`, `DocumentIndex`, `WebResearch`, `RunTelemetry`, `ContextBudget`, proved.
6. **Channels**: `GatewayLauncher`, proved but for its liveness; `ChatTranscripts` under `TerminalClient` and `PromptEditor`, proved.

Left, in this order:

- Compositions: `CodingLoop` over `CodingApprovals` and `EditTransactions` (with
  the approval key of edits); `ScheduleManager` under `ScheduleTools`;
  `CapabilityHandoff` over `CapabilityLifecycle` instead of single steps.
- The MCP connections of the capability runtime; the command policy as a
  function checked against a reference definition.

## 3. The modules

### Schedules: `ScheduleStore`, `ScheduleManager`, `RunLifecycle`

`ScheduleStore` is the state and the statements of `schedule-store.ts`: rows by
id, unique slugs, runs with a foreign key that cascades, the cleanup that prunes
by age and by number. Each is one synchronous SQLite call, hence one operator
used inside a step. What a row's expression is to Croner is `good`, `bad` or
`past` (a one-shot whose instant has gone), and kinds are `cron`, `every`, `at`.

`ScheduleManager` is the runtime. `fire()` and `retryFire()` are threads of
control: `pc[r]` is the `await` that run `r` is at, `rec[r]` the record its
closure captured, which later edits do not reach. A step is the code between two
`await`s, with everything it calls: `Settle` writes the terminal status, deletes
a one-shot and gives the slot back, because `runAttempt` does so without an
`await` in between. Node's two queues are modelled: `Quiet` says no promise
continuation is due, and guards what arrives as a macrotask (cron, timers,
signals); HTTP handlers, agent events and dispatch results come through promise
chains of their own and may run between two continuations. `phase` is the
process: `down`, `up`, `failed` (`start()` threw, so `boot.ts` unset the
manager, while jobs set up before still run), `draining`. `Crash` keeps the
database only.

`RunLifecycle` is what a history of runs promises: a run appears once, goes from
queued to admitted to an end, a retry counts its attempt, and what is gone or
ended never comes back. `ScheduleManager!Ledger` maps to it.

Properties: `GateIsSound` (`SlotAccounting`, and `WorkConserving`: no wake-up is
lost), `ObservationMatchesAttempt`, `LedgerMatchesFire`, `CronMirror`,
`HistorySpec` (refinement) and `FiresSettle` (liveness); `AttemptBound` is proved
and in no run.

### Schedule tools: `ScheduleTools`

The rows by slug with their owner and (history) the author of their prompt, and
the runs that fired. Actions are the tools of the orchestrator (scope: the actor),
those of the coding worker (scope: the project, refused without one), the routes
(which ask for no owner) and cron. `Owned` is `loadOwnedSchedule`. Every handler
is synchronous up to the manager, so it is one step. Property: `WrittenByOwner`.

### Approvals: `CodingApprovals`

The records of one dedupe key (an action on a target of a task; the gates filter
by it), several tool calls through either gate, several operators. The file
store locks and renames, so a store operation is a step, and every pair of them
can be torn apart: `held[p]` is what an actor read and will write back. Request
ids are times, as in the code, so two requests of one millisecond have one id.
Histories `granted` and `effects` tell what was answered and what was done.
Properties: `EffectsGranted`, `StatusMatchesDecision`.

### Configuration: `RuntimeConfiguration`

A gateway loads `sim-one.config` over the environment it inherits: keys, their
deprecated names, and names of no definition. The worker's tool changes one key
with an operator's approval, a script writes the file anew from a legacy `.env`,
the owner edits it. A writer reads, puts its text together (`drafts`) and renames
it into place; others may write in between (`raced`), and the process may die. A
text is a word with a number of backslashes and whether it is quoted: that is what
a rewriting changes (`Reread`), since `JSON.stringify` escapes and `parseEnv` does
not undo it. `intended` and `wanted` are histories of what was asked. Property:
`RunsAsAsked`.

### Coding loop: `CodingLoop`

One task, any number of calls of `runCodingWorkerLoop`, as after crashes. `pc` is
the await, `step` the step of the loop as stored in its state. Subagents,
commands, approvals, the edit transaction and the store may answer anything they
can. `fresh` is a history variable: the commands that passed on the contents the
workspace has now, emptied by every change, failed transactions included.
Properties: `CompletedIsVerified`, `GuardOnlyIfShort`.

### Tools of the coding worker: `EditTransactions`, `RepositoryRegistry`, `GithubTools`, `LanguageServers`

`EditTransactions`: a transaction of writes and exact-text patches checks
everything, takes snapshots, writes its files, patches the others and rolls back
when one fails, beside another call that reads and writes the same files. Each
read and each write of a file is a step and may fail; a patch is of all the edits
with one spelling of a path (`EditsAt`), when the first of them comes up. A
content is a sequence of pieces of text, a path a file with one of its spellings.
`Intended` is what the files should hold. Property: `AllOrNothing`.

`RepositoryRegistry`: a call looks at its directory, clones into it, perhaps
removes it and clones again with credentials, then reads, changes and writes
`repos.json` under the lock of the file. The file is written in place: opening it
empties it (`OpenFile`), `WriteRegistry` fills it, a failure or a crash in between
leaves it cut (`readable`), and reading it then throws (`ReadThrows`). Property:
`RegistryKeepsAll`.

`GithubTools`: each tool with its gate and what it reports, call by call. GitHub
keeps one pending review of a user per pull request: a line comment creates it,
fills it, submits it, and deletes it when one of these fails, while other calls
do the same; a call may take effect and its answer be lost. Property:
`ReviewsSettled`.

`LanguageServers`: a tool call opens its document and sends its request; before
each it looks its client up, may start a server and may initialize it, with
awaits in between. Servers answer, die, or are disposed by the eviction timer.
Property: `CallsEnd` (liveness).

### Capability lifecycle: `CapabilityLifecycle`

One id, any kinds. `rows` is the registry, `target` the promoted packages, `pc`
and `held` the step and the locals of the operation each process is in: stage,
move the old package away, promote the new one, write the row, delete the
backup, and the catch blocks, which are steps of their own and may fail too.
`origin` is a history: both stores as the operation found them, forgotten once
another process changes them. `approved` is the set of executable packages that
an operation which asked for them to be enabled has staged and validated.
Properties: `OnlyEnabledLoads`, `AnswersAreTrue` (`FailureRestores` and
`SuccessInstalls`).

### Protocols: `ProtocolStore`

The table of protocols. Whoever opens a provider seeds the base protocols of its
own release, statement by statement: it reads which rows are seeds, updates or
inserts each, and deletes what it found and does not know; `opening[p]` is what it
found and has left. Several processes may do so at once, of several releases, and
die on the way, while `protocol-admin.mjs` looks at a row and then changes it, or
seeds. `settled` is the release whose seeding was the last, undisturbed, and
`withdrawn` the base protocols that a user took out (histories). Properties:
`SeedsInForce`, `UserProtocolsKept` (an action property).

### Capability authoring: `CapabilityHandoff`

From the workspace to the runtime: scaffold, test (the digest is taken before the
command runs, the attestation stored after it), handoff (which wants an
attestation of the present digest and hands off that digest, or the version its
caller asks for), add and update through approvals (with a version that was handed
off, or any other, or none), enable, disable, remove; the package may be edited
between any two steps and during a test, and the attestations are lost in a
restart. `named` are the digests that a caller gave of its own accord (a history).
The operations of the lifecycle service are single steps here. Property:
`InstalledIsTested`.

### Session index: `SessionIndex`

The keys of one logical session. `save()` is `Save` (Flue's store) then `Queue`
(the indexing joins the chain of its key); the chain runs `RunRecord` (rows and
chunks, up to the embedding), `FinishUpsert` (the vectors) and `RunDelete`;
`delete()` is `Delete`, `Drop`, `Unindex`, a wait for what the chain had at that
moment (`ahead`), and `Settle`, which repairs the pointer and may go on to the
latest session of the logical name. `DeletedIds` is the detail on which
everything turns: rows go at once, their vectors when the chain gets to them.
History variables name what the code does not promise: `behind` (a crash forgot
the indexing, or a save fell between the two deletions of a call), `missed` and
`lost` (failures that are logged), `torn` (a crash between the removal of the row
and the repair of the pointer).
Properties: `IndexFollowsStore`, `NoForgottenVectors`, `PointerIsNewest`.

### Session routing: `SessionRouting`

Sessions with their owner (an identity: connector, actor, conversation and
thread) and name, the active session of each identity, and the events recorded.
Actions: the chat routes and session commands (by id, by name, or none), creation,
switching, Telegram updates under the policies `disabled`, `allowlist` and
`pairing` and in groups, and the routes that administer them. Explicit names and
generated ids live in one space, as in the code. Property: `RoutedToOwner`.

### Channels: `ChatTranscripts`, `TerminalClient`, `PromptEditor`, `GatewayLauncher`

`ChatTranscripts` is the gateway's side: a prompt is recorded, admitted as a
submission whose events go to the log of its session, answered; its delivery,
which names the submission, is recorded only with the answer, so a page projects
prompts onto submissions by count until then (`Correlated`, `Page`). Faults are a
timeout of the reply, a restart and a broken stream.

`TerminalClient` EXTENDS it: the loop polls the reply of the prompt in progress,
the lifecycle and history requests and the event stream, and folds what they
bring into one document (`transcript.rs`): apply an event, complete a prompt,
merge a page, switch a session. Properties: `OneExchangeEach`,
`PromptLostToPage`, `RowsOfActiveSession`, `AnsweredIsFinal`.

Both filter sequences of prompts, exchanges and deliveries, and so does the prompt:
what is left of a sequence is `Picked`, in the module `Selections`.

`PromptEditor`: every key and mouse event that changes the prompt. A character is
a grapheme; wrapping and scrolling are abstracted (a cell of the screen is any
position). Property: `SelectionIsCurrent`.

`GatewayLauncher`: a client uses what answers on the port or starts a server and
probes the port until it answers or the client gives up, and stops what it
started at the end, first politely, then by force; the Ink and the Ratatui client
differ in how they wait. Servers bind, die and hang; clients are killed.
Properties: `ServersAreHeld`, `LaunchEnds` (liveness).

### Memory and retrieval: `StructuredMemory`, `DocumentIndex`, `WebResearch`

`StructuredMemory`: a record is in the store of the WASM module, in the cache of
the TypeScript engine, in SQLite and, if it is a note, in the vector collection.
A call visits them one after the other; between the stores lie microtasks, which
Node runs first in first out (`ticks`), while embedding and the vector store are
awaited outside of that queue. A failed write rolls back: from the database it
reloads the module, the cache follows. What a rollback and a restart load are the
rows that parse (`Loaded`): the schema of a row refuses empty strings, which tools
and module accept, so a text may be `Blank`. `disturbed` and `blurred` name the ids
for which the code promises nothing. Actions: creation (checklist, todo, note, and the
coding worker's plan and archive), updates, items of checklists (add, update with
a new parent, within the depth limit), deletion, clean-up and reconciliation at boot,
crashes. Properties: `StoresAgree`, `ItemsRooted`, `VectorsFollowNotes`.

`DocumentIndex`: indexing runs (startup and reindex route) and additions of
knowledge on one collection. The id of a row is a hash of file and content; an
upsert is a delete and then an add; at the end stale rows are pruned. Runs
overlap, fail, and are cut short. Property: `IndexIsExact`.

`WebResearch`: a run plans queries, searches, fetches some of the pages, packs and
stops, or goes on with deeper queries; runs share a search and a page cache with
expiry. A context knows whether it is of a page or of a search, which expire after
different times. Properties: `ResearchIsBounded`, `AsFreshAsAsked`.

### Budget and telemetry: `ContextBudget`, `RunTelemetry`

`ContextBudget`: entries form a tree with a leaf; the estimate walks the path to
the leaf from its last compaction, corrected by the provider's last count; a
ledger in memory stands in for missing data. The algorithm is a set of functions
(`Path`, `Derived`, `Report`); actions are what Flue does to the entries.
`ContextSize` is the reference definition. `Path` and `Context` are functions on
`Parents`, what the parent of an entry may be. Property: `ReportFollowsContext`.
The proof assumes that there is a longest text: JavaScript bounds its strings.

`RunTelemetry`: the map of runs in insertion order with the newest events of each,
the eviction of the oldest run, the restart, and what the routes answer, from
memory or from what Flue persisted. Property: `SummariesAreTails`.

`MC...` modules add the instances: symmetry sets, the definitions and edits that
callers send, and, where a run is of several components (`MCServices`,
`MCWorkers`, `MCWorkerTools`, `MCTerminalClient`, `MCCodingApprovals`,
`MCCapabilityLifecycle`), the choice of one (section 4). Such a module EXTENDS the
components, so their names are distinct (`GithubInit`, `ProtocolNext`, ...).

## 4. The runs

| Run | Instance | What it shows |
|---|---|---|
| `gate` | one cron schedule, run by hand too, 3 fires, 1 slot, 1 attempt limit, one transient error category | `GateIsSound`, `ObservationMatchesAttempt`; under fairness, `FiresSettle` |
| `history` | one slug, 2 ids (delete and create again), cron or one-shot, 2 runs, overrides up to 2 attempts, a transient and a permanent category, pruning | `LedgerMatchesFire`, and that the whole implements `RunLifecycle` (`HistorySpec`) |
| `mirror` | 2 slugs, every kind, accepted, rejected and past expressions, every edit, 1 run | `CronMirror` |
| `approvals` | one call through each gate, 2 operators, requests that live 1 tick, 2 ticks; or the configuration: 2 keys (one strict, with a deprecated name; one a secret), a name of no definition, up to 2 backslashes, 1 call of the tool, 2 edits by hand or migrations | `EffectsGranted`, `StatusMatchesDecision`; `RunsAsAsked` |
| `workers` | the coding loop: 2 calls, commands `unit` (required) and `lint`, turn limits 0 to 9, 1 replan; or web research: 2 runs, one fresh and one deep or both alike, 3 queries, 2 sources, 2 ticks | `CompletedIsVerified`, `GuardOnlyIfShort`; `ResearchIsBounded`, `AsFreshAsAsked` |
| `capabilities` | a gateway and a command, a skill and a tool kind, 2 contents, any 3 operations; or the protocols: 2 ids, 2 releases, 2 processes that seed, 1 operator | `OnlyEnabledLoads`, `AnswersAreTrue`; `SeedsInForce`, `UserProtocolsKept` |
| `sessions` | 2 keys, 1 entry, 2 calls of `delete()`, 2 saves, times up to 2 | `IndexFollowsStore`, `NoForgottenVectors`, `PointerIsNewest` |
| `client` | 2 sessions, 2 prompts (one may come from another terminal), 1 command or 1 fault, pages of 1; or the prompt alone: 4 characters, texts of 2 typed characters, 2 commands | `OneExchangeEach`, `PromptLostToPage`, `RowsOfActiveSession`, `AnsweredIsFinal`; `SelectionIsCurrent` |
| `worker_tools` | one component at a time: language servers, 2 calls, 2 documents of one language, 3 servers; a transaction over 3 files beside one edit; 2 calls on 2 slugs; 2 GitHub calls on 2 pull requests; a client of each kind | `CallsEnd`, `AllOrNothing`, `RegistryKeepsAll`, `ReviewsSettled`, `ServersAreHeld`, `LaunchEnds` |
| `services` | one component at a time: 2 memory records, 3 calls, 2 at once, a text and the empty one; 2 actors, 1 group, 2 events; 2 indexing runs and an addition on 2 files, 1 fault; 1 call of authoring beside edits; 2 slugs, 2 actors, 1 project; 4 entries in a window of 8; 3 telemetry runs of which 2 are kept | the nine properties of the seven modules |
| `gate_overcommit`, `session_vectors` | smallest instance that shows it | section 5 |

Every run has deadlock checking off, because every bounded instance ends: ids,
runs, calls and operations are used up. In `client`, `workers`, `worker_tools`,
`services`, `approvals` and `capabilities` a behaviour is one of a single component, chosen in
the initial state. The components of such a run share no variable and call nothing
of each other, so their interleavings would show nothing new.

Bounds, and why they are enough. Each is a constant: `MaxSchedules`, `MaxRuns`
(ids are used once), `MaxOverride`, `MaxClock`, `MaxTurns`, `MaxCalls`,
`MaxOperations`, `MaxSaves`, `MaxRequests`, `MaxCommands`, `MaxFaults`,
`MaxStarts`, `MaxServers`, `MaxEvents`, `MaxTotal`, `MaxEntries`, `MaxProbes`, ...

- *gate*: with one slot, three fires give a holder, a waiter and a third that
  arrives between the release and the waiter's continuation, which is where a slot
  can be lost or given twice. *history*: two ids on one slug are what late writes of
  an old schedule need to meet a new one; two runs, so that pruning has something
  to choose. *mirror*: two slugs, because rehydration at boot stops at a bad row, and
  what comes after it matters.
- *approvals*: a gate call and two operators overlap in every way; two ticks let a
  request be made, expire, and be made again, and also let two be made in one
  millisecond. Of the configuration, two rewrites are a migration and an edit on
  either side of an approved change; a second backslash is what a rewriting adds to
  the first. *workers*: nine turns pass `4 + 3 * 1 + 1`, so the guard fires
  and does not fire; two calls, so that a second starts on what the first left. A page
  expires before a search does (times to live 1 and 2), and the clock goes to 2: a
  second run of research begins when both are good, when only the search is, and when
  neither is.
- *capabilities*: three operations are an add, an update of it and anything that
  meets the update; larger runs by hand (four operations, skill only) found
  nothing more. Two releases that are seeded at once, with an operator between,
  are every pair of writers of the table of protocols. *sessions*: entries are independent of one another (no operation
  reads one to write another), so one suffices; three saves, or two entries, with a
  single deleter were run by hand with the same result (0.9 and 6.1 million states).
- *client*: two prompts are enough for a page to correlate one with the submission
  of the other; a page of one exchange makes the second a page of its own; a prompt
  ends in an answer (interim, final) or in an error. The constraint
  `OneDisturbance` lets a behaviour have a session command or a fault (timeout,
  restart, broken stream), not both.
- *worker_tools*: two first callers race for one server, a third is what eviction or
  a death makes necessary; the transactions write one file twice, create one, edit
  one twice and by two spellings; two GitHub calls share a pull request or not; of two
  registrations, the first is cut short or fails, before or after the second reads.
- *services*: two memory calls at a time and a third after them suffice for a write,
  a racing write or deletion, and a rollback between; a crash may come at every step.
  A text that parses and one that does not are what the stores tell apart.
  An indexing run that follows two overlapping ones is a third writer. The first of
  three telemetry runs is evicted by the third and goes on.

Fairness is assumed of three modules. `gate` (`FairSpec`): weak fairness of
promise continuations (Node drains its microtask queue), of dispatches coming
back (admitted or refused), and of timers (the observe timeout and the backoff).
It is not assumed of agents ending their turns, since the observe timeout is
there for that, nor of operators, crashes, shutdown or `stop()`: `FiresSettle`
promises nothing after those. `LspFairness`: weak fairness of each
call's continuation, and that a server answers its requests, dies or is disposed;
the last is a demand on the server that the code makes, having no timeout
(`lsp-json-rpc.ts:43`): with a server that hangs, the tool call hangs.
`LauncherFairness`: weak fairness of the steps of each client, whose
clock runs too; servers owe nothing, they may neither answer nor heed the
request to end. No liveness is stated of the other modules: a subagent, an
operator, an embedding and a clone have no timeout in the code, so nothing
justifies the fairness it would need.

## 5. What the code does and its texts deny

Two are runs that TLC violates, with the trace it prints.

- `gate_overcommit` (`GateBound`): `releaseConcurrency` lowers the counter and
  wakes a waiter, which raises it later without looking; a fire in between takes
  the slot too, so more than `maxConcurrentRuns` run.
- `session_vectors` (`IndexedIsSearchable`): saving a session a second time
  queues the deletion of its old vectors behind the running operation, which has
  stored the new ones under the same ids by then. They are deleted.

The others were seen while modelling and have no run. The models contain them:
the properties say what holds all the same.

- *Retry while paused.* Pausing cancels pending retries
  (`schedule-manager.ts:153`), but an attempt in flight sets its timer after that,
  and the retry (`:357`) does not look at `enabled`.
- *Completed without evidence.* A task without verification commands passes
  verification (`loop.ts:747`); `result-schema.ts:10` and the test at
  `coding-worker.test.ts:2202` want at least one command.
- *A deleted session returns.* Rows go at once, an indexing that waits in the chain
  runs afterwards and puts them back for good (`session-database.ts:217`, against
  `docs/superpowers/plans/pr-31-followup-checklist.md:104`).
- *Duplicate requests.* `createRequest` returns an existing pending request only
  if it is the first record of the dedupe key, while the gates take the latest
  (`approval-service.ts:57`); and two calls may list before either creates. In
  both cases an action has two pending requests. Effects stay granted
  (`EffectsGranted` is checked and proved with them).
- *Auto-delete by slug.* A one-shot runs, its slug is deleted and created again,
  the run ends: `maybeAutoDelete` (`schedule-manager.ts:511`) stops the job of the
  old id and deletes the row of the slug, which is the new one. The new row is
  gone and its Croner job goes on firing, until a restart; the comment at 206
  wants a deleted schedule to stop at once.
- *A row that ends the boot.* A stored expression that Croner rejects makes
  `start()` throw in the middle of rehydration (`schedule-manager.ts:112`): the
  jobs of later slugs are not made and the manager is unset, whereas
  `docs/architecture/schedules-system.md:18` says rows are rehydrated at boot.
  The row gets there by an edit that stores first and throws afterwards.
- *Create takes over.* A tool's create over the slug of another owner takes the row
  with its id and runs, whereas ownership is "enforced on every non-create op"
  (`orchestrator.ts:227`, comment of `schedule-ownership.ts:4`).
- *Two spellings of a path.* The edits of a transaction are grouped by the path as
  spelled, so the second group patches the snapshot and the first is lost, though
  the tool promises all changes or none. Hence `OneSpelling` in `AllOrNothing`.
- *Attested digest.* The digest of a test is taken before the command runs
  (`capability-authoring-tools.ts:259`), and the tool says it attests the exact
  content (`:250`); what the command ran on may be what an edit made meanwhile.
  `InstalledIsTested` therefore says: a content that was there when a test that
  passed began. Packages with `node_modules` or symbolic links pass the test and
  can never be added pinned, against `docs/architecture/capability-system.md:209`.
- *A telemetry summary without its head.* A run that was evicted and goes on is
  served from the new events instead of the persisted ones, so that
  `delegatedToResearcher` can be false of a run that did delegate
  (`docs/superpowers/plans/2026-06-09-flue-telemetry-plan.md` verifies by it); and
  updates of notes emit no mutation event, against `flue-telemetry.ts:44`.
- *Duplicate rows of activity.* A row has one id on the live stream and another on a
  page (`docs/tui/session-management.md:116`), and a drag in the transcript while the
  prompt has a selection extends that one (`app.rs:1791`, against
  `docs/tui/ratatui.md:93`).
- *What a change of one key does to the others.* An update of the configuration
  rewrites every line (`runtime-environment.ts`), and a text of another key that
  needs quoting comes back with its backslashes doubled and cut at a quote, though
  the tool promises an "update or removal of one registered SIM-ONE runtime
  configuration key" (`coding-runtime-configuration-tools.ts:85`). `RunsAsAsked` is
  of plain texts, and of the word of others.
- *An upsert of vectors.* `docs/superpowers/plans/cubic-fixes-pr-23-25-26.md:204`
  (Task 17, ticked) asks that an upsert add new rows before it deletes old ones and
  that a failure lose none; `lance-db-store.ts:70-74` deletes and then adds. A run that
  fails between the two loses rows until the next run puts them back: `IndexIsExact`
  speaks of runs that completed.
- *Base protocols.* `docs/superpowers/plans/cubic-fixes-pr-23-25-26.md:42` says
  "Base IDs must remain enabled for governance"; adding a user's protocol with the
  id of one makes the row a user's, which can then be disabled and removed.
- *A checklist item to the top.* `move_checklist_item` with an empty parent changes
  nothing, whereas its description says it moves to the top level; and the
  rollback's `reconcile` sets `max_checklist_depth` back to 5.

Also visible in the models, contradicting no text: run rows of a killed process
stay queued or admitted for ever; a second operator may replace the first's
decision; an enabled record seeded from configuration has no package and
`enable` makes none; an `enable` that races an update of the same record enables
the new row over the package of the old; two first callers start two language
servers and one is never disposed; a client that starts at the same time as
another may report the other's server as its own; a retry of a clone may remove
the checkout of another; overlapping indexing runs leave duplicates that the
next run alone repairs; a redelivered Telegram update is dispatched twice; an
approval of a change of the configuration is good for making the same change
again; a write of `sim-one.config` between another's read and write is lost.

## 6. The proofs

Eight modules, all checked by TLAPS from the assumptions named in the component
modules (`ScheduleManagerAssumption`, `ConfigAssumption`, ...) or in the theorem,
which type the constants and say that a null value is none of the others. A module
proves what belongs together and EXTENDS the components it is about. Few of the
properties are inductive; what strengthens each is the content of the proof.

| Module | Theorems | Inductive invariant |
|---|---|---|
| `ScheduleManagerProofs` | `TypeCorrect`, `GateSound`, `ObservationsMatch` | `GateInv`: types; `ThreadsOK`, that a thread has a record once it is born and the queue holds exactly the waiters, each once; and `Gate`, the counting. The cardinality of the holders changes by one at each entry and release, which needs to know that a waiter is nowhere else. `ObservationInv` adds, for each fire, that it has an observation exactly while it makes an attempt without an outcome, and no outcome elsewhere. |
| | `LedgerIsFaithful`, `AttemptsAreBounded`, `HistoryImplemented`, `CronerMirrorsTable` | `HistoryInv`: `GateInv`, what each thread's run row must say at its await, rows' ids and slugs, captured records, and the foreign key of runs. The refinement then takes each action to a step of `RunLifecycle` or to a stutter. `CronMirror` is inductive with it: an automatic delete removes a row by slug and a job by id, and the two are of one schedule. |
| `CodingWorkerProofs` | `ApprovalTypes`, `NoEffectWithoutApproval`, `StatusAgrees` | `GrantInv`: approvals in the file were granted, a record on its way back to the file is undecided (a stale write can erase a decision but not make one), a tool about to run looked at an approved, unexpired request. |
| | `RunsAsAskedHolds` | `ConfigInv`: until a write fell between another's read and write, each key of the file has what was last asked for it (`FileInv`), and so will it when a draft is renamed into place (`DraftInv`). `Follows` is what is left of a text after any number of rewritings. |
| | `LoopTypes`, `CompletionVerified`, `GuardIsLastResort` | `LoopInv`: which commands are fresh at each await and step, what the checkpoint of an earlier call may still claim, and how many turns each step has used in terms of the replans. |
| `CapabilityLifecycleProofs` | `LifecycleTypes`, `OnlyEnabledLoadsHolds`, `AnswersHold` | `LifecycleInv`: for each process what its locals say (`LocalsOf`), that staged packages, backups and what is in place are approved (`GateOf`), what a rollback from here would leave (`BackOf`) and what going on would (`OnwardOf`). The properties are about the ends of paths, so each step must know both. |
| | `SeedsAreInForce`, `UserProtocolsAreKept` | `ProtocolInv`: how far a seeding is, row by row: a seed that it still has to write is one that it found or may insert, one that it has written is in force, and what it will delete is what it found (`SeedsRelease`, `Seedable`). What makes it stable is that all that overlap seed one release, or none of them counts. |
| `SessionIndexProofs` | `SessionTypes`, `NothingForgotten`, `IndexIsCurrent`, `PointerHolds` | `Typed` and `Targeted` with one of: `VectorInv` (a vector without its row is named by a deletion in the chain, also one about to be stored); `FollowInv` (the newest data are in the writer, else in the last save of the chain that has not begun, else in the rows); `PointerInv` (saves of a key are in the order of their times all the way from the store to the rows, so a row never goes back, and no row is ever newer than the pointer). |
| `StructuredMemoryProofs` | `MemoryTypes`, `StoresAlwaysAgree`, `ItemsStayRooted`, `VectorsAlwaysFollow` | The order of the queue of microtasks is what decides which of two writes of a record is the last in each store: `Latest` names it, `StoresFollow` says which store has its record by then, what a rollback has read and that a deletion is alone. Each store has that record or, where its row does not parse, nothing: `ModuleSettled` and `CacheSettled` say which stores a reload has left. `KindsInv`: an id has one kind for good, in the stores and in every call. `VectorsFollow` adds the vectors, which are awaited outside of the queue. `ItemsRooted` rests on `AcceptedIsHung`: a bounded walk upwards from each item rules cycles out. |
| `ServicesProofs` | `ScheduleToolsTypes`, `PromptsAreOwned` | `ScheduleToolsInv`: a slug has one row and a run has a row, with `WrittenByOwner`. The 19 handlers change the store through five operations; a lemma for each says what it keeps, and only `UpdateFields` needs to know whose rows it was given. |
| | `InstalledTested` | `HandoffInv`: attestations, prepared versions and the inputs of calls in flight pin contents that a test passed on or that a caller named (`PinsAreTested`). |
| | `SessionsAreOwned` | `RoutingInv` with `RoutingKeeps`: whatever an operation does for an identity, no session changes hands and the one it ends with is that identity's. |
| | `IndexesAreExact` | `IndexInv`: for a run that is alone, which of the documents it has stored, is storing and has still to prune (`RunProgress`); its records are distinct, so that each gets one row. |
| | `SummariesAreEnds` | `TelemetryInv`: the runs kept are those in the order, and what is kept of a run is the end of what happened in it (`EndOf`, which trimming and appending keep). |
| | `ResearchBounds`, `ResearchIsFresh` | `ResearchInv`: what each stage of a run holds (`RunHolds`): its pages and contexts are as fresh as asked also while they lie in a cache or in hand, and how far in its plan an iteration is. What `Pack` takes is within the budget and distinct. |
| | `ReportsFollow` | `BudgetInv`: the entries are a tree; a compaction keeps what follows the one before it on its path (`KeptSince`), so the context of an entry is the head of its path, the latest compaction and what that kept, with what came after (`Shaped`); a provider's count is of the context it was given for (`UsageHolds`), so that the count and the estimate of what followed make the context (`CountedIs`). Totals are folds, whose sums are shown position by position (`TotalRuns`). |
| `TerminalClientProofs` | `SelectionAlwaysCurrent` | `EditorInv`: the cursor and the ends of a selection are within the text, and the text is the one that the selection was made on; each key and each mouse event keeps that by what it does to both. |
| | `ClientIsOfOneSession`, `NothingIsShownTwice`, `NothingIsLeftOfOtherSessions` | `ClientInv`: the inbox has each prompt once, of its own session, and the log begins each submission once, which is why `Correlated` gives a submission to no two prompts (`Matching`); a page, the history in progress, the response, the stream and the document are each of one session; the id of an exchange determines its submission (`Named`), and no two exchanges of the document have one. |
| | `PromptsKept`, `PromptsAreNotLost` | `PromptInv`: each prompt submitted into the document is shown by one exchange or its submission by another with a prompt (`KeptIn`); the exchange in progress shows the prompt it waits for (`WaitsIn`), so that a reply which merges it away gives that prompt on. Events never merge it, since they bind it to a submission the document does not know (`HandleEventsPrompts`). No page brings a prompt submitted here: those still to come are before the cursor, and so before all that were submitted (`HistoryLeaves`, `PageLeaves`). |
| | `AnswersKept`, `RepliesAreFinal` | `AnswerInv`: the log has the events of a submission one after the other (`InOrder`), a reply comes when its submission has ended, and what is done stays as it is. The document has read the log up to some place: from the first event it has seen, and from where the stream will go on, each event up to there is seen or of a closed submission (`Reads`), so of a submission no event is missing between two that were seen (`Unbroken`), also when a connection breaks and the stream reads again what it had read. An exchange that shows an answered prompt then has the prompt's submission and the final answer, or an interim message came after it and no final one since (`AnswersIn`, `Overtaken`). Until the page that begins a document is there, nothing else is awaited (`Quiet`). |
| `WorkerToolsProofs` | `NoRegistrationLost` | `RegistryInv`: who writes holds the lock, and what a writer carries has all that was reported, also while the file is cut (`NothingDropped`); a cut file has no reader, so nobody carries less. |
| | `ReviewsAlwaysSettled` | `GithubInv`: until an answer is lost, a pending review is of exactly one call, which is at one of three steps (`Held`), and what a call tells is what it did (`Honest`). |
| | `ServersHeld` | `LauncherInv`: a live server has a client at a step that will stop it or leave it on purpose. |
| | `AllOrNothingHolds` | `EditInv`: what each phase of a transaction has looked at (`Looked`) and has changed (`Left`); while it rolls back, each file is as it was found or named by a result that is still to be undone (`Undoing`). Two writes are never of one file, or the checks would have ended the transaction. |

Each proof has a lemma per action or operation, and lemmas on what the helpers do
to sequences, cardinalities and functions, cited by name. What is recursive in the
models is a function (a walk, a list of summaries, what is packed), and what it
computes is proved by induction over a finite set or over the naturals
(`SetInduction` and its like, proved where they are needed from the
well-foundedness of the naturals).

`RepliesAreFinal` rests on one more assumption, `PlansAssumption` of
`ChatTranscripts`: in a submission that no error ends, a final message follows each
interim one. It says what *final* means: the text of the reply is that of the last
assistant message (`docs/tui/ratatui.md:101`, where the reply "reconciles" the same
block). It is about the agent runtime, which is external.

Every safety invariant and action property that a passing run checks is stated by
one of these theorems. Only model-checked: `FiresSettle`, `CallsEnd` and
`LaunchEnds`, since liveness under fairness is beyond the prover.

## 7. Limits

- *Schedules.* `next_fire_at` and `last_fired_at` (informative), configuration,
  telemetry and the waiting variant of the run route are left out. Croner and the
  agent runtime are external, modelled from their use.
- *Approvals.* No audit events, bindings, roles, or `cancelRequest` (nothing
  calls it). Only the service's interface sets `expiresAt`; no tool does today.
  The clock does not go back.
- *Coding loop.* `runCodingWorkerLoop` is called from tests only at present.
  Texts of plans, events and the keys of edit approvals are abstracted; two loops
  on one task-run file are not modelled. With the defaults (10 turns, 3 replans)
  the turn guard acts before the replan budget is used: `GuardOnlyIfShort` gives
  the limit above which it does not.
- *Edit transactions.* One transaction beside one other call, with which it may
  lose updates: `AllOrNothing` is about transactions that had the files to
  themselves. A file whose write failed may be truncated; the result names it.
- *Repository registry.* What git does with a directory is external; the checkout
  that another call's retry removes stays registered. A failed write or a crash
  between opening `repos.json` and filling it (`repo-registry.ts:103`) loses what the
  file held: `RegistryKeepsAll` is about a registry that can be read. The file does not
  parse then, and every later call rejects until somebody repairs it, rather than
  start an empty registry; nothing in the repository promises more.
- *GitHub.* Answers' shapes and the connection are left out. With a lost answer
  `ReviewsSettled` promises nothing: a retried deletion may hit the next call's
  review, and a review whose creation lost its answer blocks those that follow.
  `FETCH_HEAD` is shared, so a branch may start at another pull request.
- *Language servers.* No framing, no `didChange` (the code sends none), and one
  language; an evicted server's documents stay in `openDocuments`, so its successor
  is not told of them.
- *Capabilities.* The instance has skills and tools; workers follow the paths of
  tools, and MCP records, which have no package, are in the module and not in the
  instance (the proofs cover all). Each filesystem and SQLite call is a step; a
  deletion that fails may leave part of a package. `FailureRestores` excludes
  failures after the commit except those of an update that disables: after a
  failed cleanup, `replaceMaterialized`, `disable` and `remove` restore the files
  and not the row. Removal of the staging directory is not modelled. Loading is
  the state at boot.
- *Capability authoring.* The caller of a handoff may give its version itself
  (`capability-authoring.ts:255`), and so may the caller of the manager; nothing
  compares it with the tests. A package that was tested can thus be handed off with
  the digest of what it is edited to afterwards, and this is installed and enabled
  untested, though `docs/architecture/capability-system.md:207` calls the handoff
  "content-digest-bound". `InstalledIsTested` leaves out the digests that a caller
  named (`named`); it still says that what is installed is what the version says. Operations of
  the service are single steps; the enable approval carries no payload. An update that
  removes the version unpins, and `InstalledIsTested` is about pinned records.
- *Session index.* One logical session, no direct-agent sessions. Blocks of SQL
  without an `await` are a step that does not fail. The session of a key only
  grows between saves, as Flue appends. Full-text rows are written with the
  chunks and follow them.
- *Session routing.* `deleteChatSession` and `createTelegramPendingPairing` have no
  caller and are left out. An active session belongs to an actor in a chat while
  the agent instance belongs to the chat (`docs/architecture/tui-cli-session-flow.md:174`):
  that composition is not modelled.
- *Structured memory.* Two memory calls at once. Concurrent updates of a record lose
  fields without breaking `StoresAgree`; ids that a rollback or a deletion met in
  flight are excluded (`disturbed`), since the code loses or resurrects them. A row
  that does not parse is dropped without a message, from memory at a restart and at
  the rollback of another record's write (`structured-memory-database.ts:136-141`); it
  stays in the database, an update of its record is answered "not found", and its
  vector goes at a restart. `memory-note-tools.ts:51`, the tools of todos and
  checklists, and `validate.rs` let empty contents, descriptions and dates through,
  which the schema refuses: `StoresAgree` and `VectorsFollowNotes` allow for it.
  Deletion has no tool that calls it.
- *Document index.* One chunk per file, one of the two collections; a hash is taken
  as unique, though it has 31 bits. Between the delete and the add of an upsert a
  search misses the document, and a failure there leaves it missing until the next
  run (section 5).
- *Web research.* The web is external. A fresh run replaces cached entries by what it
  found, which may expire sooner; attempts count cached pages.
- *Context budget.* The routes of `chat-events.ts` ask for the report after a prompt
  and after a compaction (`:353`, `:416`), and tell the ledger of a compaction if the
  session has no data (`:409`); only tests call `recordPromptUsage`. The ledger starts
  at zero after a restart and does not hear of Flue's own compactions:
  `ReportFollowsContext` is about estimates derived from the session.
- *Telemetry.* Usage, lists and the schedule reporter are left out; Flue gives all
  events of a run or none.
- *Channels.* The thread that reads the stream and the loop that handles it are one
  step. Legacy and nested events, pending text, titles and scrolling are left out;
  the page and the reply say where the stream goes on. The late events of a prompt
  that timed out may bind to the next one.
  Liveness of the input is not checked.
- *Prompt editor.* Layout is any layout; what is copied is not modelled.
- *Gateway launcher.* A killed client leaves its server, and an owner that quits
  stops a server that others use: `ServersAreHeld` names both.

Each module states its type invariant (`TypeOK`, `LifecycleTypeOK`, ...), as
documentation and, in those with proofs, as the first conjunct of what is proved.

## 8. Running

    tlc -config sessions.cfg MCSessionIndex
    tlapm SessionIndexProofs.tla

Every run takes under five minutes with two workers; the largest are `services`
(about two and a half) and `client` (about two). The proofs take up to a
quarter of an hour each from nothing.

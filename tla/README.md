# Analects: a TLA+ verification project

Analects is an OpenAI-compatible HTTP server that runs a whole coding agent
behind `/v1/chat/completions`. One asyncio process serves many clients; each
request runs an agent loop over two language models and a set of tools, in a
session whose memory outlives the request. This directory holds TLA+
specifications of its core logic, the TLC models that check them, and TLAPS
proofs of what matters most. Paths below are relative to `src/`.

Each module is written from the code it models; `PROJECT.json` maps every
definition to the lines it stands for.

## 1. Inventory

### Request path

| component | state it keeps | operations | correct when |
|---|---|---|---|
| **Session pool** `confucius/server/session_pool.py` | `_sessions`: id to entry (Confucius instance, lock, last use); pool lock | `acquire`, `release`, `cleanup_expired`, `_evict_oldest` | requests of a session are serialised; a lock that was taken is given back; capacity is kept; nothing answered is lost by eviction or expiry |
| **Chat lifecycle** `confucius/server/app.py` 755-1354 | handler coroutine, `agent_task`, `_AGENT_SEMAPHORE` | identify the user, route, acquire, run the agent (in the handler, or as a task when streaming), release, save | an agent runs only inside its session's critical section; at most four run; every request ends |
| **Instance and memory** `confucius/lib/confucius.py`, `core/memory.py`, `core/analect/analect.py` | message memory, storage, artifacts, the current I/O adapter | `load`, `save`, `invoke_analect`, consolidation of a run's memory | a saved session is what the next one loads |
| **Entry and agent loop** `http_routed_entry.py`, `dual_model_orchestrator.py`, `orchestrator/base.py`, `orchestrator/anthropic.py` | some thirty counters and flags, the tool queue, synthetic messages | model selection, tool batches, error breaker, nudges, synthesis, escalation | bounded; every error series answered; the primary model has the last word |
| **Adapter and stream** `io_adapter.py`, `streaming.py` | chunk buffer, stream queue, generator | `ai`/`system`/`print`, `clear_response_text`, `signal_done`, `sse_stream` | what the agent wrote reaches the client once, in order, before the end; errors are told; a lost client frees the agent |
| **Router and tool groups** `expert_router.py`, `tool_groups.py` | none between requests | classify, fall back, order groups, limits | every route has tools and a limit |

### Users, background work and stores

| component | state | operations | correct when |
|---|---|---|---|
| **Users and sessions** `user/session_manager.py` (with `tools_extension.py`, `user_context.py`, `memory_extension.py`) | profiles in Qdrant, sessions in Redis with a local fallback, per-user locks, recently deleted ids | get/save session, identify, link, remember, update, merge, delete | no update is lost; a deleted user stays deleted; a merge keeps what both knew |
| **Critical facts** `user/critical_facts.py` | facts per session, in Redis or in the process | extract by patterns, `store_facts`, `get_facts` | what was found survives an error halfway and the lack of Redis |
| **Note observer** `note_observer.py` | two permits, trajectories in Redis, notes in Qdrant | observe, extract, store, search, clean up | a permit comes back; the clean-up takes the notes of deleted users only; personal facts stay personal |
| **Backend clients** `backends.py` | clients for Redis, Qdrant, embeddings; last status | initialise, health check with reconnect | a backend that is back is used again |
| **Indexer and monitor** `code_intelligence/workspace_indexer.py`, `memgraph_client.py`, `app.py` 238-470 | points in Qdrant, graph in Memgraph | full and incremental index, reconcile, remove a project | stores agree with the disk after a cycle; nothing that exists is removed |
| **Workspace sync** `workspace-sync/sync.py` | clones on disk, configuration mtime | clone, pull, hot reload, trigger a reindex | a failing repository does not stop the others |
| **Tools** `orchestrator/extensions/**` | files and their versions, memory directories, the queue of calls | edit and undo, run a command line, write and read memory, dispatch | undo restores; locked files stay; only allowed commands run; every tool call gets exactly one result |
| **Model adapters** `core/chat_models/**`, `orchestrator/anthropic.py` | the conversation, the queue of tool calls | conversion of messages and tool calls | nothing said is lost or reordered; calls and results stay paired |
| **Configuration, entry manager, CLI, utilities, scripts** | - | - | sequential; see PROJECT.json |

### How they interact

A handler awaits `SessionPool.acquire`, which installs the request's adapter in
the session's instance. The agent captures the adapter when it *starts*, which
may be after a wait for a semaphore slot. A non-streaming handler awaits the
agent and then releases; a streaming handler creates a task, returns the
response object, and the same `finally` releases. The agent loop writes to the
adapter; the generator reads the adapter's queue; the server drives the
generator and cancels it when the client leaves. Expiry, eviction, health check
and workspace monitor are coroutines of the same event loop. Everything shared
is therefore atomic between awaits, and exposed at every await.

### What is hard to test

The `hazards` of PROJECT.json list it line by line. In short: sections that a
lock should guard and that end before the work does; an object looked up again
by name after it was replaced; counters reset in several places by branches that
are rarely taken together; two signals for one event; state read before an await
and written after it; and a crash between two saves.

## 2. Plan

In order of importance to the system, one module after the other:

1. `SessionServer` with its abstract specification `SerialSessions`, and their
   proofs. *Done.*
2. `AgentLoop` and its proofs. *Done.*
3. `SseStream`. *Done.*
4. `UserProfiles`: profiles, sessions, per-user lock and deletion marks, with every
   await of `session_manager.py` a step. *Done.*
5. `RequestRouting`: from a message to an answer or an agent, and the agent's
   escalations. *Done.*
6. `CodeIndex`: sidecar, monitor, reindex endpoint, indexer, graph, and the clients
   with their health check, in one module because a cycle that fails halfway is only
   interesting next to the others. *Done.*
7. `RequestNotes`: the background tasks of a request and the clean-up. *Done.*
8. The tools with state of their own: `FileTexts`, `FileEdit`, `MemoryFiles`,
   `CommandLine`, composed in `AgentTools`. *Done.*
9. `Conversations` with the four chat models, and their tools' schemas in
   `ModelAdapters`. *Done.*

Proved: every safety invariant and every safety action property of these modules but
one, and the refinement (section 5). Left to prove: `SchemasClosed` of `ModelAdapters`,
whose RECURSIVE operators on schemas (`ExpandRefs`, `RefsOf`) the prover does not take.

Left to model: the message trees of `core/memory.py`, the simple memory, the
persistent terminals, and one request across all its modules.

## 3. Modules and their correspondence to the code

### SessionServer

`SessionServer.tla` models `session_pool.py`, steps 10-12 of
`_handle_chat_completions`, and what the Confucius instance does to its memory.

*Grain.* The server is one event loop, so a step is what a coroutine does
between two suspensions. `load` and `save` are synchronous inside coroutines:
the pool lock is never contended and each section it guards is one step. `busy`
is the handler that has returned from `acquire` without suspending and still
holds the event loop.

*State.* `pool` is `_sessions`; `locked`, `waiters`, `cfIo`, `lastUsed` and
`memory` are the fields of an entry, which is named by the request that created
it; `disk` is the session's memory file; `handler` and `agent` say where the two
coroutines of a request are; `agentIo` is the adapter an agent captured when it
started; `slotQueue` is the semaphore's queue. `displaced` is a history
variable: sessions whose entry was evicted or expired while somebody used it.

*Actions.* `AcquireFree`, `AcquireWait`, `AcquireCreate`, `LockGranted` are the
paths of `acquire`; `Release` is `release`, which looks the entry up by session
id; `ReachSemaphore`, `SlotGranted`, `AgentEnds`, `ClientDisconnects` the agent;
`HandlerReturns` and `StreamingHandlerReturns` the two ways through the
`finally` clause; `CleanupExpired`, `Tick`, `Restart` and `RestartInSave` the
environment. A handler that does not stream keeps its slot until it returns, for it
stores critical facts inside the `async with` (`SlotHolders`); a crash may tear the
file of any save, that of a release, an eviction or an expiry (`Saves`). A turn is a set
element: what the properties tell apart is which turns a memory holds, not what they say.

`SerialSessions.tla` is the promise without pool, locks or agents: each session
executes one turn at a time and its log grows by exactly that turn.
`SessionServerRefinement.tla` maps the server to it (the log is the file).

### AgentLoop

`AgentLoop.tla` models `DualModelOrchestrator._process_messages` with the hooks
it overrides, on top of `base.py` and `anthropic.py`, for one request. `pc` is
the top of the loop (`call`), the chain of branches (`branch`), or an end. The
variables have the names of the attributes they model. What a model answers is
the environment's choice, abstracted to the class of its tool calls (`none`,
`search`, `research`, `mixed`) and of its text; how the tools fare likewise.
`Routes` describes what `HttpRoutedEntry` configures per route, the other
constants are the thresholds at the top of the file.

One action per way to leave the call (`OutOfIterations`, `ContextOverflow`,
`CallFails`, `FastAnswers`, `PrimaryAnswers`) and one per branch taken on the
answer, in the order of the `if`/`elif` chain: each branch's guard includes the
negation of those before it. The two branches that end the loop first call the
completion hooks (`CompletionHooks`): the test generator and the code reviewer count
edits while tools run (`expertDue`), and when one has seen enough its advice goes into
the memory (`advice`) as a message of the user without the mark of synthetic ones. A
hook that raises ends the agent there (`HooksRaise`).

### SseStream

`SseStream.tla` models `io_adapter.py`, `streaming.py` and the task of
`run_agent`. `queue` is the unbounded `asyncio.Queue`, `sent` the events given
to the server. The generator runs without interruption between `queue.get` and
its yields; `stream` is where it stands. The timeout of `wait_for` may fire at
any moment at which the generator waits, also when a chunk has just arrived
(`Keepalive`). A client that leaves is seen only if the generator waits
(`DisconnectWaiting`); at a yield the generator is dropped
(`DisconnectSending`). `Collected(entries, f)` is a comprehension with a condition, a
recursive function: the buffer that `clear_response_text` leaves, the events that
`_format_chunk` makes of the queue, and the events sent that came from a chunk.

### UserProfiles

`UserProfiles.tla` models `UserSessionManager` and the calls `app.py`, the router's
hint and the user tools make to it.

*State.* `profiles` and `contexts` are the two Qdrant collections, `redis` and
`local` the two places of a session, `lock` the per-user locks, `deleted` the ids of
`_recently_deleted`. A `Session` is an object that two requests may share (`heap`,
`obj`), since the local fallback hands out the object itself. `pc` is the await a
request stands at, `prof` its copy of a profile, `then` where it goes on after
`save_user_profile`, which links, merges and tools call.

*Actions.* Identification: `Create`, `Token`, `FindByRouter`, `FindByName`, `Note`,
`Identify`. Linking: `Lock`, `LinkSession`. Merging: `FindPrimary`, `Consolidate`,
`DropSecondary`, `DropContext`, `MergeSession`. The tools: `CallTool`, `Infer`,
`Asked`, `Update`, `Stash`, `Lookup`; the background extraction: `Extract`. Saving:
`Refused`, or `Upsert` and `Context`, as decided by one look at the deletion marks
before the first await; `NotSaved`, `SaveRaises`. Deleting: `Erase`, `EraseContext`,
`DeleteSession`, `Expire`. A profile is its names, its items and its sessions.

*Quiet* items, sessions and deletions: concurrent copies of one profile do lose
updates (section 4), so the properties are about users of which no two copies were
held at a write, sessions whose requests do not overlap, and deletions marked while
no save was past its check. Three sets of history (`stale`, `shaken`, `clean`) say
which; what is checked is that nothing else loses anything.

### RequestRouting

`RequestRouting.tla` follows one request through `expert_router.py`, `app.py`,
`http_routed_entry.py` and `tool_groups.py`: the slot check, the call with its
timeout, the diagnosis and the one retry (`CheckSlots`, `Post`, `Diagnose`,
`Retry`); `Guarded`, the nine guards composed in the code's order, each an operator;
the second opinion (`RoutingConflict`, `Reroute`); `RunAgent` with the extensions and
the pool; `SelectAndEscalate`, the tool selector and the valve that opens the pool.
A message is the set of pattern families that it matches, so every combination of
guards is reachable, not only those that somebody wrote a sentence for.
`Shutdown` closes the shared HTTP client at any time.

### CodeIndex

`CodeIndex.tla` composes five programs over two stores: the sidecar
(`CloneRepos`, `PullSourceRepos`, `TriggerReindex`), the monitor (`MonitorCycle`,
`MonitorSyncs`, `MonitorPrunes`), the reindex endpoint (`StartReindex`),
the indexer that both run, and the health check. `run` holds one state of the indexer for
each of its two callers, for they run beside each other; `work` holds, for each, the
files it has at hand, at most `Workers` of them at a time as `gather` under its semaphore
allows. A file goes through `ReadFile`, `DeleteOld`, `Embed`, `Upsert` (batch by batch),
`ClearGraph` and `FillGraph`; a run through `BeginIndex`, `LoadHashes`, the files,
`FilesDone`, the three queries that resolve the calls of each project (`DeleteCalls`,
`ConnectCalls`, `ForgetPending`) and `Reconcile`. A step is one await, or the queries
between which nothing of another coroutine could make a difference: the functions and
calls of one file come in one step, all of them or, when the service fails, a part.
`up` says which services answer, `conn` which the server holds a client of. A file keeps
the client of its points, a cycle that of the pruning, and an indexer the first driver of
the graph it found; the health check may close any of them meanwhile (`Closed`). A file is
a version number; the points of a version are batches; calls between functions are
calls between files, and the functions of a file are those of the version last written.

### RequestNotes

`RequestNotes.tla` models what runs after the answer: the observer (`Acquire`,
`StoreTrajectory`, `ExtractNotes`, `CheckUser`, `StoreNotes`, `Release`), the fact
extractor (`ExtractFacts`, `NoteFact`, `CheckFacts`, `RememberFact`), the critical
facts (`WriteField`, `KeepLocally`), the two searches that show notes (`SearchNotes`,
`ToolSearch`) and the clean-up (`StartCleanup` ... `EndCleanup`), while users are
created and deleted. What the model replies is a sequence of JSON lists, the last
good one of which counts; parsing, scopes and point ids are operators.

### FileTexts, FileEdit, MemoryFiles, CommandLine, AgentTools

`FileTexts.tla` holds what the editor does to a text: lines, replacement by text and
by numbered chunks, insertion, the clearing of blank lines before a search, all as
operators on sequences of characters, whatever their set is (`Characters`). What is in a
file is not what is read of it: Python's text mode reads CR and CR LF as LF and writes LF
as it is (`AsRead`), so that an edit rewrites the ends of all lines it has read.
`FileEdit.tla` adds the disk, the policies, the
versions and `undo`, one action per kind of command. `MemoryFiles.tla` is the
hierarchical memory with its directories, the reminder, and its headers: a line per tag
between two rules. A tag is what YAML writes in one line, and may have dashes in it, at
its end too (`Tags`).
`CommandLine.tla` takes a line apart, checks the set of its commands and runs it.
What walks over characters, lines, arguments or parts of a path (`AsRead`, `Lines`, `Join`,
`DeletedUpto`, `ImportedUpto`, `TokensOf`, `ParsedUpto`) is a recursive function, so that
the theorems can speak of texts and lines of any length.
The three share no state, so `AgentTools.tla` composes them into behaviours that use
one of them each.

### Conversations and ModelAdapters

`Conversations.tla` models a conversation through one of the four adapters: the
request each makes of the memory (`ChatRequest`, `ResponsesRequest`,
`GeminiRequest`, `ClaudeRequest`), what each makes of an answer (`ChatResponse`,
...), tools, tool choice and thinking (`Params`), the retries (`AttemptFails`), and the
orchestrator's queue of tool calls (`RunTool`, `ToolFails`, `Cancelled`). The planner
(`plan/llm.py`), which the coder, infrastructure and planner routes install, asks its own
model once the memory is too long (`PlannerActs`), adds a plan and marks what follows the
first message of the user as OMITTED, up to a message of the assistant or to the end
(`Plan`, `Cuts`), or raises (`PlanFails`). `opening` and `omitted` count the messages that
stay at the front and those that are left out, `Remembered` is what remains, and
`NotOmitted` what a request is made of. A text is a
sequence of words: marks the code adds are words, so that what is said and what is added
can be told apart (a text that begins with the adapter's own `[Thinking]` cannot). What
users attach and what services answer are constants, with assumptions that say which
fields they have.

`ModelAdapters.tla` adds the schemas that Gemini is sent: a schema without its
`additionalProperties`, whose references are replaced by the definitions under its own
`$defs` (`ExpandRefs`), a definition that was expanded being remembered. It is a module of
its own because its recursion on schemas is out of the prover's reach, and the
conversation does not depend on what a schema says, only on whether it can be made:
`SchemasAssumption` ties the two together.

## 4. Runs

`MC*.tla` and the `.cfg` files instantiate the modules for TLC.

### Passing runs

| run | what is explored | what it shows |
|---|---|---|
| `session_pool` | three requests of one session and one of another, none streaming, two slots, a pool of one entry, eviction, expiry, one restart | a session whose entry is not taken away while in use is serialised, its lock neither leaks nor is stolen, answered turns are on disk, each agent starts from every answered turn, and the whole implements `SerialSessions` |
| `session_streams` | one streaming and three other requests of two sessions, one slot, a pool of one entry, disconnects, a restart that may tear a file; fairness of the event loop | an agent that waited for its slot writes to its own client; no answered turn is lost while the process lives and the entry is not displaced; a request of a session that is not displaced is answered |
| `loop` | all kinds of routes, small thresholds, fairness of the loop | limits and counters, going on costs something finite, every agent ends |
| `stream` | three chunks, all kinds, timeouts, disconnects, failures; fairness of generator and cancellation only | nothing lost, doubled or reordered; the closing events come last; the stream ends without help of the timer; a cancelled agent ends |
| `users` | two requests of one session, one possibly an administrator's; two names that are alike; empty or filled stores; one failing call | identification, links, merges, tools, renames and deletions lose no reported item, no pending item and no deletion by themselves |
| `routing` | eight kinds of message, every reply of the router model, three configurations of backends, up to four escalations; fairness of the request | work is never answered without an agent, a coder's tools stay in reach, no request is held up by the router's server |
| `index` | two repositories, two files of a run at a time, commits, edits, a change of the configuration, an outage of any of the three services; fairness of the loops | the index comes to know what is on disk, and nothing else |
| `notes` | two requests, users deleted and created, one clean-up, one failing call or the shutdown | the clean-up takes no note of a user that had a profile all along and leaves none of one it did not know, personal facts stay personal, critical facts survive an error halfway, permits come back |
| `tools` | the editor on small texts, one with CR LF, with two paths of one name and a locked file; the memory of two sessions, with tags that have or end in dashes; command lines | undo restores, a replacement changes nothing else of what is read, locked files stay, directories hold files, what is written is read, only allowed commands run |
| `models` | conversations of two messages with each service, with and without the planner, every kind of part, answer, outcome and error; schemas with definitions in either order, with entries beside references, and with one that refers to itself | what the planner leaves is sent whole and in order, calls and results stay paired, Gemini's schemas say what the tool's say with no reference left unnoticed |

*Quiet sessions.* The repository promises serialisation for all requests; the
code achieves it for sessions that do not stream and whose entry is not evicted
or expired while in use (`Quiet`). The passing runs and the theorems establish
the promise there; the list below says what happens elsewhere.

### Runs that find a disagreement

`index_projects` checks `ReconcileSparesFiles`, which is the sentence "Detect files in
Qdrant that no longer exist on disk and remove them" (`workspace_indexer.py` 305). TLC
finds it violated: with two projects configured, the monitor indexes
the new one whole and then reconciles the old one's files against the hashes of *all*
files (`_load_existing_hashes` filters by source, not by project), so that the points
it has just stored are taken for those of deleted files. The new project has no data
again in the next cycle, and the same happens for ever.

`index_calls` checks `CallsRecreated`, which is the comment "Delete all existing CALLS
edges for this project (they'll be recreated from _pending_calls)"
(`memgraph_client.py` 304-305): when no run is under way, the calls between functions in
the graph are in it or still pending. Two files call each other. TLC finds an edge
missing, and nothing left to make it from: one run has made the edges, the other clears a
file and writes its functions and calls anew, and then the first forgets what is pending.
A single run loses edges too, those of the files it has not indexed: the first query
deletes the edges of all callers of the project, the second makes those that are pending.

### Disagreements without a run

The models contain these too; no run is spent on them. Sessions and streams:

- `session_pool.py` 9 says "Per-session lock to serialize requests (the orchestrator is
  not concurrent-safe)"; the `finally` clause of `app.py` 1349 releases a streaming
  request before its agent task has run, so two agents can run on one session.
- `session_pool.py` 93-97 swaps the adapter per request; an agent that waits for its slot
  captures it later, and then writes into the response of the next request.
- `app.py` 1350 says "Always release session (save state + unlock)"; `release` returns
  early when the session has left the pool (`session_pool.py` 107), the entry stays
  locked, and whoever waits for it waits for ever.
- `session_pool.py` 8 promises memory "persisted across requests in the same session"; a
  streaming turn is saved by `app.py` 1351 before it exists, and a restart loses it.
- `session_pool.py` 144-157 evicts an entry in use, and the next request of the
  session gets a fresh one and runs beside it (without any streaming).
- `core/memory.py` 398 overwrites the memory file in place; after a crash inside
  the write, `acquire` swallows the load error and the session starts empty
  (`RestartInSave`).
- `streaming.py` 83 says "Check for exceptions"; the sentinel put by the task's `finally`
  clause usually arrives first, and the branch at 108 ends the stream without one.
- `io_adapter.py` 147-150 discards drafts so that they are not duplicated; in a
  stream they have been sent already (`AgentClearsResponse` leaves `queue` alone).

The loop and the routes:

- `dual_model_orchestrator.py` 726-728 extends the limit when "still making progress (no
  consecutive errors)"; 729 looks at a counter that the breaker has just reset.
- The docstring at 1362-1367 says that synthetic messages are removed before returning to
  the session; only the two normal ways out do it. After any other (out of iterations,
  a failing call, a hook that raises) the release saves them with the memory, and the
  next request reads them.
- 169-170 say that "the 80B always synthesizes the final response"; 545 suppresses a
  repeated text although its first copy may have been cleared.
- 70-72 and 506-507 call two identical texts a stall; the code (268-270, 521-522) needs
  three.
- 31-36 say the loop resets after a stall so that the fast model can be used
  again; 294-301 reset the depth counter only, and it stays out.
- 1039 says "fall through to completion branch"; the statement is inside an `elif`
  of the chain that holds that branch (`SkipNudge`), and the model is called again.
- `models.py` 212-213 documents `circuit_breaker_fired`; `http_routed_entry.py` 254
  reads it from a flag the breaker itself resets (791).
- `tool_groups.py` 385 "Returns extensions for tool groups that the CODER route has but
  the current route does not"; an expert without an entry is given the coder's groups
  enabled (329) and in the pool (408).

Users, notes and the index:

- `session_manager.py` 1811, 1843 and 864 write back a profile read before an await:
  of two concurrent updates one is lost. A save past its look at `_recently_deleted`
  (1696) brings a deleted profile back.
- A file of several batches may keep a batch of an old version: an interrupted index
  stores some of them, and the hash that says "unchanged" is that of any point
  (`workspace_indexer.py` 194, 213).
- `_parse_notes_json` drops the scope and the project of a note, though the prompt
  (60-95) asks for them and the search promises project scope.
- A note's id is that of its session and content, a fact's that of the extraction:
  extracting facts again stores them twice.
- Critical facts stored in the process during an outage are not read once Redis is back.

Tools and chat models:

- `file/history.py` 66 "Restore the previous version of the file."; 22 names backups by the
  last component of the path and the number of versions, so `a/x` and `b/x` share
  them. The undo of a create fails, and an edit that fails leaves a version that the
  next undo restores without effect.
- `command_line/base.py` 79 declares `_last_command`, which nothing sets: a restart
  (410-420) always fails.
- `delete_memory` says (89) that a directory is deleted with its children; `unlink` of
  it raises (`hierarchical/extension.py` 496).
- A content without tags that begins with `---` is taken for a header when read, and a
  tag that ends in `---` cuts its header short (`hierarchical/utils.py` 21): the rest of
  the header becomes content. Nothing limits what a tag may be.
- `read_text` and `write_text` (`file/utils.py` 488, 503) make every CR and CR LF of a file
  an LF, whatever part of it is replaced.
- Claude's last system message replaces the whole prompt (`bedrock/anthropic.py` 98) and
  Gemini sends the first only (`gemini.py` 71-80), so the message with which the solo
  mode goes on (`solo/base.py` 173-180) replaces the prompt or is lost.
- The responses adapter never reports MAX_TOKENS when the status is set
  (`responses.py` 846-856) and keeps the first item of a message's content only; a
  citation that starts at 0 and a generated image are refused by the response types.
- Gemini's calls without an id get the tool's name as id, which parallel calls share.
- Recursive definitions of a schema end in a RecursionError, and a reference in an entry
  beside another reference is sent as it is (`google/utils.py` 185-199). Malformed
  arguments of a call raise in the chat adapter and are `{}` in the other; documents become "[Unsupported content
  type]" in the chat adapter.
- Retries name the builtin ConnectionError; the clients of the services raise their own.

### Bounds, and why they are enough

- Sessions: three requests of one session give a holder, a waiter and a
  newcomer, one of another session gives eviction; a pool of one entry makes
  every new session evict. `session_streams` has two requests in each session and
  a single slot, so that an agent waits for it while its session is asked for
  again; time stands still there (expiry removes entries as eviction does, and
  `session_pool` has both). Two ticks suffice for one expiry and a use after it,
  one restart for a turn before and a turn after. The three
  requests of one session in `session_pool` differ in nothing, and all its
  properties are safety: they form the symmetry set `MCSymmetry`. (The refinement
  mapping's `CHOOSE` picks from a singleton wherever `SerialSessions` promises
  anything.) `session_streams` checks liveness and has streams, so none there.
- Loop: `loop` has thresholds of 2 or 3 instead of 3 to 8 and an absolute limit
  of 5, so that every threshold is reached before the limit; their order
  (hint before stop, bump below the absolute limit) is the code's and is the
  assumption `ThresholdsAssumption`.
- Stream: three chunks hold a draft, its replacement and an untagged chunk; the
  generator's behaviour depends on the head of the queue only.
- Users: two requests are what an interleaving of two copies takes, and they share
  their session and its object. Two names that are alike without being confused at
  once exercise the question back; two users, those that exist or those that are
  created. `MaxFaults = 1`: a failing call anywhere, and what follows succeeds.
- Routing: a message for each guard and for each pair that two guards or routes
  claim; estimated steps below, inside and above the code's range; four
  escalations, one more than open the valve.
- Index: one change and one outage, but at any moment of a run of the indexer that
  works on two files in two batches, two of them at a time instead of five (`Workers`).
  Only the second version of a file has functions (`HasFunctions`), so that both ways of
  the graph are taken. One reindex request at a time. In `index` one project is
  configured at a time, since both together are the violation of `index_projects`;
  `index_calls` has two files of one project, as edges do not leave a project, and
  neither outages nor batches, which its violation does not need.
  Projects with a hyphen in their name (`Hyphened`), whose calls are never
  resolved, are left out of the runs.
- Notes: one permit instead of two, so that two requests compete; a user is looked up
  again after one fact instead of three; one clean-up; one failing call or the
  shutdown; a user deleted and created again (`MaxUsers = 2`).
- Tools: texts of at most eight characters and three edits give a change, an undo and a
  change of another path of the same name; the memory has a file on each of
  three levels and three writes; the reminder comes after 2 calls instead of 25 and
  a snooze takes back 1 instead of 10; argument lists of up to three.
- Models: two messages of a user, up to seven calls, one retry instead of five. A memory of
  nine messages may be too long for the planner (`PlanFrom`; in the code it is one of
  more than 100k tokens or 1000 messages, whichever comes first), and it may cut anywhere
  its rule allows: conversations with two plans, and cuts that keep calls, occur. Python
  gives up a recursion after twelve nested calls (`Depth`), which is more than any
  schema of the run without one needs.

`CHECK_DEADLOCK FALSE` is set where the system stops by itself: all requests
answered, a loop that has ended, a stream that is closed, bounds used up.

### Fairness

- `SessionServer!FairSpec`: weak fairness of every coroutine step of a request.
  The event loop runs what is ready; `asyncio.Lock` and `Semaphore` are first
  come first served, which the queues model. That an agent ends is what
  `loop` shows of the loop itself (`Terminates`). No fairness of clients, time, expiry or
  restarts.
- `AgentLoop!FairSpec`: weak fairness of the loop's next step, that is: calls of
  models and tools return, with an answer or an exception (they have timeouts).
- `SseStream!FairSpec`: weak fairness of the generator and of the delivery of a
  cancellation. The agent need not end and the timer need not fire.
- `RequestRouting!Spec`: weak fairness of the request's own steps; every call has
  a timeout. None of the agent, its escalations or the shutdown.
- `CodeIndex!Spec`: weak fairness of monitor, reindex, health check and sidecar, which
  are endless loops of calls with timeouts, and of the recovery of a service; strong
  fairness of a clone that succeeds, for a repository that can be cloned is cloned in
  the end. No fairness of changes and outages.

## 5. Proofs

TLAPS checks the following for all values of the constants.

**`SessionServerProofs`** from `RequestsAssumption` and `BoundsAssumption`.
`TypeOK` is inductive by itself. `QuietSessionsSerial` is not: that two agents
do not run follows from there being one *holder* of the session, which needs
that the holder has the lock of the entry in the pool (so that nobody else
gets it), that whoever waits or holds does so on that entry (`InPool`), that a
lock that is held has a holder (so that releasing it is right), and that a
non-streaming agent runs only inside its handler (`AgentInHandler`). Their
conjunction with `MemoryAhead` (the file never runs ahead of the entry, and a
released turn is in it) is `SessionInv`. The proof has one lemma per conjunct,
with a step per action; `MemoryAhead` is claimed when writes are not torn.
`Capacity` is proved separately by counting the set an action adds to.

`UndisplacedTurnsKept` is about streaming sessions too, which `SessionInv` says little of.
It follows from `KeptInv`: an agent that is not ended works with the entry that is in the
pool (`AgentInPool`), and a turn that ended is where the next request will look
(`EndedFound`, as long as the process is the same). `SeesAnsweredTurns`, an action
property, follows from `SessionInv` in the step in which an agent starts.

The refinement `ImplementsSerialSessions` needs `RefinementInv`: what is in a memory or
a file is a turn that ended (`TurnsEnded`), and the memory of a quiet session's entry is
ahead of the file by the turn its handler is about to save, and no other (`MemoryExact`).
Then `Release` maps to `Commit`, the start of an agent to `Begin`, what takes a session
out of the promise to `Abandon`, and every other step to a stutter; the `CHOOSE` of the
mapping is resolved by `OneHolder`. `DurableTheorem`, `SeesAnsweredTheorem` and
`RefinementTheorem` have `~TornWrites` as hypothesis, as a torn file loses what it held.

**`AgentProofs`**, of the loop, from `ThresholdsAssumption`. The inductive invariant is
`TypeOK /\ LoopInv`. `ResearchDepthBounded` needs `FastInv`: calls in a row are at
most the depth counter while the fast model is in play. `SpokenIsAnswered` needs
`TextInv`.
`GoingOnCosts`, an action property, follows by measuring the reasons to go on
(`Patience`) branch by branch.

**`AgentProofs`**, of the conversation, from `InputsAssumption`, `OutcomesAssumption` and
`AnswersAssumption`: what users, tools and services may say, in any number and of any
length. `ConversationKept` and `CallsAnswered` are about the request, `ConversationInv`
about the memory it is made of: its messages have one part each, of a kind their role may
have (`Held`); what the service would be sent of it is `Paired`, and so is what it would be
sent of its end from any message on at which the planner could stop (`EndsPaired`); its
opening has no calls (`Plain`); a plan stands behind what is OMITTED; a call waits whenever
tools run, and the request in work is the one made of what is remembered. The set of words and
names that occur grows with every answer, so the invariant says that there is some set
(`Stored`). The argument has three parts. Each adapter is a map from a message of the
memory to the messages or items it becomes, flattened (`MapFlat`); for Claude, who is sent
joined messages, the parts in a row are still those of such a map (`JoinedSaid`). What is
true of single messages is therefore true of all: what a message says survives its
conversion (`ConversationSent`), a call stays one part and a result one part with at most
a note behind it (`Carries`, `Tells`). So `Paired` of a memory is kept by messages without
calls (`AppendPlain`) and by a call with its result (`AppendExchange`), and the actions add
nothing else: a call whose batch was cut short is not in the memory yet. What remains
after a cut is an opening without calls and such an end (`PlannedCat`,
`StoredRemembered`): no result can be the first message of an end (`Begins`), since the
planner goes on to a message of the assistant. That the memory
keeps its types needs what each of the four adapters makes of any answer
(`AnswerContent`).

**`SseStreamProofs`**, for any number of chunks. The lemmas on `Collected` say how it
grows with an entry at the end and shrinks with one at the front; its recursive function
exists by induction on the length (`Induction`, below). `NothingLost` is inductive only
with `SentinelLast`: the agent puts its sentinel once, last and when it ends, so that a
generator that leaves its loop leaves nothing in the queue. `CompleteAtEnd` follows
from where the generator stands once it has left (`Left`) and once it has sent an event
that ends the response (`HasEnd`).

**`UserProfilesProofs`** from the assumptions of its module, for any users, sessions and
requests. `IInv == TypeOK /\ ReqsOK /\ DelInv`: `ReqOK` says of every await what the
locals of a request are there (who holds a copy of whom, when a secondary profile is
being merged), `DelInv` that no save of a user deleted for good is past its check of
`_recently_deleted`; `DeletedStaysDeleted` follows. The two properties of quiet
users and sessions need four parts more: `LocksOK`, that a lock is held by the request that
links its user; `SessOK`, that two requests share a `Session` object or a session
only if it is shaken; `NotedOK`, that what was noted is in the stored session or on its
way, in the object or in the copy of the linking request; and `ItemsOK`, that copies about
to be written and profiles have what their users were promised, or are being merged into
one that has, and that a deleted user was promised nothing. `QuietInv` is the whole.

**`RequestRoutingProofs`**. `IInv` is `TypeOK`, `CoderToolsInReach`, and two parts:
`DecisionGuarded`, that from the guards on a decision to answer or to ask back is about a
message without work in it, whichever of the nine guards made it and whatever the
second opinion did to it; and `EscalationsCounted`, that the third escalation
empties the pool. One lemma for each kind of decision says what the guards make of it.

**`CodeIndexProofs`** proves the types of the five programs, with one lemma per step of the
indexer: what a run, its files and its clients hold together, however many files are at
hand. The module's other properties are temporal or false.

**`RequestNotesProofs`** from `EndingsAssumption`, `NoneAssumption`, `RequestsAssumption`
(requests are finitely many: permits are counted) and `ReadersAssumption`.
`PermitsAccounted` is proved by counting. `CriticalFactsStored` needs `StoreInv`:
during a write all but what is left is in Redis. `CleanupCollects` and the action property
`SteadyNotesKept` need `CleanupInv`, which says what the clean-up has read: once it has the
profiles, it knows every user that existed throughout; once it has the notes, an orphan
that is not in its list is newer than they are.

**`AgentToolsProofs`** for texts over any characters, any policies, paths, memory trees
and command lines. `LockedFilesKept` and the action property `UndoRestoresOwnName` need
`FileInv`: the history of a path has one entry for each version saved, a backup under a
number of its own, which is the saved text if no other path has the name (`HistoryOf`);
and a locked file has no version to go back to (`LockedOf`). `ReplaceKeepsRest`, from
`TextAssumption`, `FilesAssumption` and `CommandsAssumption`, needs that what is on disk
and in the backups is a text, which every command and every undo keep (`TextsInv`). The
rest is about texts: the lines of two texts with the end of a line between them are the
lines of both (`LinesParted`), and lines that are joined are the lines of the text
(`LinesOfJoin`), both by induction on characters and lines; so a match that begins and
ends with a line has whole lines before and after it (`FullLinesParts`, `LinesAfter`,
`LinesBefore`), as many as the copy without blanks says (`ReplacedFullLines`).
`FoldersHoldFiles` and `WrittenIsRead` are part of
`MemInv`; what a deletion leaves when it stops half way and what an import brings are
proved by induction on the list of parts. `OnlyAllowedRun` is about commands found in a
line of any length: that the walk over its arguments misses none is an induction on them.
What is read of a text has no CR and is read as itself (`AsRead` and its lemmas), and what
is read of a header and a content is the header and what is read of the content; a tag
that does not end like a rule cannot hide one (`Misread`), which is why `WrittenIsRead`
excludes it.

*Induction.* The library's theorems on induction take an operator as parameter, which the
provers cannot instantiate. `LeastNat` gets the least element of a set of numbers from the
well-foundedness of `<`, and `Induction` is stated from it for Boolean functions on `Nat`,
which are values: this is what recursive functions are reasoned with here.

What stays with TLC:

- Liveness (`UndisplacedRequestAnswered`, `Terminates`, `StreamEnds`, `CancelStopsAgent`,
  `RequestIsHandled`, `IndexCatchesUp`), because fairness and ENABLED are out of the
  prover's reach.
- `SchemasClosed` of `ModelAdapters` (section 2).
- `ReconcileSparesFiles` and `CallsRecreated`, which are false (section 4).

`TypeOK` of every module that has a proof, `SessionInv`, `Capacity`, `LoopInv`,
`ResearchDepthBounded`, `ConversationInv` and the other inductive invariants are proved and
in no run: the proofs say more of them than a run could.

## 6. What is not modelled, and why

- One request across all modules. `RequestRouting` says what becomes of a message,
  `UserProfiles` what it does to users, `SessionServer` when its agent may run,
  `AgentLoop` how the agent ends, `SseStream` what the client sees, `RequestNotes`
  what is left behind; each takes the others' steps as its environment's.
  Cancelling a non-streaming handler: the server does not do it.
- Of saving: an exception of `save` (disk full) and an unreadable file other
  than a torn one. Storage and artifacts are saved beside the memory on the same
  path; only the memory is modelled. Message trees and visibility are not.
- Of the loop: no property says that what is put in on the user's behalf is gone in the
  end; the code does not achieve it (section 4), and an expert's advice is meant to stay.
  `OrchestratorInterruption` is not modelled: the extensions of the HTTP routes
  have no tag handlers and no raw output parser, so nothing raises it. Token
  estimates (`largeContext` is a nondeterministic, monotone flag) and the wording
  of nudges are abstracted.
- Of the stream: keepalive comments are not recorded; `io.error` has no caller.
- Of routing: the regular expressions (a message is the set of families it
  matches), the prompts, and the stripping of data blocks.
- Of users and notes: statistics, listings, the wording of contexts, and the patterns
  that find critical facts.
- Of the index: the removal of a deleted file from both stores is one step, and so is the
  creation of the collection with the first points.
- Of the tools: directory views, the escaping of a tag's content, the repair of tool
  names, tags of the memory that YAML writes in several lines (longer than eighty
  characters, or with an end of a line in them), the simple memory, and the persistent
  terminals of pexpect.
- Of the chat models: usage and token counts, the marks of the caching hook
  (`caching/base.py` 58-80, metadata only), and the managers that pick and build a
  client. The request of the planner to its own model is a choice between a plan and a
  failure; that it asks again for ever while its model gives no plan is not modelled.
- Of `on_before_tool_use`: no extension that the routes install raises or waits in it, so
  that call and result go to the memory in one step (`RunTool`). `TodoReminder`
  (`analects/code/reminders.py`) would raise; nothing installs it.
- Whole components: those with status `not_modelled` in PROJECT.json, with the
  reason. Pure I/O (searches, fetches, parsers, dashboards) is out of scope.

Some behaviour that is hard to test has no property here, mostly because it is
plainly as the code has it and nothing in the repository says otherwise:

- `streaming.py` 114: a client that is lost while the generator stands at a yield drops it,
  and the agent runs on (`DisconnectSending`).
- `io_adapter.py` 152: buffer and queue are two copies of the output, and clearing
  reaches one of them.
- `app.py` 1002: direct answers and questions back return without saving the user
  session that was changed.
- `session_manager.py` 2271: two requests of a new user may create two profiles.
- `app.py` 1354: DELETE of a session races with a save in flight, which writes it again.
- `app.py` 115: the shutdown saves no session.
- `app.py` 441: an error of the store is taken for a project without data, which is then
  indexed from nothing.

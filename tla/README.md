# Wenqu: a verification development

Wenqu (问渠) is a chat application for teacher training. A React application in
the browser owns the conversations; a FastAPI server runs one agent per request
and keeps nothing between requests except files in workspaces. This directory
holds TLA+ specifications of the program, the TLC runs that check them, and
theorems about them that the TLA+ proof system checks.

    tlc -workers 2 -config runs_safety.cfg MCChatRuns.tla
    tlapm ChatRunsProofs.tla

`PROJECT.json` lists every run, the source lines behind every definition, the
hazards, the findings and the mutants described below.

## 1. The system

### How a request travels

1. The browser (`web/src/App.tsx`) posts `/api/chat` with a session id, the new
   message, the `runtime_context` it holds for the conversation (messages and
   active skills) and the provider's configuration.
2. `chat()` (`server/api/chat.py`) takes the session's slot in the
   `RunCoordinator`, builds a request-local runtime from the posted context
   (`server/request_runtime.py`), binds the agent's abort to the slot's entry and
   returns a streaming response.
3. `_chat_stream()` pulls events from the agent and writes them as SSE. It ends
   with a `conversation_state` snapshot of the store, then `done`; its `finally`
   block closes the runtime and gives the slot back.
4. `AgentCore._stream` (`server/agent/core.py`) injects skills, adds the user's
   message, and loops: compact the context, ask the model, store its turn, execute
   its tool calls one by one, store their results.
5. The browser stores the snapshot as the next request's context, downloads what
   `export_file` announced, and may at any time stop the run: it posts
   `/api/chat/abort` and closes the stream.

### Components

| Component | State | Operations | Hard behaviour | What makes it correct |
|---|---|---|---|---|
| Run coordinator, chat endpoints (`api/chat.py`, `api/services.py`) | `_active`: (workspace, session) -> `ActiveRun`; per request: position in the handler, `terminal`, `abort_event` | start, bind, stream, abort, finish | requests, aborts, disconnections and cancellations interleave at every await; the abort handler is called outside the lock | one run per session; nobody removes or aborts another's run; the wire order state, done; the slot comes back |
| Agent loop (`agent/core.py`) | turn, consecutive failures, `force_final`, images to insert, cancel flag | inject, prepare, model turn, execute, end turn | early exits anywhere; a provider that never answers; limits counted across turns | protocol of calls and replies; limits; abort ends the run |
| Conversation store (`agent/memory.py`) | messages and active skills | add, replace, inject, remove | redaction of a removed skill | active skills and injected texts agree |
| Context manager (`agent/context.py`) | none | prepare | compaction of compacted contexts, summary failures, budgets smaller than what must stay | calls keep replies, skills stay, the newest group is sent |
| Request runtime (`request_runtime.py`) | provider clients of a request | create, snapshot, close | a store rebuilt from what a browser sends | injected texts come from the catalogue only |
| Skills (`agent/skills.py`, `agent/tools/skill_tools.py`) | catalogue (constant) | inject selected, load, remove | a model loads and removes the same skill in one turn | default skills stay in force |
| Tool registry (`agent/registry.py`) | tools (constant) | execute | timeouts of work that cannot be interrupted | an answer for every call |
| Document exporter (`services/document_exporter.py`, `agent/tools/export_file.py`, `api/files.py`) | files of a workspace | export, resolve, download | threads outlive their callers; disk errors; crashes between two files | an announced id downloads a complete file |
| Browser application (`web/src/App.tsx`, `api/client.ts`) | conversation cache, save queues, stream controller | send, handle events, stop, select, delete | saves queued behind each other; a stream that outlives its conversation | the context sent is the one last received |
| Browser storage (`storage/local.ts`) | IndexedDB records | load, save, rename, delete | read-modify-write across await | no lost update, no resurrection |
| SSE parser (`api/sse.ts`) | buffer | feed | chunk boundaries | events do not depend on them |
| LLM client (`agent/llm.py`) | SDK clients | stream, complete | vision fallback | retried once, without images |
| File tools (`agent/tools/filesystem.py`) | workspace files | read, write, edit, search | concurrent edits, ambiguous matches | an edit applies fully or not at all |
| Legacy storage (`server/storage/`) | SQLite and a side cache | sessions, messages, skills | read-through cache against writes | the `ConversationStore` port |

The calculator, document formats, HTTP schemas, workspace resolver, application
composition and the user interface are pure functions, start-up code or
rendering; `PROJECT.json` gives the reason for each.

## 2. The modules

| Module | Models | Kind |
|---|---|---|
| `RunSlot` | what `RunCoordinator` promises: an exclusive slot per session | abstract specification |
| `ChatRuns` | `chat()`, `_chat_stream()`, `abort_chat()`, `RunCoordinator` | detailed specification, implements `RunSlot` |
| `ChatRunsProofs` | theorems about `ChatRuns` | proofs |
| `Positions` | the members of a list at some of its positions | operators, extended by `Conversation` and `FileTools` |
| `Conversation` | messages, `InMemoryConversationStore`, `_trusted_messages` | operators |
| `ContextWindow` | `ContextManager.prepare` | operators, extends `Conversation` |
| `ContextHistory` | a conversation compacted again and again | specification, extends `ContextWindow` |
| `ContextWindowProofs` | what one compaction computes, with the lemmas about picking, joining and counting | proofs |
| `ContextHistoryProofs` | theorems about `ContextHistory` | proofs |
| `AgentLoop` | `AgentCore._stream` between a browser, a provider and tools, over several requests | specification, extends `ContextWindow` |
| `AgentLoopProofs` | theorems about `AgentLoop` | proofs |
| `FileTools` | what read, write, edit, grep and find compute, and the registry's truncation | operators |
| `ToolTurn` | the inside of a turn: the provider's stream, the assembly of calls, the registry, the workspace that runs share | specification, extends `FileTools` |
| `ToolTurnProofs` | theorems about `ToolTurn` | proofs |
| `DocumentExports` | the exporter's threads, their callers, downloads and crashes | specification |
| `DocumentExportsProofs` | theorems about `DocumentExports` | proofs |
| `BrowserConversations` | the page with its cache, queues of saves and one stream, over IndexedDB | specification |
| `BrowserConversationsProofs` | theorems about `BrowserConversations` | proofs |
| `ConversationPort` | what the agent may expect of a conversation store | abstract specification, extends `Conversation` |
| `LegacyRows` | the tables of the SQLite store, what each transaction does to them, and the answers that are cached | operators, extends `Conversation` |
| `LegacyStore` | readers and writers of that store around its two caches | detailed specification, implements `ConversationPort` |
| `LegacyStoreProofs` | theorems about `LegacyStore` | proofs |
| `MC...` | instances for TLC | |

`Conversation` is the meeting point: its operators are what `AgentLoop` does to its store,
and what `ConversationPort` asks of `LegacyStore`.

Some operators are marked *mutant of*: they are plausible bugs of the operator
they stand beside. No specification uses them; replacing the original by the
mutant makes the property that `PROJECT.json` pairs it with fail, which shows
that the property can fail.

### ChatRuns

The event loop runs one task at a time, so a step is what happens between two
awaits. `stage[r]` is the await at which request `r` stands:

| Stage | Code |
|---|---|
| `starting`, `binding`, `refusing` | `chat()` after `runs.start`; waiting for `bind_abort_handler`; waiting for `finish` after a failed `create` |
| `ready` | the response is returned, its generator not entered |
| `pulling`, `gotEvent`, `gotDone` | waiting for the agent; waiting for `is_disconnected()` with an event in hand |
| `sending`, `errorSent`, `stateSent`, `doneSent` | suspended at a yield |
| `snapshot` | waiting for `runtime.snapshot` |
| `orphaned` | suspended at a yield of a response that was cancelled |
| `closing`, `finishing`, `ended` | the `finally` block: `runtime.close()`, `runs.finish()` |
| `dropped` | cancelled where no code of the generator runs any more |

`active` is the table `_active` with the request standing for its `ActiveRun`;
`RequestId` says which id a run carries, so `finish` and `request_abort` compare
ids as the code does, and ids may be shared by requests. The lock of
`RunCoordinator` is never held across an await, so its sections are atomic.
`request_abort` is two steps: `MarkAbort` under the lock, `SignalAgent` after it.
The framework may cancel a response at the stages in `CancelPoints`; only a
response whose client left is cancelled. The agent is seen from outside as
`fresh`, `running`, `cancelled` or `over`.

### Conversation, ContextWindow

A message is a record: role, metadata kind, skill, ids of its calls, the call it
replies to, error flag, whether a `runtime_context` block is in its text, size and
cut flag. Texts are sizes. `Tokens` is `count_messages` up to a scale.
`RemoveSessionSkill` deletes a user's injection and redacts a tool's.
`TrustedMessages` is the reconstruction of a store from a browser's context.
`MessageGroups`, `Summarised`, `DropGroups` and `CutTexts` are the stages of
`prepare` in their order.

### ContextHistory

Grows a conversation by texts, selected skills and tool turns with up to
`MaxParallel` replies (results or loaded skills) and applies `Prepare` at any
point. It reaches more conversations than the loop alone would in the same bound.

### AgentLoop

One conversation. `saved` is the browser's context and `store` the request's
store; `Submit` builds the second from the first, `Deliver` is the
`conversation_state` event, `LoseStream` a response that never completes. Between
them the loop stands at `injecting`, `turn`, `model`, `calls`, `executing` or
`over`. `Answer`, `FinalAnswer` and `CallTools` are a completed provider turn by its
three outcomes, `Fail` an exception, `ExecuteCall` one tool with its effect on the
store. `LeaveCancelled` covers the checks of the cancel flag and the awaits that
race against it. `ProviderIds` says whether the provider names its calls, and
`StrictFinal` whether a provider that is offered no tools calls none.

### DocumentExports

An export is its fresh file id. `thread[e]` is where
`DocumentExporter.export` stands between two system calls, `caller[e]` what the
agent loop knows. `GiveUp` is the registry's timeout or an abort: work that waits for a worker
is withdrawn, a thread goes on. `WriteFails`, `CleanupFails` and `Crash` stop a thread at
any of its writes. A download reads the manifest, looks for the artifact and opens
it in three steps, which interleave with the threads. One workspace is modelled:
another one has another directory.

### FileTools, ToolTurn

`AgentLoop` says what a turn does to the conversation, `ToolTurn` what happens inside it.
Runs of several sessions share a workspace (`files`), and a run is a record: `stage` is
where it stands.

| Stage | Code |
|---|---|
| `waiting` | not begun |
| `asking`, `retrying`, `streaming` | `OpenAICompatClient.stream`: before the request, between the refused request and the one without images, in the stream |
| `calls`, `announced` | `_stream` between two calls; the `tool_call` event is sent, the tool's task not started |
| `writing`, `replacing` | inside `_atomic_write`: the temporary file is open, or written |
| `answered` | the tool's result is there, not yet stored |
| `over` | with the reason in `finish` |

The provider follows a script: the calls of each turn, cut into pieces of names and of JSON
texts. `Receive` takes the next piece of any call, so a stream mixes them in every way, and
`EndStream` or `ProviderFails` may come at any moment. `Collect` is the buffer per index,
`Assembled` the calls made of it, `Parsed` the parsing of their arguments. The executors of
the file tools contain no await, so a run whose tool writes holds the event loop (`loop`)
and only `Crash` comes in between. A text is a sequence of symbols, with the ends of a
line among them (a newline, a lone carriage return) and with bytes that are no UTF-8, which the
tools read as a replacement symbol (`Decoded`); the limits on output are constants. `Simultaneous`, `PageHolds`,
`GrepHolds` and `FindHolds` say what the tools promise, without the code's cursors and cuts.

Images that were read in a turn are shown from the next turn on, behind the reply that they came
with. What a compaction leaves of the conversation is `AgentLoop`'s subject, so here `BeginTurn`
chooses whether one of these replies is still in the prepared context (`kept`): images whose reply
was dropped or summarised are never sent again.

### BrowserConversations

Page code runs to its next await. `queue` holds the operations on IndexedDB in
the order of their calls: `Commit` is the end of the next transaction, and the actions that begin
with `Heard` are the continuation of the page code that awaited it, so a transaction may be
committed long before the page knows, and the page may be closed in between (`Reload`).
`boot` is the loading of the page: `listing`, `waiting` for the server's skills and
configuration, `done`. `saves[s]` is the chain of `persistConversation`: `Persist` caches, shows
and enqueues, `Saved` starts the next save. `ref` is the conversation that React last rendered;
after a click the effects of a change of `active` run at once (React flushes them
before it returns to the event loop), after a change from page code some time later
(`Render`), in any case before the next click. `sender` is the running call of
`sendMessage`:

| Stage | Code |
|---|---|
| `idle` | no call |
| `creating` | awaits `createSession` |
| `provider` | the conversation to continue is chosen; awaits the provider's configuration |
| `naming` | the message is shown and saved; awaits the rename to a title made of it |
| `streaming`, `stopping` | reads the stream; the stream is aborted, the handler has not noticed |

A conversation is a timeline, one entry for each exchange, and a runtime context, one
mark for each exchange that it contains. `past` records what happened and
guards nothing but the choice of fresh session names.

### LegacyRows, LegacyStore, ConversationPort

`main.py` no longer wires this store, but `server.storage` offers it with its adapter, so it is
modelled as what it is: a second implementation of the agent's port. A task is one call of
`SQLiteStore`:

| Step | Code |
|---|---|
| `answered` | Redis was asked, its answer not yet taken |
| `query`, `rows` | a miss: before the first SELECT, and between the two of `list_messages` |
| `filling`, `storing` | `SideCache.set`: before the process's own cache, before Redis |
| `sweep`, `sweeping` | after a commit: before the next prefix is deleted from the own cache, from Redis |
| `listed` | the agent has the list that `prepare_context` condenses |
| `abandoned` | the agent was cancelled, and its thread is about to put the condensed list in place |

A write is one transaction under the lock, so one step that also computes which cached
answers it changed. `Expire` is a lifetime or an eviction, `RedisFails` a call that raises,
`Restart` the end of the process.

A caller may be cancelled at any await. `CancelRead` stops a read, `CancelSweep` leaves what is not
yet deleted. `_write` awaits a thread (`sqlite.py:225`): when its caller is cancelled the lock is
given back, the thread commits all the same, and the invalidation that follows the call never
happens. `LateWrite` is that commit; for a list that an agent replaces it is `AbandonReplace`,
after which another agent may work on the session, and later `LateReplace`. A Redis command whose
caller is cancelled takes effect at its step or, when the command was not sent, not at all.
 Keys are pairs of a kind and its parameters, so a prefix
is a set of keys. `suspect` records the keys that a read overtook or that a fault or a cancelled writer left
behind. In `ConversationPort` the state is the messages and active skills of each
session and the steps are those of `Conversation`; `Port` maps the tables to it with
`conversations <- AgentView` and `overtaken <- Overtaken`, the sessions of which
some agent holds a list that is out of date: only there may a replacement change which skills are
active (`OverwriteIn`).

## 3. The runs

| Run | Question | States |
|---|---|---|
| `runs_safety` | two requests of one session, two aborts that name their request, cancellation at every await: is the table an exclusive slot, is the wire order kept, do aborts reach only the run they name? | 2.0 million |
| `runs_liveness` | does an abort free the slot when the provider never answers, and does every run when it answers? | 190 000 |
| `runs_leak` | violated: can an entry outlive its request? | |
| `agent_request` | one request, three turns of up to two, one and one calls, four kinds of tools, a provider that does not name its calls: bookkeeping of skills, protocol, limits, and that it ends | 230 000 |
| `agent_rounds` | two requests under a budget that makes most turns compact: do they survive the round trip through the browser? | 420 000 |
| `agent_identity`, `agent_dangling` | violated: see findings | |
| `context_history` | conversations of up to six messages, compacted again and again, with and without a summary | 70 000 |
| `tool_turn` | two runs in one workspace, each with two calls or two turns: every mixing and cutting of their streams, aborts, an endpoint without images, a disk error or a crash | 490 000 |
| `exports` | three exports on two workers, a download, a crash, disk errors and timeouts anywhere | 1.9 million |
| `browser` | three acts in a browser with one conversation: messages, clicks, a failing transaction or a reload, against loads, saves and a stream | 2.3 million |
| `legacy` | an agent and a browser on the legacy store, with and without Redis, one Redis failure, cancelled writer or restart: what may the caches hold, and do the tables implement the port? | 560 000 |

### Properties

*ChatRuns.* `EntryIsOwn` (an entry is its request's own from start to finish; one
run per session follows), `StateBeforeDone` (at most one `done`, last, and directly after
the snapshot, on every path), `CancelledWasAborted` (the handler called outside the
lock never cancels another run's agent), `NamedAbortHitsItsRun`, `AbortSilences`
(nothing of the agent is forwarded after an abort, and the stream ends as aborted),
`ImplementsSlot` (refinement of `RunSlot` with `holder <- active`), `AbortFreesSlot`
and `SlotIsFreed` (liveness), `OnlyExecutingTracked` (violated).

*AgentLoop.* `SkillBookkeeping` (an active skill's text is in the conversation
exactly once, a removed one's never), `DefaultsInForce`, `ProviderViewClosed` (on an
accepted history, what the provider is shown has every call followed by its
replies, after compaction and with images inserted), `FinishedRunsAreClosed` (a run
that completes or stops at a limit answered every call and leaves an accepted
history), `RetryLimitHolds` (the counter equals the failures that the conversation
itself shows at its end), `AbortEndsRun`, `RunEnds`; `DefaultsKeepIdentity` and
`ProviderSeesReplies` are violated.

*ContextHistory.* `ProtocolSurvives` (calls keep their replies), `EssentialsSurvive` (so do
the skills' texts and the newest message), `RecentSurvives` (what is recent is sent untouched
while the budget allows it) and `BudgetHolds` (over the budget only what must stay is left and
every text is cut).

*ToolTurn.* `CallsArriveWhole` (however the pieces of several calls are mixed, the loop makes
of them the calls that the provider means; of a stream that is cut off only a call that arrived
whole can change a file), `EffectsAsReplied` (a file changes only by the call in flight, from
what it held at that moment to exactly what the call asks for, and the model is told of success
exactly when it did), `ImagesOfferedOnce` (an endpoint that refuses images gets none for the rest of
the run, a stream that began is not started again, and images behind a reply that is still in the
prepared context are left out for no other reason), `ViewsHold` (pages and searches show
all of a text, in order and once, or say that they do not).

*DocumentExports.* `AnnouncedResolves`, `ResolvedIsServed`, `NothingLeftBehind`.

*BrowserConversations.* `ContextsMatch` (the timeline that the user sees and the context that the
next request carries speak of the same exchanges, in every copy), `StoredIsShown` (when
nothing is under way, the database, the page's caches, the screen and the sidebar agree),
`HistoryKept` (a save never takes an exchange or text of a reply away), `DeletedStaysGone`
(a conversation deleted while nothing stores it is gone, also after a reload).

*LegacyStore.* `StaleOnlyIfOvertaken` (a cached answer differs from the database's only
while its write still invalidates, or after a read overlapped that write, Redis failed, the writer
was cancelled or the server stopped; without the last three the agent, whose key nobody else reads,
reads its own writes and replaces only the messages that it has read), `SkillLinksHold` (a link leads to the row that
injects its skill, and every such row is linked), `ImplementsPort` (refinement of
`ConversationPort`: each transaction is one of its operations or hidden from the agent, and only a
list that is out of date overwrites).

### Bounds

- *Two requests, one session, two aborts.* Requests of different sessions share
  nothing: table, ids and agents are compared per session. A third request of a
  session can only meet the table free or taken, as the second does. Two aborts
  make a late one and a current one possible. One abort in the liveness run:
  a second would only set flags that are set. The theorems need none of these bounds.
- *`MaxDeltas = 2`* events reach a client before `done`; one is enough for "an event
  after an abort" and the second shows that the stream continues after a yield.
- *Fresh ids* in the runs are what the server generates; ids chosen by clients, also
  shared ones, are covered by the theorems.
- *Three turns, two calls in the first, retry limit 1* (`agent_request`): failures of one turn and of two
  turns both cross the limit, a success between two failures resets the count, a
  skill is loaded, removed and loaded in one run, images come with the first, the
  last or both calls, and a turn is forced to be the last. `ProviderIds` is FALSE here, so that the
  loop numbers the calls itself, and TRUE in `agent_rounds` (see the observations below).
- *Two requests* (`agent_rounds`): a store is rebuilt once from a delivered and once from
  an undelivered context. A rebuilt store is again one that `Seeded` could have
  received. The budget of 10 against skills of size 2 makes the trigger, the budget and the
  cut all happen.
- *Six messages* (`context_history`): a tool turn with two replies, a skill and recent
  messages on both sides of the boundary; `SkillSize` 3 and texts of 4 against a budget
  of 10 reach all three stages of `prepare`.
- *`MaxSelected = 2`*: at most two skills selected with a message, all that a catalogue of two
  skills can distinguish.
- *Two runs, three scripts* (`tool_turn`): a swap of two passages beside a listing, two edits that
  overlap in one workspace and not in the other beside a write whose name arrives in two pieces,
  and a picture followed by a write to a folder. Two runs suffice for edits that cross; the pages
  of 2 lines and 5 bytes and results of 4 make every limit bite on these texts. One workspace
has both ends of a line, the other a byte that is no UTF-8. One mishap: a
  second could only strike a run that begins after a crash, which finds what the first left.
- *Three acts, two messages, one mishap* (`browser`): an act is a message, another click or a
  mishap. One conversation exists, the second is created by a message. The
  second message is answered without text (`Terse`): that deltas accumulate is shown by the
  first. With four acts and up to two messages the properties hold as well (27.7 million
  states; too long for a run kept here), and `DeletedStaysGone` is proved for any number.
- *Three operations, two tasks, one session, one mishap* (`legacy`): a reader, a writer and what
  is left by a third. The cached answers of different sessions meet only in the list, whose
  key every write to any of them invalidates. Windows of all and of one earlier row tell apart the keys of one
  prefix. The mishap is a failing Redis call, a cancelled writer or a
restart. Both tasks are interchangeable.
- *Three exports, two workers*: one waits in the queue while two run. One crash: a
  second finds what the first left. Downloads do not influence each other.

`CHECK_DEADLOCK FALSE` is set everywhere: every behaviour has finitely many requests,
clicks or operations and stops when they are done.

### Fairness

- `ServerFairness` (`runs_liveness`): the event loop runs every task that can
  run, so the steps of a handler and of a stream are weakly fair, and so is the delivery of an
  abort that was sent. `EnterStream` and `Resume` assume a client that reads or leaves. Nothing
  is assumed of a provider: an agent yields only when it is fresh (its first event is the
  default skill, before any provider call) or cancelled (`core.py` races every provider
  and tool await against the flag). `SlotIsFreed` adds `AgentsAnswer`, which the timeouts of
  providers and tools justify. In `CancelPoints` the run leaves out the two stages
  whose cancellation leaks the entry; `runs_leak` has them.
- `LoopFairness` (`agent_request`): the loop's own steps; `RunEnds` adds `OthersAnswer`
  for the provider and the tools, `AbortEndsRun` does not.
- `ToolTurn`, `BrowserConversations`, `LegacyStore`, `ContextHistory` and `DocumentExports` state
  safety only and need none. `StoredIsShown` speaks of the moments when nothing is under way.

Each side condition is an antecedent of the property that needs it, so that one run
checks both the conditional and the unconditional promise.

## 4. What is proved

`ChatRunsProofs`, for any number of requests, sessions and aborts, any assignment of
ids (unique or not), named and unnamed aborts, any cancellation points and any bound on
events. The assumption is `ChatRunsAssumption`, which types the constants.

- `ChatRunsTyped`: `[]TypeOK`, one step per action.
- `EntriesAreOwn`: `[]EntryIsOwn`. The invariant is an equivalence between the
  stage of a request and the table's entry, which makes it inductive together with
  the types: without the direction "a request that holds has its own entry", `Finish` could be
  thought to remove a successor that carries the same id. It also shows why comparing ids is
  enough: a finishing run always finds itself.
- `OneRunAtATime`, `RunsImplementSlot`: from it. The refinement maps `Start` to
  `Acquire`, `Finish` to `Release` and every other step to a stutter.
- `OnlyAbortedCancelled`: needs that an abort call that is signalling has marked its target.
- `NamedAbortsHitTheirRun`: the only theorem that needs unique ids. `NamedAbortsMatch`,
  which it rests on, holds for any: an abort that hit a run was unnamed or carries the id of that run.
- `AbortsSilence`: an action property; a step that forwards an event or chooses the
  reason looks at `abort_event` in the same step, with no await in between.
- `DoneIsLastAfterState`: needs a relation between the stage and the end of what was sent:
  no `done` before `doneSent`, the snapshot last at `stateSent`, and nothing sent after.

`DocumentExportsProofs`, for any number of exports, downloads, workers and crashes.

- `ExportsTyped`: `[]TypeOK`, one lemma per actor: the agent loop, the thread, the download, the crash.
- `ExportsInvariant`: the files that exist follow from where each thread stands
  (`FilesFollowThread`), callers know only of ended threads (`CallersKnow`) and downloads
  that read a manifest read it of a stored export (`DownloadsKnow`). A manifest exists
  exactly for a stored export, and no step leaves that stage: this is why a cleanup never
  meets a download.
- `AnnouncedAlwaysResolves`, `ResolvedAlwaysServed`, `OnlyCrashesLeaveFiles`: from it.

`AgentLoopProofs`, for any catalogue, budget, limits, number of requests and length of a
conversation. The assumption is `AgentAssumption` (the constants' types); the lemmas about
compaction come from `ContextWindowProofs`.

- `AgentLoopInvariant`: `LoopInv`, which calls are announced and not answered follows from the
  stage, and `DefaultsInv`, a default skill is in force or still to be injected. Stores appear only
  through what the operations do to their active skills, so nothing is used of compaction but that
  it leaves them alone.
- `DefaultsAlwaysInForce`, `NoToolRunsInForcedTurn`, `FinishedRunsHaveAnswered`,
  `LimitsAlwaysHold`: from it.
- `ConversationInvariant` looks at the messages. `StoreInv` says of the request's store and of the
  browser's copy that they hold each active skill's instructions once and that every reply is tied
  to the turn that made its call. What is inductive is not that histories are closed, which they
  are not while a tool runs, but how they are open: at `calls` and `executing` the turn under way
  stands last and the calls before `next` are exactly those with replies (`CallsInv`, `StoreInv`).
  Seeding, removal, injection and compaction each have a lemma that they keep this.
- `TypesAlwaysHold`, `SkillsAlwaysMatch`: from it. So is `FinishedRunsStayClosed`, under
  `StrictFinal`: the turn that the limit forces is stored with the calls the provider made all the same
  and without replies, which is the finding `agent_dangling`.
- `ProviderSeesClosedHistories`: images are inserted behind the replies of their turn. `ImagesInv`
  says that the images of a run go with its last reply so far and that a reply never arrives behind one
  with images, because replies are stored in the order of the calls. The hypothesis `NamedApart`, ids
  that the provider chose or a single run, is what the code relies on; without it the statement is false (section 5).
- `RetriesAreCounted`: `RetryInv` equates the counter with the failures that trail in the store. It
  assumes `Fits`, that no compaction happens in the run: a summary may stand for failures that the
  counter still counts, so after a compaction the counter may exceed what the conversation shows.
  The run that checks `RetryLimitHolds` is one that fits.

`ToolTurnProofs`, for any number of runs, files, texts and turns, any limits and any mixing of a
stream. The assumptions are `ToolTurnAssumption`, `FileToolsAssumption` and `TextsAssumption`: what a
workspace or an argument gives as a text is a finite sequence, a directory lists a path once, and a
temporary file has a name of its own. The lemmas on sequences and on `Induction` are those of `ContextWindowProofs`,
which it extends; that module's constants occur in none of the theorems.

- `TurnInvariant`: `RunOK`, what a run's record looks like at each stage, with what its
  requests to the provider were, and `DraftOK`, a temporary file holds what the call in flight
  is about to store. The second makes the effect of `ReplaceFile` provable: between the two
  steps that read the file and replace it, nobody else can run.
- `TurnsTyped`, `ImagesAlwaysOfferedOnce`: from it.
- `CallsAlwaysArriveWhole`: `StreamsInv` says that a buffer holds what the pieces sent so far make of
  its call (`Part`), whatever came between them, and that from the end of the stream on the calls
  follow from the buffers. That sorting the indices gives each its place is an induction over the
  number of buffers (`ListExists`, `ListWhole`). The hypothesis `CallsWellFormed` is the provider's
  part of the protocol: a call has a name, and no proper part of the text of an object is an
  object's text already, which is so of JSON unless blanks trail it; then a call cut off in its
  arguments parses to none that a tool accepts. `MCToolTurn` assumes the same of its instance, so TLC has evaluated it.
  The two theorems below need it as well: what a tool is given is then what the provider meant.
- `EditsAtOnce`: the code sorts the spans of the old texts and copies what lies between them with a
  cursor; the promise (`Simultaneous`) is that each symbol goes or stays by itself. The sorted spans tile
  the text (`Tiles`): no two begin at one place, and the next begins behind the last one's end. By
  induction over the spans, what is built up to a cursor is what the symbols before it become
  (`Splices`, `Upto`). Without the check for overlaps the statement is false, which is what the check is for.
- `EffectsAlwaysAsReplied`: an action property. `TextsInv` says that what files, drafts and arguments
  hold are texts, and that a call whose writing has begun still fits the file it began with, since it
  holds the event loop; so `EditsAtOnce` applies at the step that replaces the file. Every other
  step leaves the files alone, and one that replies `ok` to a writing call has replaced one.
- `PagesHold`: what a page shows is a front of what is left, cut by lines, by bytes and by the registry,
  in this order (`Shows`); a notice has room because it is shorter than the limits. It holds of any text, so
  also of one whose last line has no end.
- `GrepsHold`: the search appends the context of each match without what it showed before. That the
  result is ascending is not local to one match: it needs that the lines of a file stand together
  (`Together`), and then what is new of a context lies behind everything shown (`NewLiesBehind`). `Counts`
  relates the number of matches found to the matches shown, which the limit needs.
- `FindsHold`: what is shown are the first hits, and these are distinct paths that the walk passed
  before any path that it left out.
- `ViewsAlwaysHold`: the walk over a workspace names each file once (`Walks`), which needs that only
  finitely many temporary files are left at any time (`LeftAlwaysFinite`), although runs may be
  infinitely many; from there the three theorems above apply to what `ViewsHold` asks.

`LegacyStoreProofs`, for any number of sessions, workspaces, tasks, rows, pages, operations and
faults, with and without Redis. The assumptions are `RowsAssumption`, `LegacyAssumption` and
`StoredAssumption` (an earlier run of the server left tables in order). The lemmas on sequences are
those of `ContextWindowProofs`, which it extends; its `Budget`, `Trigger` and `MinRecent` occur in none of
the theorems.

- `StoreTyped`, `SkillLinksAlwaysHold`: `TablesInv` is inductive by itself; each transaction
  has a lemma on what it does to rows and links.
- `CachesStaleOnlyIfOvertaken`: the invariant `StoreInv` adds `CachesInv` and `AgentInv`. An
  answer on its way into a cache (`filling`, `storing`, or taken from Redis) needs the same promise as
  one that is in it; a key about to be deleted is in `changed` of the task that sweeps; and the
  prefixes of a write cover every answer it changed, which is a lemma about
  `AfterSession`, `AfterMessage` and `AfterDeletion`. `AgentInv` is about the
  agent's key: as long as nothing failed and no writer was cancelled (`Quiet`), one task at most works
  for a session, the key is never in `suspect`, and a list that the agent holds is the session's
  rows. A cancelled writer puts every answer it changed into `suspect`, which is why the first
  clause needs no hypothesis.
- `AdapterImplementsPort`: the refinement, by the mapping `AgentView`. Its invariant is `TablesInv` with
  `KindsInv` and `ListsInv`: the kind column says what the stored message is, and what an agent has
  listed are messages, however old. Without it a row
  could pass for a message of another kind, and neither the links nor `compact_messages` would
  tell the port's skills. A view is *the* list of its rows in ascending order (`OneEnumeration`),
  so each transaction is shown to make one such list of another: an added row comes last
  (`ListedGrows`), a removed skill leaves the rows whose places the port keeps (`RemovedView`), a
  rewritten table lists what it was given (`ReplacedListing`), and each list injects a skill once exactly
  if a link has it (`ViewBookkept`). A list that is current replaces the
  messages and keeps the skills (`ReplaceIn`); one that is not overwrites, and still leaves each skill
  injected once (`Overwrites`). Cache steps, faults, cancellations and restarts stutter.

`BrowserConversationsProofs`, for any number of conversations, messages, clicks, reloads and
failing transactions. The assumption is `BrowserAssumption`: what the browser has stored is, for
each session, a title and nothing or one conversation whose timeline and context match, of
requests before this page's own. `DeletedAlwaysGone` uses none of the latter part.

- `PageInvariant`: `PageInv` follows each database operation from its call to the moment that the
  page hears of it. `InLine` relates an operation to those called after it: transactions end in
  the order of the calls, at most one session is being created or named, and what follows a
  committed deletion finds no title. `Linked` relates it to the page: a save is under way only for
  a session with saves to do, a creation only for the message that waits for it. `AfterDelete` is
  the part that is not obvious: a committed deletion of which the page has not heard leaves
  nothing, unless a save of the session is in line behind it.
- `DeletedAlwaysGone`: from it. When the page hears of a deletion and nothing stores the session,
  no save is in line, so the database holds nothing, and everything that could store it later
  (the sidebar, the open conversation, the titles listed at the start) no longer names it.

The rest of that module is about what is kept. The second part of `BrowserAssumption` is what
`ContextsAlwaysMatch` says of every page that closes without a failed load, so it holds of the next
page again; after a failed load it may not (section 5).

- `ContextInvariant`: `ContextInv` follows every copy of a conversation (`AllCopies`): in the cache,
  in the saves that wait, in the database, in a load that the page has not heard of and in the
  message under way. What is on disk is continued by what waits to be stored, in the order of the
  saves, and the last one is the cache's (`HistoryOK`, `StoredOK`); a reply adds to the conversation
  that its message chose (`SenderOK`); a load that the page still awaits will hand it nothing older
  than what it has (`LoadsOK`); and the sidebar differs from the records by the renames in line
  (`TitlesOK`). The invariant is one formula because each part needs the others: an awaited
  load is current only as nothing is saved of an unread session.
- `ContextsAlwaysMatch`, `StoredAlwaysShown`: from it.
- `HistoryAlwaysKept`: an action property; only a committed save changes what a
  database holds of a session, and by `HistoryOK` it holds a continuation.

`ContextWindowProofs` and `ContextHistoryProofs`, for any budget, trigger and number of recent
messages, texts of any size and conversations of any length. The assumptions are
`ConversationAssumption`, `ContextAssumption` and `HistoryAssumption`, which type the constants.

- The lemmas first: a set of numbers that holds 0 and, with each number, the next is `Nat`
  (`Induction`), which is first-order and so within reach; with it, that the recursive functions
  inside `Ascending`, `FlattenSeq`, `CountMessages` and `CutTexts` exist and what their values are.
- `PrepareHistory`: one compaction turns a history into a history. A history (`IsHistory`, `Tied`,
  `Answered`) splits `Closed` into two halves: a reply stands behind the assistant message that made
  its call, with only replies between that left it a call open, which is what `Joins` asks of a
  group; and each call has its reply. `Closed` alone is not inductive: it allows a reply behind a
  turn that was already complete, which a group boundary would cut off. Both halves hold of a
  history exactly if they hold of its groups, may be concatenated, and look at nothing that cutting
  a text changes (`Alike`). `HistoryInvariant` and `ProtocolAlwaysSurvives` follow.
- `BudgetAlwaysHolds`: the groups of a history, put together, are that history again, and so are
  those that a stage kept (`GroupsFlatten`); the stages of `prepare` can therefore be described by
  the groups that each leaves (`PrepareStages`), although each computes them afresh.
- `EssentialsAlwaysSurvive`: each message that a stage returns is traced to one that it was given
  (`Brought`), in order for the skills' instructions; a protected group is neither summarised nor
  dropped, the newest one stays last (`Kin`), and a cut changes the size of a text alone.
- `RecentAlwaysSurvives`: what the recent groups count as messages (`RecentTail`), and that a
  conversation that fits the budget is not touched by the last two stages.

So every invariant and action property that a passing run checks has a theorem, four of them under the
hypotheses named above (unique ids, `NamedApart`, `Fits`, `StrictFinal`) and those of `ToolTurn` that
depend on what a call asks for under `CallsWellFormed`. Only model-checked:
`RetryLimitHolds` where a compaction happens, and all liveness (`AbortFreesSlot`, `SlotIsFreed`,
`AbortEndsRun`, `RunEnds`), which is outside this prover.

## 5. Findings

| Run | The code | The repository says |
|---|---|---|
| `runs_leak` | A response cancelled before its generator is entered, or while its `finally` block awaits `runtime.close()`, leaves its entry: the session answers 409 until the server restarts. | `api/services.py:114`: the table only tracks currently executing request objects. |
| `agent_identity` | From the second request on, the default skill is re-rendered without `runtime_context` and `inject_selected` finds it already active. | `skills/wenqu/SKILL.md:12`: the system appends it at the end of the skill. |
| `agent_dangling` | A run that is aborted or fails between storing a turn and its replies, or whose forced last turn calls tools, hands the browser a history with an unanswered call. | `agent/memory.py:75`: a response is kept so that strict providers still see one for the preceding call. |

Observations that no text of the repository contradicts, met while modelling:

- *Ids numbered per run* (`agent/core.py:524`). When the provider names no calls, the loop does, from
  the turn and the index, so ids repeat in the next run. Images are inserted behind every
  reply that carries the id (`core.py:712`), also an older turn's, and separate its replies;
  `ProviderViewClosed` fails in the second request of such a provider. The browser
  remembers downloads by the same ids (`App.tsx:222`), so the second export under an id is not downloaded.
- *A browser that fails to load a conversation* shows it empty and continues it from nothing:
  what is sent is stored over what was there (`App.tsx:256`). If the user leaves and comes back while
  such a message is prepared, a second load can put the old conversation over the new one, and the
  snapshot that arrives is stored beside a timeline of another history. `HistoryKept` and
  `ContextsMatch` leave out conversations that once failed to load, for this reason.
- *Leaving a conversation while it loads* leaves `loadingMessages` true (`App.tsx:177` resets it only
  for the load that is still wanted): no message can be sent until another one was loaded.
- *An entry stays pending for ever* when the page is closed in the middle of a stream, or when naming the session fails after the
  message was saved (`App.tsx:268`).
- *Deleting a conversation while it streams* recreates its records with the next save
  (`local.ts` stores a timeline without a session); `DeletedStaysGone` says when it does not happen.
- *The first message never names its session*: `sessions.find` (`App.tsx:267`) looks into the
  list of the render in which the handler was made; the second message does.
- *Stop after switching* posts the abort for the conversation that is shown, not for
  the one that streams (`App.tsx:183`); the stream itself is closed all the same.
- *Two tabs* overwrite each other's conversations, as every save stores the whole.
- *edit* (`filesystem.py:263`) demands exactly one match but counts matches that do not overlap,
  so "aa" in "aaa" passes.
- *Editing a file that is not all UTF-8* (`filesystem.py:117`) stores a replacement character for
  every invalid byte of the file, also outside the edited passages.
- *grep* splits lines as `str.splitlines` does (`filesystem.py:451`), `read` at newlines and
  carriage returns (`:179`): behind a form feed their line numbers differ. A match that was already
  shown as context is marked as context (`:460`).
- *A line longer than a page* (50 KB) can never be paged past (`filesystem.py:188`): the notice
  names the same line again. `ViewsHold` is stated for lines that fit.
- *Deleting asks the own cache first, reading asks Redis first* (`cache.py`): a read that took Redis's
  answer before the deletion keeps it in the own cache after it (`StaleOnlyIfOvertaken` counts it as
  overtaken), until its lifetime ends.
- *A cancelled writer of the legacy store* (`sqlite.py:209-225`) leaves a commit that nobody
  invalidates (`:518` is never reached), so readers get the old answer until its lifetime ends or the next
  write of the session. If the writer was an agent replacing its messages, the next agent may write
  before the old thread does, and what it wrote is lost.
- *Retired modules*: `storage/user_configs.py`, `llm_resolver.py` and `api/sessions.py` import names
  that `server.config` and `api/schemas.py` no longer have, and `api/user_config.py` asks
  `APIServices` for a repository that it no longer has; no router includes the endpoints.
- *SSE parsing* (`api/sse.ts`) replaces CR LF before it splits lines, chunk by chunk: a pair cut by a
  chunk boundary counts as two ends of a line. This server ends lines with LF alone.

## 6. Not modelled

- *SSE framing, rendering of documents, sanitising of names, the calculator*: pure functions of
  one input without state. That a stream of events may end anywhere is in `AgentLoop` and
  `BrowserConversations`.
- *Formats*: glob patterns beyond the set of paths that they match, the rules of .gitignore beyond the set of paths that
  they name, the encoding of images, the values of arguments beyond their keys.
- *Sizes on the wire*: the limits of `api/schemas.py` on what a browser may send back. They lie
  far outside an instance, and one long run reaches them.
- *Provider configuration and encryption*, in the browser as on the server: data that is validated or
  transformed. That it may be missing or unreadable is `NoProvider`.
- *The legacy configuration and sessions API*: nothing is left that it could run on (section 5).
- *The agent's `session_busy` branch*: an agent is created per request and streams once.
- *Drafts of messages, mentions, settings, themes, tool traces* in the browser: what is typed or
  shown, not what is kept. Downloads are in `DocumentExports` from the server's side.
- *A second tab*: nothing in the code relates two tabs.
- *Several server processes*: the table is in process memory, so each process has its own;
  `server/main.py:190` starts one.
- *Power loss*: `Crash` kills the process; the file system keeps what was replaced.

## 7. Plan

1. `ChatRuns`, `RunSlot`, `ChatRunsProofs` (done): the only state that requests share.
2. `Conversation`, `ContextWindow`, `ContextHistory`, `AgentLoop`, `ContextWindowProofs`,
   `ContextHistoryProofs`, `AgentLoopProofs` (done): what a run does to a conversation.
3. `DocumentExports`, `DocumentExportsProofs` (done): the files that a user downloads, and the
   threads that write them.
4. `BrowserConversations`, `BrowserConversationsProofs` (done): what a user would lose.
5. `FileTools`, `ToolTurn`, `ToolTurnProofs` (done): the files that runs share, and the streams
   that say what to do with them.
6. `ConversationPort`, `LegacyRows`, `LegacyStore`, `LegacyStoreProofs` (done): the store behind
   caches, and the port that it implements.
7. Left: an abstract specification of the exporter as a shelf on which an id appears
   once, whole, and stays, with its refinement; the SSE parser over all splits of a short
   stream.

# Shikigen: a formal model

TLA+ modules, TLC runs and TLAPS proofs about Shikigen, an application that runs
LLM agents: a Python backend (`packages/harness/shikigen`, `app`), a TypeScript
frontend (`frontend/src`) and a Rust desktop shell (`frontend/src-tauri`).
Paths below are relative to `src/`; `shikigen/` stands for
`packages/harness/shikigen/`.

## The system

| component | code | state it keeps | operations |
|---|---|---|---|
| Run tables | `shikigen/runtime/runs.py` (RunTransitions), `shikigen/persistence/*` | SQLite: threads, runs, run_events, run_usage, sequence tables | create, settle, cancel, accept an approval, fail a recovery, write a message, reserve its number |
| Execution | `runtime/run_execution.py`, `runtime/lifecycle.py`, `core/execution.py`, RunService in `runtime/runs.py` | registry of executions, tasks, locks of threads and executions, abort events | start, resume, cancel, wait, drain, shutdown |
| Recovery | `runtime/recovery.py` | none (reads a snapshot, judges the checkpoint) | reconcile one Run, all Runs |
| Ingestion | `runtime/run_events.py`, `core/graph_events.py` | preview state of each Run: text, reserved numbers, sealed | delta, whole message, settle, cancel, release |
| Observation | `core/stream.py`, `runtime/run_observation.py` | the event list of each execution, subscribers | publish, subscribe, rebuild, close |
| Tool library | `tools/tool_library.py`, `persistence/python_source_store.py` | the configuration file, managed Python files, discoveries, test records | save, delete, import, discover, execute, test |
| Tool calls | `tools/tool_calls.py`, `tools/executor.py`, adapters | tasks across event loops, MCP sessions, worker processes | call, cancel, time out, shut down |
| Checkpointer | `checkpoint/json_checkpointer.py` | one file per checkpoint and one for its pending writes | put, put_writes, list, delete |
| Desktop | `app/desktop*.py`, `frontend/src-tauri/src` | the owned backend process, control pipe, single instance, intents to open a file | start, hand over, stop, restart, prepare and open a file |
| One Run in the window | `frontend/src/conversation-state.ts`, `run-projection.ts`, `observation-recovery.ts`, `usage-verification.ts`, `approval-*.ts` | the Run's fields with their versions, one observation, one read, one write, a decision's record on disk | observe, read again, verify usage, cancel, decide, restart |
| Conversations in the window | `frontend/src/conversation-state.ts`, `message-drafts.ts` | list and pages, projections, drafts and submissions, saved in local storage | choose, create, list, page, type, send, look up, restart |
| Window | `frontend/src/App.tsx`, `backend-state.ts`, `backend-client.ts`, `workspace-*.ts`, `run-event-history.ts` | leased address, overlay, images and their Blob URLs, the file to open, the events of the details | lease, hide, show, open, close, confirm |
| Editors | `frontend/src/components/tools/*.tsx`, `tool-library.ts` | list, draft and its version, test, question before leaving | open, create, save, delete, test, import, discover, reread, leave |

`RunService` accepts an operation through `ApplicationLifecycle` and serialises
those of one thread.  An operation commits a transaction of `RunTransitions` and
then hands the invocation to `RunExecutionCoordinator`, whose task drives the
Graph (LangGraph, external), feeds what it emits to `RunEventIngestor` and settles
the outcome in another transaction.  Committed facts are published on the stream
of the execution; observers join database and stream.  Nothing else couples the
parts, so each has a module of its own.

The window is one thread: a handler runs to its next `await`, and what it read
before may not hold after.  It reads a Run in three ways that race (the frames of a
stream, one shared GET, the answer of a cancel), writes over connections whose
answer may never come, and does all of it under an address that the desktop shell
takes away and renews.

What is hard: a commit and what follows it are two steps; a cancellation frees the
thread before its Graph has stopped; a failed settlement is retried while users
cancel and the process shuts down; numbers are reserved before their message
exists; the checkpoint, which the Graph writes, and the tables, which the backend
writes, are never in one transaction.  In the window: answers that come in another
order than their requests, a POST that is aborted and handled all the same, drafts
that go on changing while they are sent, tested or saved, and the way out of an
editor that several buttons, an answer and a renewed address take at once.

## Modules

| module | models | run |
|---|---|---|
| `RunLifecycle` | the durable tables, one action per transaction | MCRunLifecycle |
| `RunPromise` | what the tables promise the product; implemented by `RunLifecycle` | as a property of MCRunLifecycle |
| `RunLifecycle_proofs` | proofs about `RunLifecycle`, its refinement of `RunPromise` included | tlapm |
| `RunExecution_proofs` | proofs about `RunExecution` | tlapm |
| `MessageIngestion_proofs` | proofs about `MessageIngestion` | tlapm |
| `MessageView_proofs` | proofs about `StreamObservation` and `MessageView` | tlapm |
| `RunExecution` | the process: operations, tasks, locks, shutdown, crash, restart | MCRunExecution, MCRunExecutionLive, MCShutdownRetry |
| `MessageIngestion` | previews, messages, sealing, replay from the checkpoint | MCMessageIngestion, MCReplay, MCAuthorship |
| `StreamObservation` | publication and observers | through `MessageView` |
| `MessageView` | composes it with the window that is its observer: the messages on show | MCMessageView |
| `ToolLibrary` | the configuration file, code files, discoveries, outside editors | MCToolLibrary |
| `ToolLibrary_proofs` | proofs about `ToolLibrary` | tlapm |
| `RunView` | what the window knows of one Run | MCRunView |
| `RunView_proofs` | proofs about `RunView` | tlapm |
| `Conversation` | the conversations: list, drafts, sends, restarts | MCConversation |
| `ConversationAccounts` | the inductive invariant of `Conversation` | through its proofs |
| `Conversation_proofs` | proofs about `Conversation` | tlapm |
| `ExtensionPages` | the editors of tools, imports and connections | through `Window` |
| `Workspace` | address, overlays, images, files to open, Run details | through `Window` |
| `Window` | composes the two: what is in front, the address both use | MCWindow |
| `Window_proofs` | proofs about the part of `Workspace` in `Window` | tlapm |

### RunLifecycle

`ChatStore.transaction` holds the connection lock from BEGIN IMMEDIATE to COMMIT
and rolls back on any exception, so a transaction is one step and a transaction
that raises is none: what the code raises on is a guard.  The callers are free:
any Run may be settled with any outcome for any earlier invocation, and a
recovery may act on any snapshot it ever read (`scanned`).  Rows of `run_events`
carry a type, a key and a number; contents are dropped.  `reserved` is
`message_sequences`, `usage` is `run_usage` with one ghost field, the invocation
that reported the amount.

`RunPromise` forgets events and numbers: a Run has a phase, a pause is offered,
then answered or withdrawn, an invocation is billed at most once.

### RunExecution

Status, invocation (`round`) and storage health stand for the tables.  An
operation is a program counter that holds its thread's lock (`slot`) from `Enter`
to `EndOp`; a task goes created - graph - settle - settling - publish - finish -
done, or retry.  `lock` is the lock of an execution.  Every transaction fails while
`storage` is false.  `Forget` is the loss of all memory at exit or crash, and
`Recover` is `reconcile_all`.

### MessageIngestion

The messages of one thread's Runs, the checkpoint (`saved`) and the consumer of
the Graph's events.  `FailRecovery` is a read or a resume that finds a pause broken, in
the process that still has its previews.  `shown`, `conflicts`, `cut` and `givenup` are
history variables no action reads.  `Generate` and `Save` are the Graph: it may save any message it has
begun, and every values event brings back all that is saved.

### StreamObservation

One Run and its invocations.  Commit and publication are separate steps, numbers
may be reserved early, and the observer reads status, registry and database in
the separate steps of `observe_run`.  A stream carries frames: facts, and the pieces
of the text of a message that is still being produced (`pieces`).  A Run may pause with
numbers that have no message yet (`run_events.py:57`, `:91`;
`tests/test_cancel_partial_message.py:307`).  They keep them while it is paused, and a
later failure or cancel commits and publishes them: below the start of its own
invocation.  Such a fact (`Carried`) may come with the history and again by the stream,
once each, which `EveryFrameOnce` allows of nothing else; receivers tell facts by their
numbers.  The Graph, which is external, is taken to generate new messages in every
invocation: none goes on with a number of an earlier one (`Held`).

### MessageView

The observer is one connection of a window: it may break at any frame and be made
again, from the start.  `view` is the window's projection, in which a text is the
sequence of its pieces: the delta, the fact and the answer of a read of saved messages
come in any order.  `ask` is that read, `saved` what the window says about its answer.
The backend reads its tables when the answer is composed, so a read takes its numbers
when it is asked for and is merged at any later time.

### ToolLibrary

The lock of `_coordinate_config` admits one operation, `op`: it reads the file and
prepares the new configuration in one step, then opens and closes a new code file,
compares versions (`check`), replaces the file (`replace`) and cleans up (`collect`,
`unlink`).  The routes run every save through `ApplicationLifecycle.accept`, which
shields it from a request that is cancelled, so nothing but the end of the process
interrupts these steps.  A version is the configuration with the contents of the
code it refers to.  Identities, `updated_at`, the names of code files and their
contents are numbers of one clock.  A page remembers the version it read last; a
discovery keeps the version it was made with.  Editors outside take no lock: they
save what they loaded earlier with a tool removed or renamed, leave a file that
cannot be read for a while, or write code.  `dangling` and `raced` are history
variables: code an outside save refers to although it is gone, and an outside save
after the last comparison, which is beyond what the code can see.  An import
selects one remote tool at a time; an OpenAPI import several, all or none.

### RunView

The store is one record, `c`, and a handler a function from one store to the next;
`srv` is the backend's Run, `wire` the frames of the open stream, `late` the POSTs
whose connection is gone.  A field's version is only ever compared with the copy a
request took, so a request carries the set of versions that have moved since
(`stale`).  `Merged` and `ApplySnapshot` are `RunProjection`, `ReadSnapshot` to
`ReceiveRead` the shared GET with its second read, `ObserveRun`, `Recover` and
`Connect` are `ObservationRecovery`, `Eligible` to `Charge` the automatic usage reads.  `known`
and `forgotten` are history variables.  Messages are left to `MessageView`.

### Conversation

`c` is the store, `disk` what `MessageDrafts` saved of it, `srv` the backend's
threads, `late` the sends that may still arrive.  Texts are sets of what was typed,
so that editing, clearing and sending are told apart; a send has a number, and `log`
(history) says what was typed and which sends the user knows to be Runs.

### ExtensionPages

One record per page (tools, import panel, connections) and one for the shared column.
Every page counts its requests and drops older answers: `op` is the one that still
counts.  What the user wanted when a page asked him first is an intent that `Do`
carries out later.  A write nobody waits for looks like one of another client
(`Outside`).  Drafts are not spelled out: a page knows whether its draft differs and
the version it was read at.

### Workspace and Window

`host` holds the snapshots of the backend's state that are on their way, `session`
the leased address.  Images, files to open and Run events read nothing of each
other, so a behaviour follows one of the three (`focus`).  `calls` are commands
between window and shell; `ledger` is the shell's intent.  The last read of a file, the
check of the ledger and the dispatch are one step (`MayDispatch`).  On Windows the handle
`guard_file_target` holds lets nobody write or replace the file from before that read to
after the dispatch (`workspace_file_open.rs:309-311`, `:375-386`).  Elsewhere the handle
excludes nobody: there a file may change in between, and `OpensWhatWasConfirmed` does not
speak of that.  `Window` puts either the
conversation or the area of the extensions in front; what the two share is the
address, so the area is entered when the conversation is at rest.

## What the runs check

- **MCRunLifecycle** (2 Runs of 1 thread, 1 message, 1 checkpoint, counter up to
  the bound in the cfg): the invariants of the tables, the finality of terminal
  states and that `RunLifecycle` implements `RunPromise`.  Two Runs are what a
  thread needs to be busy or not, one checkpoint is enough to be paused on twice.
- **MCRunExecution** (2 operations, 2 Runs of 1 thread): never two Graphs per
  thread, the registry always finds what lives, a Graph serves the current
  invocation, a running Run has an owner or a known loss, publication precedes
  close.  The thread lock makes a third concurrent operation one more in the queue.
  `WaitsAreServed` is the safety behind the liveness of the next run: who holds a lock
  is inside its section, and who waits for a task with the lock of its thread waits for
  one that exists, and for a Graph only when that was asked to stop.
- **MCRunExecutionLive** (two instances in one run): Graphs of cancelled Runs end,
  failures get settled, accepted operations and shutdown end.  *contention* is one Run of
  two invocations and two operations: a resume waits for the task that paused its Run
  while a cancel is queued behind it, a cancel waits for the lock of an execution in its
  settlement while a resume is queued.  *drain* is two Runs of one invocation and one
  operation at a time: the start of the second drains the task of the first, which was
  cancelled or retries its settlement.  Both have shutdown, failing storage, crash and
  restart.  What tells them apart restrains callers and Graphs only (`Contention`,
  `Drain`), to whom no fairness is given, so it forbids no step that is promised.  All of
  it in one instance (two operations, two Runs, two invocations) is MCRunExecution,
  which checks safety.  Absence of deadlock says nothing here: storage may change and
  the process may end in every state.
- **MCShutdownRetry** (violation): see Findings.
- **MCMessageIngestion** (2 Runs, 2 messages with text, 1 without): previews become
  the message they announced, shown text survives failure and cancellation, a
  finished Run is whole, replays only fail after a loss (all parts of
  `MessagesAreWhole`), nothing follows the end.  The Runs excepted from the second are
  those under which a process ended (`cut`) and those that a recovery failed in their
  pause, in a live process or after a restart (`givenup`; known gaps, 9).
- **MCReplay**, **MCAuthorship** (violations): see Findings.
- **MCMessageView** (2 invocations, 8 numbers, 2 messages of 2 pieces, 2 connections, 1
  read): an observer gets every fact once, in order, and has missed nothing when it
  comes to the end, but for what a Run carried over a pause (below); what its window shows of a reply is that reply or its beginning,
  never a text doubled by a replay, cut by a late piece or left over from before.  Two
  connections are a break and a replay; two messages are one that is a preview while
  the other is a fact; a second invocation is what the history ends and the stream
  begins with, and where a failure or a cancel makes messages of the previews of the first.
- **MCToolLibrary** (1 page, 2 free names and a built-in one, 1 server tool in 2
  descriptions, 1 outside edit, 1 end of the process): names stay unique, imported
  tools have their connection, code in use is complete and never cleaned up, and
  nothing is overwritten or deleted that its requester had not seen.  One page stands
  for any number: another page's save is this page's own while its version is stale.
  The constraint `Apart` does not follow an editor's buffer together with a discovery;
  the theorems about the same properties hold without it.

- **MCRunView** (2 resumes, 1 failure, 2 requests of the user, 1 retry of a read, 2
  automatic usage reads): what the window learned of a Run is not taken back by a
  late answer, a write of unknown outcome is offered again only after a read that
  began later, and a window at rest shows what the backend has, or says that it gave
  up, or is in the one state that `Unfollowed` names (known gaps, 2).  Two resumes let
  the Run pause twice: only then can an answer of between the pauses be the last word.
  The failure is a lost write, or the connection a read could have been left to.
- **MCConversation** (2 conversations, pages of 1, 2 sends, 2 texts, 3 events, Runs
  store into a conversation of fewer than 2 messages): a message that became a Run is
  never sent again without the user's wish and always accounted for, no text is lost,
  neither conversation nor list goes back.  Two sends of one conversation overtake each
  other; a page of one has a next one; a Run of a new conversation has a message after
  the one it answers.
- **MCWindow** (1 tool, 1 connection with 1 tool, 2 versions by others, 2 references,
  2 versions of the file, 2 intents, 2 commands, 2 boundaries, 2 snapshots): drafts
  are not lost unasked, writes of unknown outcome are not repeated, nor submitted again
  while they are under way, and no unread version is overwritten, images on show have live URLs and no others are live, the
  file opened is the confirmed version, Run details that call themselves complete are.

Bounds of the window's modules: `Libraries` starts with one tool and a connection
whose tools were not imported, or with nothing; an outside client removes the tool,
or the connection with its tools; the first
snapshot has been answered when files are followed, and the details overlay and the
question before a cancellation only appear where the details are followed; a retry of
a read of events is one more read.  Deadlines are left out everywhere: a wait ends
some time.

Bounds: `MaxClock` cuts the saves of the tool library, `MaxDiscoveries` stands for its
100 discoveries.  `MaxSeq` and `MaxRounds` only cut the counters of sequence numbers and of
invocations.  Symmetry is used where the constants are interchangeable.

Deadlock is not checked where the bounded system may legitimately stop: all Runs,
all numbers, all requests of the user used up.

## Fairness

`RunExecution` states it: the event loop runs whatever is ready, a transaction
commits or fails, the application is started again after it went down.  Strong
fairness of operations and tasks stands for asyncio's first-in-first-out locks.
Nothing is assumed of the Graph, of callers, or of storage; the properties that
need storage say so (`StorageRecovers`).

## Findings

- **ShutdownStopsRetry**: the comment at `shikigen/runtime/run_execution.py:230`
  says shutdown can cancel the task that retries a failed settlement.  It waits
  for accepted operations first (`lifecycle.py:50`), and a `start_run` may be
  draining just that task (`runs.py:479-482`).
- **ReplayIsAccepted**: `docs/project.md:128` says a replay of the same message
  keeps its original Run and number.  If the process ended between the checkpoint
  and the row, the reservation makes every later Run of the thread fail.
- **MessagesStayWithTheirRun**: `docs/project.md:111` says old history must not be
  put down to the current Run.  Messages saved but not consumed when their Run was
  cancelled are.

## Known gaps

Places where the code, most of it the window's, does less than the documents say and that
the properties above except, each under a name of its own in the module.  They have no
run of their own.

1. A boundary (the end of a stream, a cancel) that comes while the second GET of a
   read task is out asks for one more read, and the task ends without it
   (`conversation-state.ts:1178-1184`;
   `docs/wayfinder/frontend-completion/implementation/19-usage-settlement.md:19`).
   The usage stays unknown, which the window shows (`Agrees` allows it).  The same in
   the reader of Run events, `run-event-history.ts:68-71` (`events.missed`).
2. A GET that is answered while the Run goes on between two pauses, and received when the
   stream of the second has ended, is the last word if it is automatic: its own answer
   begins a new stage, which aborts the task with the read that the end of the stream
   asked for (`conversation-state.ts:1045-1057`; the comment at 1053 says that this read
   "remains a normal read after automatic work stops").  So it is if it is the second
   GET of its task (1.).  The paused Run is shown as going on, and no stream is followed,
   until something else asks (`Unfollowed`).
3. A refused send (400, 409, 422) drops the submission with its text
   (`message-drafts.ts:127-133`).  If its draft was edited meanwhile, the text that was
   sent is nowhere; the draft the user has now is kept
   (`docs/wayfinder/frontend-completion/implementation/04-message-drafts-send.md:22`).
   `TextIsKept` speaks of what the user did not replace himself.
4. The look-up of an accepted Run that the history lacks (`conversation-state.ts:926`)
   would not find it in every case, but no history lacks it: `create_run` commits a Run
   with the message it answers (`runs.py:83-115`).  The look-up is left out, and
   `NeverLooksUp` says that it is never needed.
5. A tool that the connections page wants opened while the list of tools cannot be
   read is opened when the list arrives, over a draft begun meanwhile
   (`ToolsWorkspace.tsx:75-80`; `PendingOpen`).
6. After a delete, or when a save leads on to a new draft, that draft is taken to be of
   the version before: the next refresh reports a conflict nobody else caused
   (not modelled).
7. Schemas are read by the first read of a lease only.  If it fails, or choosing
   another category supersedes it, nothing can be created until the page is opened
   under another lease (`McpWorkspace.tsx:128`; modelled, no property).
8. When `query()` fails after an event has brought a ready snapshot, the session is
   dropped until the shell publishes another (`backend-state.ts:38-46`; `AskFails`).
9. `fail_recovery` (`runs.py:274-306`) writes and seals no previews.  When a read or a
   resume finds the approval or the checkpoint of a paused Run broken
   (`tests/test_recovery.py:234`), what the Run had shown before its pause and not finished
   becomes no message, although its text is in memory, and its state stays there until the
   process ends.  `docs/wayfinder/frontend-completion/implementation/11-failure-partial-message.md:19`
   says that the failure of a Run keeps all the text it ingested.  `ShownTextIsKept` excepts
   these Runs, by `givenup`, and no others.

## Proofs

`RunLifecycle_proofs` proves for all constants, without the bounds mattering:
`TypeOK`, `OneActiveRun`, `StatusFollowsFacts`, `SequencesAreOwned`,
`UsageOfItsInvocation`, `TerminalIsFinal`, `RecoveryClosesWhatItRead` and
`PausedIsDecidable`.  The only assumption is `ConstantsAssumption` of
`RunLifecycle`.

None of them is inductive alone.  The inductive invariant is `LifecycleInv`: types,
the numbers (`NumberInv`: the counter bounds every number, numbers are unique, a
reserved number belongs to its message), status and last lifecycle fact, the slot
of the thread (`SlotInv`), usage per invocation, what recoveries have closed, and
`DecisionInv`, which ties every approval fact of a Run to the lifecycle facts
around it.  Lemmas reduce the dozen transactions to a few kinds of step
(`StatusStep`, `TableStep`, `BookStep`), and each part of the invariant is proved
against the kind it depends on.

`ToolLibrary_proofs` proves `TypeOK`, `NamesUnique`, `McpToolsAreConnected`,
`CodeIsThere`, `NothingUnseenIsLost` and `ImportsFromCurrentConnection`, all that
the run checks, from `LibraryAssumption`, for any
number of pages, names, servers, saves and edits.  Every request is reduced to one
lemma each: it takes the lock with a good plan (`Plan`): a new configuration that
is well named and connected if the one it read is, and that removes something only
if its requester had read that configuration.  `Named` carries the first part over to
the prepared configuration and the buffer of an editor, `Guarded` ties the prepared
configuration to the version its requester had and to the one on disk after the last
comparison, and `Found` says that a discovery's connection is in its version.  `Coded`
is the invariant of the files: what is referred to is older than the clock and written
to its end, the file being written is referred to by nothing but the prepared
configuration, which finds all its other code complete, and a cleanup goes after
nothing in use.

The last section of `RunLifecycle_proofs` is the refinement, `PromiseKept`:
`Spec => KeepsPromise`.  Its mapping reads the promise's pending checkpoints,
invocations begun and invocations billed off the tables; its invariant `PromiseInv` is
`LifecycleInv` with two additions, that the key of an approval fact names its
checkpoint (`DecisionKeys`) and that a paused Run can be resumed within the bound.
Every transaction is shown to be one named step of `RunPromise` or a stutter.

`RunExecution_proofs` proves `TypeOK`, `EngineMatchesTables` with all its parts and
`WaitsAreServed`, for any number of threads, Runs, invocations and operations in flight.  The inductive
invariant says of every operation that what it has read stays true until it has used
it (`StageInv`): it has waited for the execution it awaits, the registry is empty for
a Run it reconciles or resumes, no Graph is left on the thread for which it installs
an execution.  What makes `StageInv` inductive is `DrainInv`, that `start_run` has
before it every Graph on the thread except the one of a Run that is still running,
and `ScopeInv`, that an operation touches only the thread whose lock it holds.
`LockInv` and `OwedInv` tie the lock of an execution to its holder and to the facts
not published yet, `TaskInv` and `GraphInv` a task to the registry and to the status
in the table.  `ConstantsAssumption` says that the values `"free"` and `"task"` of a
lock are not the names of operations: the proof needed it, and the model means it.  `WaitsAreServed` rests
on three facts above that invariant: the lock of a thread belongs to an operation inside
its section (`SlotInv`), what an operation waits for has begun (`BegunInv`), and the Graph
it waits for was asked to stop (`EndingInv`).

`MessageIngestion_proofs` proves `TypeOK`, `MessagesAreWhole` and `NothingAfterTerminal`,
all the safety the run checks.  The invariant says that a preview is sealed exactly
while a final Run still has its task; that the numbers shown are the numbers reserved,
one for each message, and the row takes it; that only the Run that generated a message
reserves its number, and another Run writes it only when that Run is final; and that
text that was shown and is no message yet is in the buffer of its Run, unless the end
of a process cut that Run or a recovery failed it in its pause.  A conflict of sequence numbers then needs such a cut.

`MessageView_proofs` proves of `StreamObservation` `TypeOK` and `ObserverGetsAll`, for any
number of invocations, numbers and pieces.  The invariant has five parts: how far the invocation
is, who holds the lock and what the status is (`StageInv`); that the start of an
invocation cuts the numbers exactly between the earlier invocations and the later ones,
and that a reserved number is no fact's (`NumberInv`); that what is committed and not on
the stream is owed by whoever must publish it (`OwedInv`); that a stream is well formed
and follows the tables (`StreamInv`); and that an observer has had the history, then a
prefix of the stream (`ObserverInv`, of which `Watches` is the part of one observer).  The
history an observer is given is the set of numbers put in order; `InOrderLists`, from
counting lemmas about finite sets, says that this is a listing.  `StepKeeps` is proved
of a step of the backend or of one observer, one that gives up in the middle included.

It reuses this for a window whose connections come and go: `ViewTypeOK`,
`ObserverGetsAll` of every connection and `ReplyIsShown`.  The text of a preview is on the
stream as far as it was produced, each piece after the one before it (`PieceInv`); texts
no longer change once they are messages, and a final Run has no new ones (`Grows`); what
the window shows of a message is the message, and of a preview its beginning (`Shown`),
made of exactly the pieces this connection brought (`Brings`); the numbers a read was
answered with are saved messages, and of a final Run all of them (`ReadInv`); and a
window that never had a connection shows no preview (`NewWindow`).

`Window_proofs` proves `HandlesAreLive`, `EventsAreComplete`, `OpensWhatWasConfirmed` and
`WorkspaceTypeOK` of `Window`, for any number of references, snapshots, versions of the
file, commands and boundaries.  Its invariant `WindowInv` is a conjunction of parts with
their arguments spelled out, so that a handler is the composition of what it does to each:
the newest startup is among the snapshots (`HostOK`); a reader of an image waits for
something asked, and URLs and resources correspond (`ImagesOK`); every command of a file is
of a known intent, beside a preparation of an intent is no other command of it, and an
active open holds the version confirmed and the one used intent, which is not void
(`FilesOK`); the Run details hold what they were told of, or read again, or missed it
during the supplement (`EventsOK`); what is in front is about the address in use (`Front`);
and the area of the extensions is entered at rest, so that what happens there touches
nothing of this (`Hidden`).  How a handler may change the set of commands is stated once
(`DropKeeps`, `RelabelKeeps`, `VoidKeeps`, `ReplaceKeeps`).  The only assumption is
`WorkspaceConstants`.

`RunView_proofs` proves all that MCRunView checks, `TypeOK`, `RestAgrees`,
`NothingIsTakenBack` and `NoBlindRepeat`, for any number of resumes, failures, requests and
retries, from `RunViewConstants`.  Its invariant `RunViewInv` relates the store, the
backend's Run, the wire and the late POSTs: whoever says that the Run is over is right
(`TruthOK`); an answer whose versions have not moved is not older than the usage on show
(`UsageOK`); a write, its POST, its backup and the GET that verifies it belong together
(`WriteOK`, `ReadFine`), and a verified write of unknown outcome has been read for; while a
decision is out nothing else is, and it is of a pause the Run has reached (`DecidingOK`); a
frame tells what was so, and a request for approval is of the pause the Run is in unless its
decision may be on its way or a cancel is in doubt (`WireOK`); a stream ends with what ended
the execution (`StreamOK`); what is late is known to be in doubt (`LateOK`); and where no
stream is followed the Run is over, in the pause that was heard of, or in doubt (`ClosedOK`).
`RestAgrees` follows from these at rest, where no doubt is left that the window does not
show.  That a Run which was resumed may yet be shown as paused, or the reverse, is excluded
by `Latest`: no decision is late for a pause after the one it is about.  The handlers are
compositions, so the lemmas are about compositions: `ReadOnly` is what any change of the
shared GET may do to a store, `RunTold` what any partial update may, `Observing` what the
begin or the end of an observation may, and `Calm` is what is left of the invariant while no
stream is followed.  One lemma per action, `...Keeps`, shows the invariant and the step
properties together (`StepOK`).

`Conversation_proofs` proves all that MCConversation checks -- `NothingGoesBack`, `TypeOK`,
`SendsAreAccountedFor` and `TextIsKept` -- for any number of conversations, sends,
texts and messages and any size of a page, from `ConversationConstants`.  The invariants
are in `ConversationAccounts`.  The first, `ConversationInv`, says of the backend that a conversation's Runs are over but for the last
and that its messages are in the order of the Runs (`HistoryOK`); of every projection that
it is so (`KnownOK`) and of what is shown that it is known (`ThreadOK`); of the answer to a
read of the history that it has the Run that was known when it is applied (`AnswerOK`),
which holds because a POST, that could bring a later Run, is never out beside such a read:
`UnderWay` says what is out for the conversation on show, `Quiet` that nothing is but the
read that opens it.  A Run the POST has brought and the window has not accepted is later
than all it knows (`Ahead`).  In the list, an entry of an answer was so once, and one that
would put an item back has an earlier time of update or the list has learned of the item
since it asked (`EntryOK`); of two answers the one with the later time of update is the
later one (`InOrder`).  What the backend does is shown to be a
growth (`Grows`, `GrownFine`) under which all of that stays.  `Good` is the invariant with
its arguments spelled out; one lemma per action shows that it keeps it and goes onward
(`...Keeps`).

The other three properties need the books: `AccountsInv`.  A message that was sent became at
most one Run of its conversation (`HistorySends`), or its POST still waits, once, with the
window or without it (`WaitingOK`); `Taken` are the messages of either kind.  For each of
them (`ThreadBooks`) the submission of its conversation is still its own, or the user knows
of it, or has sent again himself; and the draft shares no text with it, unless its submission
is still open.  That is why a draft cannot bring a text out twice (`Apart`): an open
submission allows no other send than the user's explicit one.  A draft is the submitted one,
by version and text, or has nothing in common with it (`SameOrApart`), so clearing it after
the acceptance takes nothing the user typed since; the same holds of the draft a new
conversation is made from (`NewOK`), and a conversation that is about to be shown has no
draft that this one would overwrite.  A window that has read a conversation shows the Run of
its accepted message or a later one, and the history being read has it (`AcceptedOK`), from
which `NeverLooksUp` follows.  `KeptOK` is stronger than `TextIsKept`: a text is in a draft or
in a Run, never in a submission alone.  The record in storage satisfies the part that a
restart needs (`DiskAccounts`), also when nothing is saved any more (`SavedAccounts`).  An
action that only reads, ends or gives up what is out does nothing to the books but note that
an outcome is unknown: `Settles` and `Dims` say so, `SettledAccounts` shows it once for all
of them, and only those that type, send, accept, refuse, create, confirm, serve or start the
window again have a lemma of their own (`...Accounts`).

Model-checked only: the liveness of every run (`OperationsEnd`, `ExecutionsEnd`
and the others), since fairness and ENABLED are beyond the prover; and so far all
that is said of `ExtensionPages` (with it `TypeOK` of `Window` in full,
`DraftsAreKept` and `WritesAreSettled`).

## Plan

1. done: `RunLifecycle`, `RunPromise`, `RunExecution`, `MessageIngestion`,
   `StreamObservation`, `ToolLibrary`, their MC modules.
2. done: the window: `RunView`, `MessageView`, `Conversation`, `ExtensionPages`,
   `Workspace`, `Window`.
3. Proofs: done for `RunLifecycle` (with `KeepsPromise`), `RunExecution`,
   `MessageIngestion`, `StreamObservation`, `MessageView`, `ToolLibrary`, `RunView`, the part of
   `Workspace` in `Window` and `Conversation`; next `DraftsAreKept` and
   `WritesAreSettled` of the window.
4. `ToolCalls`: cancellation through the bridge, tests and their records, shutdown, the
   one cancel an MCP session may issue.
5. Desktop: `BackendManager` with the backend's control pipe, single instance, data
   ownership.

## Not modelled

Deltas of reasoning, the titles of conversations, the reading position of a chat; agent
assembly, OpenAPI conversion, schema forms, the files of a workspace, rendering,
search and export: construction, conversion and presentation without state that two
actors share.  The checkpointer, tool calls, the goal middleware and the desktop's
process are left to the plan; the modules above take them as external.

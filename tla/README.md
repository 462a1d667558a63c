# Echadron in TLA+

Echadron is a harness for coding agents: a session holds agents, an agent runs
turns, a turn asks a model what to do next and executes the tools it asks for.
This directory holds TLA+ models of its current engine, `packages/agent-core-v2`, and of
its embedded store, `packages/minidb`, with the TLC configurations that check the models
and proofs about them. Paths below are relative to the repository; `agent/...`,
`session/...`, `persistence/...` and `wire/...` stand for directories of
`packages/agent-core-v2/src`.

## The system

The repository is a TypeScript monorepo. The engine is a set of services in three
scopes (application, session, agent), wired by dependency injection; the clients
(terminal, web, editors, the ACP adapters) drive it through `kap-server`, `klient`
and `node-sdk`. JavaScript runs one task at a time: two services interleave at
every `await`, and a service that publishes an event runs its subscribers, which
may call it back, before its own next statement.

| Component | State | Operations | Talks to | What makes it correct |
|---|---|---|---|---|
| Turn lifecycle, turn clock (`agent/loop/loopService.ts`, `turnOps.ts`) | queued turns, active turn, next reserved number, leases; durable: `TurnModel` | create, start, end, cancel, lease, dispose, restart | wire log, event bus | one turn at a time, in order; numbers unique and equal to those of a replay; no turn under a lease |
| Agent loop (`loopService.ts`, `stepRequest.ts`, `stepRequestQueue.ts`) | requests, steps, per-turn and standalone queues, held admissions, settle waiters | enqueue, abort, cancel, run a step, recover, settle | model requester, tool executor, hooks | no request lost, no promise left open, every turn ends |
| Step ceiling, retry, stop hook (`loopContinuationService.ts`, `agent/stepRetry`, `agent/externalHooks`) | attempt counters | loop hooks and error handlers | agent loop | bounded steps; a retry comes first |
| Prompt scheduler (`agent/prompt`) | active prompt, pending prompts, steered prompts, the launch under way | enqueue, steer, abort, clear, start next | loop, hooks, compaction | one prompt at a time, in order; none lost or stranded; each settles once, with its turn, whatever an await lets in |
| Tool execution (`agent/toolExecutor`, `agent/toolDedupe`, `agent/toolApproval`) | prepared, queued and running calls, shared results | prepare, veto, approve, execute, give up, finalize | loop, interactions | conflicting calls never overlap and keep their order; duplicates share one result; every call is answered |
| Full compaction (`agent/fullCompaction`) | the one running compaction, counters | begin, cancel, complete, recover a step | loop, wire log, requester | one at a time; the log tells which runs; a cancelled one touches nothing |
| Goals (`agent/goal`), background tasks (`agent/task`), undo (`agent/undo`), cron and swarm (`session/...`) | goal, tasks, jobs | enqueue requests, hold a lease, notify | loop, wire log | budgets hold; a task ends once and is announced once; undo sees no turn |
| Interactions (`session/interaction`) | pending approvals and questions, the journal of each agent | request, respond, cancel for a turn, remove an agent | tools, tasks, clients | each is resolved once; none that a tool call awaits outlives its turn; clients see the same list |
| Append log (`persistence/backends/node-fs/appendLogStore.ts`) | per key: pending records, flush in flight, sticky failure, owners | append, read, rewrite, flush, acquire, release | file system | nothing outstanding is lost, reordered or written twice; the file stays readable |
| Wire service (`wire/wireService.ts`) | models, queued operations, queued blobs | dispatch, restore, seal, flush | append log | what is dispatched is logged in order, once; replay gives the same models |
| minidb (`packages/minidb`) | table, WAL, snapshot, lock file | write, compact, rotate, recover, lock | file system | reads are explained by the writes; acknowledged writes survive a crash; a rotation fails nobody |
| Session event broadcaster (`packages/kap-server`) | sequence numbers, buffer, epochs | publish, subscribe, replay | clients | no gap that a client does not learn of |

Hard behaviours, listed line by line under `hazards` in `PROJECT.json`: re-entrant
calls from event subscribers, state read before and used after an await, leases
against late requests, crashes between two log records, retries among requests
that came meanwhile, promises that nobody settles.

Outside this project: `packages/agent-core` (the previous engine), the user
interfaces under `apps/`, provider and OAuth clients, telemetry, the shell parser,
the pure transcript fold (except its turn clock) and the migration of old data.

## Modules

A module is named after the component it models, and a definition after the function
it translates where there is one. Operators ending in `_bug` (or preceded by a comment
"Mutant") are used by no action: each is the definition after it with a plausible
mistake, kept to show that a property can fail. The `MC` modules give TLC the model
values of the configurations beside them. Modules that end in `Proofs` hold theorems.

| Layer | Modules | How they compose |
|---|---|---|
| Loop | TurnLifecycle, AgentLoop | AgentLoop instantiates TurnLifecycle and implements it |
| Prompts | FullCompaction, PromptScheduler | PromptScheduler extends FullCompaction and closes its actions |
| Tools | ToolAccesses, ToolScheduler, ToolBatch | ToolBatch runs ToolScheduler with the conflict relation of ToolAccesses, and implements it |
| Users | Interactions | the kernel, its callers in every agent, and the clients' bridge |
| Log | AppendLog, AppendLogStore | AppendLogStore implements AppendLog |
| Store | DurableMap, MiniDb | MiniDb implements DurableMap |
| Common | Queues, QueueTheorems | the filtering of arrays (AgentLoop, PromptScheduler, AppendLogStore, DurableMap, MiniDb), and the facts about queues the proofs cite |

### TurnLifecycle

The turns of one agent and nothing of what runs in them. Its variables are those of
`AgentLoopService` (`pendingTurns`, `active` for `activeTurnJob`, `leases` for
`quiescenceDepth`, `disposing`, `nextReserved` for `nextReservedTurnId`) and of the
durable `TurnModel` (`nextTurnId`, `cancelledTurnIds`), plus `prompted`, the turns
with a `turn.prompt` record. One action per operation: `AdmitTurn` (enqueue of a
request that opens a turn: reserve a number, queue, pump), `PumpTurns`,
`ReleaseActiveTurn`, `CancelActiveTurn`, `CancelQueuedTurn`, the two lease
operations, `Dispose` and `Restart`. `advanceTurnClock` is written as what its loop
computes: the first number that is not cancelled.

The delicate point is that a `turn.prompt` record does not say which turn it
starts: the clock moves by one and skips cancelled numbers, while the live number
was reserved earlier. `ClockAccountsForReservations` is the invariant that keeps the
two together. The reducer of `context.append_loop_event` (turnOps.ts:34) raises the clock
to a number seen in a step event; it is not an action, because the proof shows that
every logged turn is already numbered below the clock.

`AbruptCrash` says whether a restart may come without the drain of `dispose`.
`PersistedClocks` are the clocks a log may replay to, with the assumption that
advanceTurnClock leaves only cancelled numbers above the clock.

### AgentLoop

Everything inside and around a turn: `Enqueue` with the admission modes of
`StepRequest`, held admissions, aborts, the runner and its error paths. It
instantiates TurnLifecycle as `Turns` and joins each action of it to what the same
code does to requests and steps, so the turn part is written once. A request has a
kind, named after the constructor that builds it in the code:

| kind | built by | opens a turn | mergeable | dropped when the run ends |
|---|---|---|---|---|
| prompt | PromptStepRequest, RetryStepRequest, goal continuation | always | no | yes |
| steer | SteerStepRequest | never, needs one | yes | no |
| inject | SteerStepRequest with `activeOrNewTurn`, task notification | if none is active | yes | no |
| message, continuation, landing | MessageStepRequest, ContinuationStepRequest (also a goal's, after a step), the landing prompt | never, may wait for one | no | yes |
| stop_hook | the Stop hook's ContinuationStepRequest | never | yes | yes |

`phase` is the runner's place in `runTurn`: begin (beginLoopStep), hooks
(onWillBeginStep), model, tools, after (onDidFinishStep), stop_hook, complete,
backoff and compacting (the two handlers that recover a step), resume, ending. A
section of code without an await is one action, except where the loop publishes
turn.started or turn.ended, or admits held requests, in the middle: there the
section is split, and `Free` and `Callable` say that nothing but a call from such a
subscriber may come in between. Events of other kinds are not split.

### FullCompaction and PromptScheduler

`FullCompaction` has the running compaction (`compacting` for `_compacting`), the
worker of each compaction that was begun, and what the records in the log say. A
cancelled worker goes on until its next look at the signal, so several may be alive.
`rewrite` replaces the history after a summary (`Summarized`) or without one
(`Folded`); between it and `WorkerEnds` the worker rebuilds the system prompt and the
reminders without looking at the signal.

`PromptScheduler` extends it by `promptService.ts`: `pending`, `launching` with
`launchPc` for the `startNext()` that is under way, `active`, and `steered`. The loop is
reduced to its active turn, its queue and one lease, which is what the service sees of
AgentLoop; a turn of another service (`Other`) may be ahead of a prompt's. `startNext` is
one operator that every caller applies to the queue and states it leaves behind, because
the code calls it synchronously at the end of its own finally block, of `settle`, and of
the compaction's event. `recurse` is the case in which that call never returns.

The service learns of the end of a turn late. `TurnEnds` leaves the loop with its next turn
or none, `ResultResolves` puts `settle` into the microtask queue and `Settle` runs it; in
between, `active` is a prompt whose turn is over, and every handler may run. A queued turn that
is cancelled is resolved at once. `steer` is two actions: `SteerBegins` takes the prompts out of
`pending` and enqueues the request, which the loop assigns to the turn it runs (whoever's), holds
under a lease, or refuses by throwing when it is idle; `SteerResumes` is what follows the await
and reads `active` then. Its continuation takes one microtask, so its order against `settle` is
that of the queue (`ahead`, `settleRuns`), and it precedes the end of any hook (`hookReturns`). The
prompts that a steer took and then failed on are in `dropped`: refused by an idle loop, rejected when
a lease is released, or left by the TypeError of reading `active.id` after `settle`. Nothing in the
code refers to them any more.

### ToolAccesses, ToolScheduler and ToolBatch

`ToolAccesses` is the conflict relation of `toolContract.ts`, with a reference beside it:
`Independent` says of two calls what they may really touch. `ToolScheduler` is the
scheduler alone, for any symmetric relation: `AddAll`, and `Finish` with the scan of the
queue. A call is its index in the batch, so the order of the queue is that of the
indices. `ToolBatch` is `execute` around it: the calls are prepared one after the other
(skipped, settled early, allowed by plan mode when it is on, checked for duplicates, put to
the user),
added together, run, left behind two seconds after an abort, and finalized by the hooks in
their order, where a duplicate waits for the deferred of its key. `executing` are the
tools that really run, also those nobody waits for any more.

### Interactions

The pending map of `InteractionService` is shared by the agents of a session. `Ask`
parks a request with its origin and writes it to the agent's wire; `resolve` is the common
part of `respond` and `cancelPendingForTurn`. An approval is only raced against the
signal of its turn, so its entry outlives its caller (`leftByAbort`); a question follows the
signal (`dismissedByAbort`); a background question belongs to a task that outlives the turn.
`handle` follows `remove` through its awaits. The bridge of the event broadcaster may attach
at any time, and `events` are what a client that was there from then on has seen.

### AppendLog and AppendLogStore

`AppendLog` is what the log promises its callers: a durable history, a tail of
outstanding appends, the rewrites called but not settled, and whether a storage failure
is unrepaired. A rewrite replaces the history and never the tail, so nothing of the tail
may count as durable while one is outstanding, nor after a failure, until a rewrite
succeeds or the last owner gives the tail up. `AppendLogStore` is the store for one key,
shown to implement it.

Its state is `LogState`, for each *generation* of the buffer: `state()` makes a new one
after the last owner has released the old one, whose records may still be in flight
(`ready` is the promise the new one waits for). The promises of a generation form a
chain; `op` is what its first link does (`drain` before an append, `append`, `prior` for a
rewrite that waits, `write`), `rewrites` holds the replacements of the rewrites in the
chain, and a call of `flush()` is followed by the number of links ahead of it. So
`state.flushPromise` is not a variable, and `cutoverEpoch` is not a counter: it has moved
since the drain began exactly if a rewrite waits behind that drain.

The file is a sequence of records and replacements (a replacement is one entry). A torn
append leaves `Torn` at its end, which `read` drops; what is written behind it completes the
line to `Garbage`, at which the code's read throws. A failed or interrupted call of the storage may have had
no, part of, or all of its effect. The file is not empty to begin with, because
`WireService.restore` writes the first record of a new log. `Rewrite` is called only
when the buffer before this one has retired: its callers read the log first, or write
a log of their own.

### DurableMap and MiniDb

`DurableMap` promises a map that is explained by the log of its writes: a crash takes away
a suffix of what was not answered, never an acknowledged write, and a batch whole or not at
all; the outcome of a write the caller was told has failed is open, key by key, until a later
write replaces it, so a rejected batch may stay in part.

`MiniDb` is one process of `packages/minidb` with fsyncPolicy `always`. A write passes the
gate of `_rotateLock`, is applied to the map in the tick in which its frame is appended,
and is answered when the batch it is in has been written and synced; if that fails, each
write rolls itself back (`restoreKeys`, by the seq of the record, here `by`). A compaction
fences the log, iterates over the map while writes go on, copies the tail, seals and drains
the log, and renames the snapshot, then the log. `Crash` is a loss of power at any point:
what has not been synced survives as a prefix, and `Recovered` replays the log on the
snapshot. A frame has length 1, so an offset is an index; in `valueMode: 'disk'` a record is
such an offset, in one of the two files.

## Runs

| Run | Checks | Bounds |
|---|---|---|
| turn_lifecycle | TypeOK, ClockAccountsForReservations, TurnIdsNeverReused, NoTurnUnderLease, TurnsStartInOrder, ReplayAssignsSameId | 5 turns, 2 leases, 2 restarts, drained or abrupt, a fresh log |
| agent_loop | LoopInvariant, NoRequestLost, PromisesSettle, AbortedNeverDrives, RetryComesFirst, RefinesTurnLifecycle | a prompt, a steer, a message, a Stop hook's request, a continuation, a landing; 2 steps, 2 attempts, 1 overflow, 2 leases |
| agent_loop_live | EveryTurnEnds, SettledReturns, HeldIsAdmitted | a prompt, a notification, a steer; 2 steps, 2 attempts, 1 lease |
| append_log_store | BufferInvariant, FlushIsDurableOrCutOver, RefinesAppendLog, AppendsAreWritten | 2 appends, 3 rewrites, 2 generations, 2 owners, 1 crash; no torn lines |
| append_log_reopen | Readable, violated | 2 appends, 1 rewrite, torn lines, 1 crash |
| tool_batch | BatchInvariant, NoMissedStart, ConflictingToolsNeverOverlap, DuplicatesShareTheResult, RanCallKeepsItsResult, ImplementsScheduler, EveryCallIsAnswered | 4 calls, two with one key and two with another that plan mode may allow; each touches nothing or writes the one file; an abort, a disposal |
| prompt_scheduler | QueueInvariant, NothingLost, StartedInOrder, SteeredSettlesWithItsTurn, CompactionsAreSerial, EveryPromptSettles | 3 prompts, 1 turn of another service, 2 compactions, 1 lease |
| prompt_compaction | WaitsForCompaction, violated | 2 prompts, 2 compactions |
| interactions | KernelInvariant, BridgeFollowsKernel, NothingLeftBehind, AnsweredOnce, RemoveReturns | 2 agents with 1 turn each, an approval or a question, and a background question |
| interactions_turn | CancelledByItsOwnTurn, violated | 2 agents, 1 request |
| minidb | StoreInvariant, RefinesDurableMap, EveryWriteIsAnswered | 2 keys; a set, a delete, a batch; 2 compactions, 2 crashes; values in memory and one failing call of the storage, or values on disk and none |
| minidb_offsets | PointersReadTheirValue, violated | the same writes, values on disk and one failing call |

*Why the bounds are enough.* Five turns allow one that runs, two that wait and two
created after a restart; two nested leases tell the last release from another. In the
loop, one request of every kind that joins a turn meets the safety run, and one of every
kind that may open, hold or need one meets the liveness run; the ceiling, the landing, a
retry and a recovery of the landing are all reached. Of three prompts one is active, one
under way or waiting and one steered, and the turn of another service lets an active
prompt's turn be queued and takes in a steer of its own; one steer at a time is between its call
and its continuation, and new prompts take their names in a fixed order, which loses nothing as
names are interchangeable; the second compaction is begun while the worker of the first,
cancelled one is still busy. Of four calls one runs, one waits for it, one behind is free
to overtake, two are duplicates, and of two others each may run unchecked before or after the
other is checked; which accesses conflict is proved for all paths
(NoConflictMeansIndependent), so that one file suffices. Two agents are what a shared
turn number needs. For the append log, two records and three rewrites allow a rewrite that
waits behind another over records in flight; two generations are a buffer that retires and
the one that waits for it. For minidb, a set, a delete and a batch give every pair of writes
of one key in both orders, and the second compaction begins from the files of the first.

Deadlock is not checked: a loop, a kernel or a store with nothing to do is idle, and a log
that nobody opens again is done. Requests, turns, prompts, writes and calls are finite sets; leases,
restarts, compactions, crashes and an agent's turns are bounded in the guard of the
action that creates them (`MaxLeases`, `MaxRestarts`, `MaxCompactions`, `MaxCrashes`,
`MaxTurns`, `MaxGens`, `MaxOwners`), failing calls of the storage by `Worlds`; `steps` is
bounded by the code itself.

*Fairness.* Nothing is asked of clients and users: nobody need enqueue, answer, cancel,
dispose, begin a compaction or open a log again.

- AgentLoop: the runner takes a step when it can, because each of its awaits ends (a model
  call, a tool, a hook and a backoff end in a value, an error or the abort of the signal
  they were given); and a lease is released, because its one holder, undo
  (`agent/undo/undoService.ts:100`), disposes it in a finally block.
- ToolBatch: the executor's own steps, the grace timer, and the answer of a user who is
  asked (`OwnStep`). One condition for all of them together asks no more than one for each,
  and no less: a batch has finitely many own steps, so a run that takes one whenever there is
  one takes them all. A tool need not return, so `EveryCallIsAnswered` excepts one that hangs
  in a turn nobody aborts, and the disposal of the agent.
- PromptScheduler: hooks return, turns end (EveryTurnEnds of the loop), microtasks run, undo gives
  its lease back, the workers of compactions end.
- Interactions: a turn whose tool calls have returned ends, and `remove` goes on after its
  awaits. The user owes no answer.
- AppendLogStore and MiniDb: microtasks run and a call of the storage returns or fails. A
  flush ends also because appends are finite: in the code it goes on as long as records come.

A turn that has ended, a prompt that has settled and a call that was answered stay so, and
there are finitely many of them. So "each of them ends" is stated as "again and again none is
open" (`EveryTurnEnds`, `EveryPromptSettles`, `EveryCallIsAnswered`), and for the writes of minidb as
"some day all are answered": one formula for TLC to follow instead of one for each.

## What was found

Four runs show that the code does not do what one of its own documents says.

- append_log_reopen: a torn line at the end of the file is dropped by `read` but stays in
  the file, and the next append is glued to it. `restore` rewrites the log only if it
  is empty or of another version, so after a crash in the middle of an append the first
  record of the next process spoils the log: every later read throws.
- prompt_compaction: `startNext` during a compaction over an idle loop puts its item back,
  and its finally block calls it again in the same tick, until the stack is exhausted. A
  prompt submitted while the scheduler is idle is safe; one behind a blocked prompt, or
  waiting when a turn ends under a background compaction, is not.
- interactions_turn: `cancelPendingForTurn` compares turn numbers only, and every agent counts
  from 0, so the end of one agent's turn cancels what another agent waits for.
- minidb_offsets: a batch that fails does not take back the offsets it was given; every later
  pointer of that log leads behind its value.

Other places where code and documentation differ, or where a promise is weaker than it
looks. The models have this behaviour, and their properties are stated so that it is
allowed:

- After a crash with turns queued and a later one cancelled, the loop numbers new turns
  without skipping the cancelled number the log still holds (`loopService.ts:375` against
  `packages/transcript/src/history/foldFacts.ts:248`). `ReplayAssignsSameId` holds until a
  crash loses a turn; TurnIdsNeverReused holds always.
- A steer or a task notification that joins the queue after the last batch was taken, or
  waits in a turn that the user cancels, is cancelled with the turn (`releaseActiveTurn`),
  although `stepRequestQueue.ts` says that such requests carry into the next turn. A
  notification is then announced only after an undo or a restart (`clearPendingNotification`).
- A `flush()` that started a drain resolves when a rewrite cuts the drain short, before its
  first append. What holds is FlushIsDurableOrCutOver.
- An approval that is aborted makes `execute` throw: calls already prepared are not answered.
  A disposed loop throws in the delivery hook, and the dedupe hook behind it never
  resolves the deferred its duplicates wait for. A call that plan mode allows outright is not
  checked for duplicates before it runs: two with one key both run, and the later is answered
  with the result of the earlier (the exceptions in DuplicatesNeverRun and RanCallKeepsItsResult).
- `steer` loses prompts when it fails. It takes them out of the queue (`promptService.ts:139`)
  before anything can go wrong: `enqueue` throws when the turn has ended and `settle` is still to come
  (147); a request held under a lease is rejected when the lease is released; and if `settle` was ahead
  of its continuation, `this.active.id` throws a TypeError (150) with the prompts already marked as
  steered. In each case nobody puts them back and their completion never resolves, although the service
  "settles lifecycle handles" (`promptService.ts:6`). These are `dropped`, the exception in NothingLost,
  StartedInOrder and EveryPromptSettles; TLC reaches all three. Line 148, a turn that is undefined,
  cannot happen: the loop resolves `assigned` with a turn or rejects it. Nor is another prompt active
  after the await: a start takes more microtasks than the continuation.
- A prompt steered into the turn of another service is filed under the prompt that waits behind it (the
  exception in SteeredSettlesWithItsTurn).
- A background question is meant to outlive its turn: "The answer arrives automatically in a later
  turn" (`askUserQuestionTool.ts:76`), "you are notified automatically when the user answers"
  (`ask-user-question.ts:92`), and the user's answer "settles the task later"
  (`question-background-task.ts:7`). But it is parked with the turn's number, so
  `cancelPendingForTurn` ends it with the turn, and the user finds nothing to answer. The model does so
  too; NothingLeftBehind asks it of the questions and approvals of tool calls only, and holds as
  well if background questions are left alone.
- An agent that is removed is no longer found by `originWire`: what is resolved from then on is not
  journalled.
- undo looks only for a running compaction, and the worker of a cancelled one may still
  append reminders to the context that undo cuts. A compaction cancelled while it rebuilds
  the context has already replaced the history although it is reported as cancelled.
- minidb: a rejected batch may be undone in part, although batch is "all-or-nothing"
  (`index.ts:793`, `packages/minidb/README.md:196`) and is "rolled back if the WAL write fails, preserving
  atomicity" (`index.ts:818`). When a batch of two keys and a later set of the first fail in one flush,
  the batch's rollback passes over the first key, which the set has replaced, and undoes the
  second; then the set's rollback puts the batch's value back at the first. The reader sees
  half a batch that was reported as failed. The run reaches this, and `Reject` in DurableMap allows it,
  key by key. What RefinesDurableMap says of batches concerns crashes: a batch that was not answered is
  recovered whole or not at all.
- minidb: a write that fails after a later one of the same key has been answered may bring
  back what that one deleted (`index.ts:932`); two failing writes of one key leave the value of
  the first; a snapshot may contain a value whose write is then rejected, and rejected frames
  that reached the file come back at recovery. Therefore `Disputed` in DurableMap.
- The torn line of append_log_reopen needs no crash: an append that fails half way leaves one,
  and if the last owner releases the log then, the buffer is given up (`settleRetiredState`) and
  the next one in the same process appends behind it. `RepairedLogsAreReadable` has both cases.
- minidb, values on disk, a batch that fails while a compaction runs: the snapshot has
  skipped a key because the delete in that batch was applied; the rollback puts back a pointer
  before the fence; the rotation takes that part of the log away. The value, acknowledged
  long ago, is then in neither file. So it is not only wrong offsets (minidb_offsets)
  that lose values, and `PlacesHold` below has two parts.

## Proofs

tlapm checks every theorem for all values of the constants that satisfy the named
assumptions of the modules.

| Module | Theorem | States |
|---|---|---|
| TurnLifecycleProofs | TypeCorrect | `Spec => []TypeOK` |
| | ClockIsAccountedFor | `Spec => []ClockAccountsForReservations` |
| | NoReuse | `Spec => []TurnIdsNeverReused` |
| | LeaseExcludesTurns | `Spec => []NoTurnUnderLease` |
| | StartOrder | `Spec => TurnsStartInOrder` |
| | ReplayAgrees | `CleanLogs => (Spec => ReplayAssignsSameId)` |
| AgentLoopProofs | LoopImplementsTurns | `Spec => RefinesTurnLifecycle` |
| | LoopKeepsItsBooks | `Spec => []LoopInvariant` |
| | NoRequestIsLost | `Spec => []NoRequestLost` |
| | PromisesAreSettled | `Spec => []PromisesSettle` |
| | AbortedNeverDrive | `Spec => AbortedNeverDrives` |
| | RetriesComeFirst | `Spec => RetryComesFirst` |
| ToolBatchProofs | SchedulerKeepsOrder | `SchedulerSpec => []ConflictsInOrder` |
| | SchedulerMissesNoStart | `SchedulerSpec => []NoMissedStart` |
| | NoConflictMeansIndependent | calls that do not conflict are independent |
| | RunningToolsAreIndependent | `Spec => []ConflictingToolsNeverOverlap` |
| | BatchIsOrderly | `Spec => []BatchInvariant` |
| | DuplicatesAreAnswered | `Spec => []DuplicatesShareTheResult` |
| | RunsAreAnswered | `Spec => []RanCallKeepsItsResult` |
| | BatchImplementsScheduler | `Spec => ImplementsScheduler` |
| | ConflictMeansDependent | calls that conflict are not independent |
| | BatchNeverStuck | `Spec => []SomebodyGoesOn` |
| PromptSchedulerProofs | SerialCompactions | `Spec => CompactionsAreSerial` |
| | PromptsHaveTheirPlace | `Spec => []PInv` |
| | QueueIsServed | `Spec => []QueueInvariant` |
| | NothingIsLost | `Spec => []NothingLost` |
| | PromptsStartInOrder | `Spec => []StartedInOrder` |
| | SteeredSettle | `Spec => []SteeredSettlesWithItsTurn` |
| InteractionsProofs | KernelIsConsistent | `Spec => []KernelInvariant` |
| | TurnsLeaveNothing | `Spec => []NothingLeftBehind` |
| | BridgeIsFaithful | `Spec => []BridgeFollowsKernel` |
| | ResponsesAreFinal | `Spec => AnsweredOnce` |
| | OwnTurnCancels | `Spec /\ []NumbersDiffer => []CancelledByItsOwnTurn` |
| | LoneAgentCancelsItsOwn | the same of `Spec` alone, for one agent |
| AppendLogStoreProofs | OneBufferAtTheFile | `Spec => []BufferInvariant` |
| | FlushesAreDurable | `Spec /\ [][TornIsRepaired]_vars => FlushIsDurableOrCutOver` |
| | StoreImplementsLog | `Spec /\ [][TornIsRepaired]_vars => RefinesAppendLog` |
| | RepairedLogsAreReadable | `Spec /\ [][TornIsRepaired]_vars => []Readable` |
| | WholeWritesNeedNoRepair | `~TornWrites /\ Spec => [][TornIsRepaired]_vars` |
| | WholeWritesKeepTheLog | `~TornWrites /\ Spec` gives all three |
| MiniDbProofs | RotationsRejectNothing | `Spec => []RotationRejectsNothing` |
| | StoreIsWellFormed | `Spec => []StoreInvariant` |
| | MapIsDurable | `Spec /\ [][PlacesHold]_vars => RefinesDurableMap` |
| | PointersLeadToFrames | `Spec /\ [][PlacesHold]_vars => []PointersReadTheirValue` |
| | AcknowledgedIsRead | `Spec /\ [][PlacesHold]_vars => []AnswersStand` |
| | WorkingStorageKeepsPlaces | `NoErrorsOnDisk /\ Spec => [][PlacesHold]_vars` |
| | WorkingStorageIsDurable | `NoErrorsOnDisk /\ Spec` gives the first two |

`NoErrorsOnDisk` stands for `\A w \in Worlds : w.disk => w.errors = 0`. `TornIsRepaired`,
`NumbersDiffer` and `PlacesHold` are conditions on the run, not on the constants: each says
what the code does not see to in one of the four violations, and a theorem beside it gives a
case in which the code does keep it.

*Turns.* None of the invariants is inductive alone. `IInv` rests on `Agree`, which relates the
queue, the log, the reservations and the clock: every number from the clock up to the
next reservation is queued or cancelled; queued numbers ascend and lie below the
next reservation; logged numbers are pairwise distinct, lie below the clock and below
every queued number; the clock is not cancelled. From this, the head of the queue is numbered at
or below the clock (`HeadIsNext`): were it above, the number the clock stands on would be neither
queued nor cancelled. So starting it moves the clock past its number and keeps it unique
(`StartKeepsAgree`). `Agree` is stated of arbitrary values because `CreateTurn` queues a
turn and may start another in the same step: the proof follows it in two halves
(`QueueKeepsAgree`, then `StartKeepsAgree`).

`ReplayAgrees` adds `Fresh`: every cancelled number has been reserved, and the number of a queued
turn is neither behind the clock nor among the cancelled ones. With it `HeadIsNext` becomes an
equation, as long as no crash has lost a turn. Its hypothesis `CleanLogs` says that no
replayed clock holds a cancelled number above itself, which is the case of a new log and of one
whose process ended by `dispose`; without it the statement is false, which is the first of the other
places above.

*Queues.* What `filter` leaves of a queue takes an induction over its length. The prover
cannot instantiate the library's induction theorems, but "a set of naturals that is not
empty has a least element" is a theorem without an operator parameter (`Least`), and the
recursive function inside `SelectIn` is a set of pairs of which one can speak for all
prefixes at once (`Follows`). So QueueTheorems shows that `SelectIn` embeds into its queue
(`SelectEmbeds`), and from that its elements, its order, its head, and that it repeats nothing.
In the same way it shows what joining the queues of several buffers gives (`FlattenJoins`), and
what `Before`, one element coming before another, becomes when a queue is appended to, joined,
cut or filtered.

*The loop.* Each action of AgentLoop is an action of TurnLifecycle or leaves its variables
alone. For that `LInv` needs two facts of the rest: `DrainIsOpen` (while releaseQuiescence
admits what was held, no lease is out and nobody disposes the loop, so a turn may be
created) and `EndHasOutcome` (a run that ends has one of the outcomes of a turn). With
LoopImplementsTurns the theorems about turns hold of the loop.

The invariants of the loop follow from `LoopHolds`, in layers; each rests on those before it.
`TurnsHold`: the types, each turn queued once, nobody working under a lease. `RunHolds`: a
run exists exactly while a turn is active, and has a driver exactly in the phases of a step.
`WakeHolds`: nothing is left over from a release, and who waits for `settled()` waits for something.
`RequestsHold` says of every request (`RequestHolds`) in which queues it may be, given its
receipt, and what its step may say: without "an assigned request is in no queue but its turn's,
and in that one while it is pending", NoRequestLost is not inductive. A step changes few
requests, so its effect on one of them is one of three: `Stays` (where it was, or it leaves), `Enters`
(from outside to held or standalone) and `Joins` (into a turn). `CeilingHolds` is why the turn is
bounded: while a landing request is queued or drives, `steps` is exactly MaxSteps plus what
stepRetry and fullCompaction have counted, and there is at most one of them, so an
alternation of the two recoveries cannot repeat the landing more often than the sum of their
limits. `RetryHolds` follows the failed driver from the backoff to the head of the queue; it needs
of everybody else only that they append (`Outside`).

*Tools.* `ConflictsInOrder` and `NoMissedStart` are inductive with the types and
`AddedTogether`. The batch adds that nothing runs while calls are prepared
(`PreparingRunsNothing`), that running tools are active or, after an abort only, left behind
(`RunningIsActive`), and that no two of them conflict (`NoConflictRuns`): a call is left behind
only once the turn is aborted, and from then on nothing begins. For the answers, `DInv`:
a key has at most one original (`OneOriginal`), only originals and unchecked calls are runnable
(`RunnableIsOriginal`), and what is shared under a key is an answer of that key (`AnswersFit`).
The scheduler's refinement needs no more than that calls are prepared once and together.

`BatchNeverStuck` is the safety half of EveryCallIsAnswered: a batch that runs and is not over has
a running task, a result to finalize, or a duplicate that can be answered. `KeysHaveOriginals` and
`LookedUpOnce` are what it needs: a key that a duplicate may wait for has an original, whose answer
resolves the deferred; a call is looked up once, and the batch is added as a whole. Of the
queued calls the first would wait for nothing, by NoMissedStart.

*Prompts.* `PInv` says of every prompt where it is (`Places`), that the loop's queue holds the
turn of the prompt whose turn has not ended (`Owner`) and foreign turns only (`Loop`), which turn each
prompt joined and which settled it (`Filed`), and that the prompts started are in the order of the
submitted ones with the waiting ones behind them (`Order`). `Steers` is what makes a steered prompt
settle with its turn although its steer awaits: one that joined a prompt's turn finds that prompt
active and stands before its `settle` in the microtask queue, and what was dropped joined no turn or a
foreign one. `startNext` is called by six handlers on the queue each leaves
behind, so the lemmas about it are stated of arbitrary queues and states, and each handler
hands over its own.

*Interactions.* `IInv` strengthens the run's invariants by `JournalFollows` (the journal of a
live agent has the request of each of its pending entries, once), `PendingInItsTurn` (what is pending,
background questions too, is of a turn that runs), `TurnsAreNumbered` (a turn
that runs has a number) and `DetachedIsSilent` (nothing is heard of a request before it is
asked, nor by a client before the bridge attaches).

`OwnTurnCancels` draws the line around interactions_turn: the turns that run at one time need
only have different numbers. Its invariant adds that a request is of a turn its agent has begun
(`AskedInTurn`), so that a number that runs nowhere else can only be its own turn's.

*The append log.* One writer is a fact about generations of buffers. `WorkWaited` says that a
buffer which is at the file, or has a rewrite or a failure to deal with (`AtWork`), has waited for all
before it and that they are still over. For them
to stay over, `GenerationsInOrder` says that all before the current buffer are retired, and
`RetiredIsDrained` that a retired one whose chain has ended without a failure has nothing pending
that could start it again. `ChainIsBacked` and `FlushWaits` say that what a chain and a flush
refer to is there.

Durability of `flush()` needs `FlushFollows`: what the call asked for is pending until it has
landed, and once it has, the call waits for one more promise, that of the drain at work. The
refinement needs `LogInv`: the log of AppendLog is the file followed by the buffers, oldest
generation first, where a write in flight may have put the first records of one buffer into the
file already (`FileHolds`), and no record is pending twice (`Distinct`).

Writes may be torn. While the buffer that tore a line still lives, its failure is sticky, so
nothing is appended until a rewrite has replaced the file: `Whole` says that the lines a
reader gets (`read`) are whole records and replacements, and that a torn line is at the end
of the file only while some buffer remembers its failure. The other invariants speak of these
lines. What the code lacks is a repair when the buffer is given up or the process ends; that
is `TornIsRepaired`, without which Readable is false, as append_log_reopen shows, and a record
appended behind a torn piece is lost although its flush resolves. A storage whose writes are
whole or absent needs no repair (`WholeWritesNeedNoRepair`), which is the case of the run
append_log_store. Before the proof TLC checked the invariants with torn writes under
`TornIsRepaired`.

*minidb.* Without faults nobody is rejected, because a call that is made again finds the lock
free, and a log is sealed only while the lock is held. StoreInvariant adds the types (`Typed`),
which are the first thing a rollback or a recovery could break: `BatchIsUndone` says what the
calls of a failed batch, one after the other, leave of a record, and `CrashLeaves` which frames a
loss of power leaves.

The refinement of DurableMap rests on `MapInv`. `Ordered`: the frames on their way to the file
(`pipe`: the file, the batch, the queue) are in the order of the log. `AckedAreSynced`: the frame
of an acknowledged write is synced, or every frame there is is of a later write, because a
rotation has put the write into the snapshot. `Explains` says that a value is what a logged write
made of its key, after which only the given others touched it. `ValuesAreExplained` is the
promise itself, with the rejected writes as the others. It is not inductive: a crash replaces the
map by the snapshot and the frames, so `SnapshotIsExplained` says the same of the snapshot, with the
writes that have a frame as further others; a rotation replaces the snapshot, so
`NewSnapshotIsExplained` says it of the one being written while writes go on, with the frames
behind the fence; and a failed batch puts back old records, so `PrevIsExplained` says it of
these, with the call itself and all writes after it, and `OwnRecords` says that the record whose `by` a call
recognises is of the last write of its key. `Copied` and `Copies` say what the new log and the new
snapshot have of the old ones. A recovered value is then explained by the last frame of its
key, since any acknowledged write after it would have a frame too; or, when no frame touches
the key, by the snapshot.

With values on disk a record is a place, and a place means nothing without its file. `RecordsLead`
says that every record leads to a frame or a snapshot entry with a value of its key, and what a
call would put back (`PrevIsExplained`) is said of the value that would be read there; `Untorn` that
no snapshot has a piece of a frame for a value. Calls that fail are allowed. The two conditions of
`PlacesHold` are what has to be asked of a run: a batch that lands comes to the places its
appends predicted (`LandsAsPredicted`, broken in minidb_offsets), and no batch fails while a
compaction is under way (`FailsBetweenCompactions`, see the last of the other places above). Neither
is asked of values in memory, and neither can be left out: TLC violates PointersReadTheirValue
with either alone. When no call of the storage fails they hold by the bookkeeping of the log:
`Predicted` says that the next offset is the length of `pipe` and that every frame on its way has the
place it will come to.

`AcknowledgedIsRead` says what a client sees of it: the value of a key is what the write that was
acknowledged made of it, or a later one. It follows from `ValuesAreExplained`, because an
acknowledged write that sets something is in the log (`AnsweredIsLogged`) and is not among the
rejected, so nothing before it can explain the value. TLC checked every part of `MapInv`, with
failing calls in both worlds, and AcknowledgedIsRead on the instance of the run, before they were
proved.

*Compactions* (of FullCompaction) need no invariant:
each step of FullCompaction keeps the log and the service together, and the rest of the
scheduler leaves both alone.

*Model-checked only.* Liveness, because the prover does not treat fairness: EveryTurnEnds,
SettledReturns, HeldIsAdmitted, AppendsAreWritten, EveryCallIsAnswered, EveryPromptSettles,
RemoveReturns and EveryWriteIsAnswered. Every other property of a passing run is stated by a
theorem. The four violations are shown by runs.

## Not modelled

- Streaming, telemetry, the contents of messages, the ordering of events other than
  turn.started and turn.ended, and the delays of the backoff.
- In TurnLifecycle, failures of the log: a dispatched record counts as durable. The
  wire service reports an append that fails and goes on; AppendLogStore has the failures.
- In AppendLogStore, more than one key (keys share nothing but `flush()`, which waits for
  each), more than one call of `flush()` in flight, and framing and decoding.
- In AgentLoop, PromptScheduler, ToolBatch and Interactions, restarts: one life of each
  service. TurnLifecycle, AppendLogStore and MiniDb have them.
- `run` called without an active turn, which drains the standalone queue; only tests do.
- Of prompts, duplicate ids and the disposal of the service; of interactions, the memory of
  resolved ids; of compactions, the limits per turn, the estimates of tokens and the
  normalisation of a log that a crash left running.
- Of the window between the end of a turn and `settle`, what a subscriber of turn.ended does before the
  loop has pumped its next turn; and requests of other services that a lease holds (AgentLoop has both).
- Of an append to a sealed log, the await between the op and its rollback (`index.ts:744-750`, `847-850`):
  `AppendToSealed` does both in one step, so nobody reads or writes in between.
- Of minidb, expiry and eviction, unique and derived indexes, fsync policies other than
  `always`, readers that follow another process, the lock file, the server and the cluster;
  and, as specific to Windows, the value reader that is closed before the renames.
- Of goals, tasks, undo, the session's agent lifecycle and the event broadcaster only the
  calls they make on the modelled parts.
- The components marked not_modelled in `PROJECT.json`.

## Plan

1. `Tasks`: exit, timeout, stop and detach of a background task, with its notification across
   undo and restart; composed with Interactions for background questions. To check: a task
   ends once, and every end is announced once.
2. `WireLog`: nested dispatch and queued blobs over `AppendLog`. To check: the journal has
   what the models have seen, in its order, and a replay gives the same models.
3. Restarts of PromptScheduler and FullCompaction, with the normalisation of the log.
4. minidb: expiry, the `Lockfile` between processes, readers that follow another process.
5. The event broadcaster's sequence numbers and replay, swarm runs, cron, the session lifecycle.

Theorems to add: what the invariants of the modules above turn out to need.

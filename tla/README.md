# TLA+ models of the WorldWave agent

WorldWave is a self-hosted agent. A *server* process (`server.py`) holds one
engine (`core/loop.py`) that works on a goal in *spirals* of perceive, recall,
plan, act, evaluate and learn, calls models and tools, and keeps its state in
memory and on disk. Chat platforms reach it through the *gateway* (Wavegate),
other programs through HTTP and gRPC. Threads, event loops, processes and timers
meet at a handful of shared objects, and these are what the modules here
describe: who may use them when, what is answered to whom, what is lost when
something raises, expires, restarts or is cancelled. Nodes can also join a small
proof-of-work chain over HTTP, and the agent edits, tests and commits code.

The modules are checked with TLC on small instances, and the properties that
matter most are proved with TLAPS for every value of the constants.

    tlc -workers 2 -config Engine.cfg MCEngine     # a run
    tlapm Engine_proof.tla                         # the proofs of a module

`PROJECT.json` lists components, runs, hazards, theorems and, for every
definition, the lines it translates.

## Inventory

Modelled, wholly or in part:

| Component | State | Operations | Shared with | What makes it correct |
|---|---|---|---|---|
| server, engine, state (`server.py`, `core/loop.py`, `core/state.py`) | session locks, engine lock, `running`, error reason, session, checkpoints, session files, `_last_result` | `run_task`, `run`, `prepare_for_run`, `interrupt`, `_save_session`, `_load_last_session`, `stop` | task queue, autonomous scheduler, agent service, goals | each request gets its own result and verdict; windows do not share a session; `stop` ends the run it hits; nobody waits for ever |
| task queue (`core/task_queue.py`) | tasks, history, counter, semaphore | `submit`, the task's thread, `result` | HTTP endpoints | slots add up, no unfinished task is forgotten, answers are whole |
| outbound gate (`gateway/outbound.py`, `gateway/bridge.py`) | busy chats, budget of a chat | `begin_inbound`, `allow_text_send`, `end_inbound` | bridge threads, the tool `telegram_send`, other senders | one text per inbound message, and never none |
| goals (`gateway/goal.py`, `core/agent_grpc.py`) | the `GoalRun`, the mirror `_active_goals` | `submit`, `_run_loop`, `cancel`, `RunGoal`, `CancelGoal`, mirror thread | engine, gRPC clients | cancellation bounds the work, completion is told once, no early end that was not earned |
| session queue (`gateway/queue.py`, `gateway/server.py`) | queue, collect buffer, current message, tasks of the loop | `enqueue`, `dequeue`, `interrupt`, `Ingest`, `StreamIngest`, `_process_queue`, `/stop`, shutdown | adapters, gRPC | a message is held once, lost never, processed in order |
| pairing (`gateway/pairing.py`) | whitelist, codes, one JSON file, two processes | `request_pairing`, `approve`, `remove`, expiry, save, load | Telegram adapter, command line | nobody enters unapproved, one code per user |
| scheduler (`core/scheduler.py`, its users in `server.py`, `core/loop.py`) | two dicts of tasks over one JSON file, `_running`, loop threads | `add`, `remove`, `start`, `stop`, the loop, `record_run`, save, load, the boot thread | HTTP endpoints, engine | a task is run when due and by one loop, a stop ends the loop, the file holds what memory holds |
| chain (`p2p/blockchain.py`, `blockchain_node.py`, block routes of `network.py`) | chain, orphans, mempool, confirmed hashes, one file, per node | mining, `add_block`, broadcast, `POST /p2p/block`, sync, difficulty adjustment, save, load | other nodes | blocks link up, nothing is taken back, no transaction twice, who is behind catches up |
| coding tools (`coding/aci.py`, `circuit.py`, `policy.py`, `harness.py`, `orchestrator.py`) | strikes and trips of the circuit breaker, writes and last result of the causal gate, files | edits, patches, rollbacks, test runs, `git_commit`, tickets | engine runs on several threads | no commit of code that no passing run has seen, no endless edit-and-fail |

Not modelled, and why (`PROJECT.json` has one row for each):

- *Unreachable*: the contact handshake (the inbox route declares its request without
  a type, so no message of another agent gets in), `core/autonomous_scheduler` (its
  routes, `server.py` 1838 and 1849, are shadowed by those of lines 1296 and 1301,
  which start the loop of lines 683-713), Telegram approvals and
  `core/persistence`'s checkpoints (no caller), model gossip (`network.py:479` fixes
  its handler to None before `core/subconscious/__init__.py:305` sets it).
- *Sequential records*: sessions and tenants, entity state and identity, the
  checkpoint database, kanban, delegation (a pool that is joined). They have
  states, but no second actor that a model could set against the first.
- *Left for another time*: the relay registry of `p2p`, the Telegram poll loop (one
  thread, its offset in memory), the autonomous loop of the server (the pattern of
  `Scheduler`'s loop).
- *Data without a protocol*: memory (embedding, recall, decay), the subconscious
  (networks and their training), attention, prediction, evolution, prompts and
  filters. They are real-valued or textual; what the engine sees of them, such as
  a rewind, is an action of `Engine`.
- *I/O*: model transports, tools, sandbox, computer use, browser, adapters' calls
  of their platforms, plugins, updater, migration, logging, voice.
- *Generated, or drivers*: protobuf stubs, web user interface, scripts, tests.

How the parts meet: an adapter turns an update into a message, the pairing
manager lets it pass, the bridge takes the chat (outbound gate) or the session
queue takes the message, and `run_task` or an agent stream runs it on the one
engine. HTTP clients submit through the task queue, whose threads call `run_task`.
The scheduler's loop calls `run_task`, engine runs call the coding tools. Goals and
autonomous tasks call the engine's `run` directly. The modules share no
variables, as the code shares none beyond these calls; a module sees its
neighbours as an environment that may call at any time, answer, or raise.

## Modules

Each `X.tla` is the specification, `MCX.tla` what TLC loads, `X.cfg` the
instance, `X_proof.tla` theorems (`Gateway_proof.tla` holds those of `OutboundGate`,
whose `Init`, `Next`, `Spec` and `TypeOK` have the prefix `Gate` for that reason, and
of `Pairing`). An action is one critical section, one write of
a field that another thread reads without a lock, or one stretch of event-loop
code between two awaits. Operators that a comment calls a *mutant* are variants
of the definition below them with a plausible mistake; nothing uses them, they
show that each property would notice.

**Engine** (`server.py`, `core/loop.py`, `core/state.py`). `at[r]` is where a call
stands: waiting, holding its session, holding the engine (`AcquireSession`,
`AcquireEngine`), in `run()` (`Enter`, `Prepare`, `Reflex`, then `BeginSpiral`,
`CompleteSpiral` or `InterruptRun`, `LeaveLoop`, `Verdict`), and back (`Store`,
`Return`, `Release`). The interior of a spiral is one step: only how it ends
matters here. `state` is the `StateManager` reduced to session id, window and the
latest active interrupt (none, rewind, error, or one that breaks the run: plugin
or keyboard). `files` are the session files as a restart finds them: clean,
interrupted, or torn. `SaveFails` is a save that raises where no handler is, or
inside the handler. `Direct` runs call `run()` without `run_task()`: autonomous
tasks (`core/loop.py:2693`), the agent service (`core/agent_grpc.py:85`, `204`),
explorers of a goal (`gateway/goal.py:372`), `_run_and_stream` (`server.py:2567`).

**SerialRuns** is what `run_task()` promises its callers: goals are pursued one at a
time, and who is answered gets what its own goal came to. `Engine` implements it
(`ServedSerially`): a request is *waiting* until it holds both locks, *pursued* until
it has read its result, *answered* until it has given the locks back (`StageOf`).

**TaskQueue** (`core/task_queue.py`). `pc[i]` follows `submit()` and then the
task's thread through every write of a field; `waiter` follows `result()`, which
reads the same fields without the lock. Values are reduced to "is it None?".

**JobPool** is the queue as its user sees it: at most `MaxWorkers` jobs run, each ends
once, who asks waits for the end and is told how, with a result exactly if it
completed, and "unknown" is only said of a job that ended. `TaskQueue` implements it
(`PoolImplemented`). `JobOf` maps a task to its job: *running* from the write of the
status to the next one, whatever the thread does around it; a thread that was unwound
leaves a *lost* job. `ReplyOf` maps a reader to its answer from the moment it has seen
the end.

**OutboundGate**, **OneReply** (`gateway/outbound.py`, `gateway/bridge.py`).
Handlers of inbound messages, the tool that sends within a run, and senders that
belong to no handler, over the busy marks and budgets. `OneReply` is the abstract
promise; `OutboundGate` implements it with `owners` refined to the handlers
between `begin_inbound()` and `end_inbound()`.

**GoalRunner** (`gateway/goal.py`, `core/agent_grpc.py`). One goal: the worker of
`_run_loop`, `cancel()` in its separate writes, `RunGoal`, the thread that copies
the status every second, and `CancelGoal` calls.

**WavegateQueue** (`gateway/queue.py`, `gateway/server.py`). One session: messages
in the modes immediate, collect, followup, steer and interrupt, `_process_queue`
tasks that take whichever entry is first, gRPC clients, the collect window as an
event that may come at any time (an entry is the set of messages whose content it
carries; the order in which a merge joins their texts is left out), and adapters whose event loop ends with the
handler (`persists = FALSE`: the task is cancelled at its first await).

**Mailbox** is the promise of a session's queue: an accepted message waits until it is
handed to the agent in a batch, once, or is interrupted away; a batch ends once; only
a message of a gRPC client can be lost, and only where text waits with something else.
`WavegateQueue` implements it (`MailKept`) with the entries and the fragments as
`waiting` and what tasks hold as `batches`.

**Pairing** (`gateway/pairing.py`). The adapter's manager in memory, the command
line's, and the one file both overwrite in place; writes are two steps (truncate,
fill), so that a crash leaves a torn file.

**Scheduler** (`core/scheduler.py`, `server.py`). `tasks` is the server's dict in its
order, `engine` the one of the second Scheduler object (`core/loop.py:85`), which only
the boot thread changes; `file` is the JSON file of both. `at[th]` says where a
handler, a loop or the boot thread stands; `_save()` is two steps (`Snap` collects
and truncates, `Write` fills), and a thread in an iteration over a dict that changes
(`moved`) raises. Times are reduced to later, due and never. `Scan` takes some list of
the due tasks in the order of the dict (`IsDueList`), `RemoveTask` drops one position
(`RemoveAt`): both say what the code's comprehension and `del` return without a
recursive filter, which the prover could not reason about. A loop keeps the list it
scanned, runs it task by task and records each. `Restart` loads the file again.

**Blockchain** (`p2p/blockchain.py`, `blockchain_node.py`, `network.py`). Nodes with
three threads each: mining (`Mine`, `Found`, `Broadcast`), HTTP (`Receive`) and sync
(`Fetch`, `AddFetched`); each goes through `AddBlock`, `Resolve` and `Settle`
(orphans, difficulty, save). A block is its number, the hash before it, its
transactions and its reward. A hash is a number and whether the difficulty bits were
overwritten after the block was mined, since `_adjust_difficulty()` does that to the
tip, and the hash covers the bits. Found blocks are valid by themselves; balances,
fees and signatures are left out. `Crash` loses memory and, in the middle of a save,
the file.

**Coding** (`coding/aci.py`, `circuit.py`, `policy.py`, `harness.py`,
`orchestrator.py`). Threads that call the tools on one breaker and one causal gate.
A file is reduced to whether an accepted test run has seen it (`unseen`, `slipped`
when the gate has no record of the change); an error to its fingerprint. Names are
pairs of file and spelling, because the breaker keys its tables with whatever path it
is handed. Edits, patches and their rollback, test runs, commits and the ticket run
are sequences of steps (`at[a].pc`) that other threads interleave with. Assumed: the
causal gate is on, `max_replans` is at least 1 and `max_tool_rounds` at least 4;
`record_write` and `record_verify` are one step each; a patch is restored in one
step.

## Runs

| Run | Shows |
|---|---|
| `engine` | `ServedSerially` (the refinement of `SerialRuns`: one goal at a time, and every answer is the request's own), `VerdictUnpoisoned` (an earlier run's interrupt or error, kept in memory or in a file, neither empties nor relabels a later run), `SessionsApart`, `StopEndsRun`, `RequestAnswered` |
| `task_queue` | `SlotsConserved`, `PoolImplemented` (the refinement of `JobPool`; it includes that an unfinished task is never forgotten), `WaiterServed` (a waiter gets an answer about its own task, and never "completed" without a result) |
| `outbound_gate` | `BusyIffOwned`, `AnsweredInWindow`, the refinement `OneReplyPerInbound`, `ChatFreed` |
| `goal_runner` | `AtMostOneLateRun`, `CancelledStaysUnmirrored`, `MirrorCatchesUp` (a goal nobody cancels ends, tells its end once, and the mirror shows it) |
| `wavegate_queue` | `HeldOnce`, `NoWakeupLost`, `MailKept` (the refinement of `Mailbox`), `AdapterServed` |
| `pairing` | `ProcessedWasGranted`, `OneLiveCode` |
| `scheduler` | `RunIsDue`, `SavedAtRest`, `StopEnds`, `DueServed` |
| `blockchain` | `Linked`, `TxOnce`, `AppendOnly`, with mining, races, adjustment and a crash |
| `blockchain_sync` | `CatchUp`: a node behind on the same chain gets its blocks, up to the first whose bits were overwritten |
| `longest_chain` | violates `LongestAdopted` |
| `coding` | `GateHolds` (while the gate is open, the only changes that the last accepted run has not seen are those the gate keeps no record of), `NoThrash` (between two resets fewer tickets than either threshold get a new plan for the same failure) |
| `red_commit` | violates `CommitOnGreen` |

Every passing run but `blockchain_sync` also checks its module's type invariant.

### Bounds, and why they are enough

- `engine`: two requests of two windows contend for the engine and, when they
  choose the same window, for its session; one of them has two spirals, so that a
  stop between spirals and a loop that goes round happen; `Quick` gives the other
  runs one spiral. One direct run overlaps either or comes before, between or
  after them. One restart (`MaxRestarts`) falls into any state. A third request
  would only wait behind the other two. A run overlapped by another inside `run()` is excluded
  from the verdict and stop properties: the code promises nothing there (below).
- `task_queue`: three tasks for two slots make one wait; a history of one makes
  every later submission trim.
- `outbound_gate`: three handlers, so that a refused one and a second owner of
  another chat coexist; two chats show that they do not disturb each other.
- `goal_runner`: two iterations distinguish an early from a last one, two
  explorers a mixed result; two cancellers race each other.
- `wavegate_queue`: three messages give an order to break and a merge of three;
  one is not text. More messages repeat the same pairs.
- `pairing`: two users and two codes; restarts and commands are unbounded.
- `scheduler`: two tasks, one that repeats and may raise (the boot thread's) and one
  that runs once; two loops, so that a start may overtake a stop; one handler, since
  the loop, the boot thread and it already overlap three ways; restarts unbounded.
- `blockchain`: two nodes, one transaction (twice would be once too many), three
  blocks with an adjustment after every second, so that a block stands on an
  adjusted one; one crash. `blockchain_sync`: no transactions, so that liveness can
  be checked without symmetry. `longest_chain`: the fork needs no adjustment and no
  crash.
- `coding`: two threads and two files under two names each, two strikes, two equal
  fingerprints, three tool calls: a write, a test run and a commit of two threads
  overlap.

Deadlock is not checked where the system may really stop: all submitted tasks
done, the goal ended, all messages handled, all requests answered.

### Fairness

Weak fairness of the threads that exist, and nothing else: `ThreadStep` and
`ResultStep` of the task queue, `Proceed` of a handler, the worker, mirror and
`CancelGoal` threads of a goal, the ready tasks of the event loop, the steps of a
request in `Engine`, each scheduler loop and each save (sleeps end, callbacks return
or raise), and the sync and add steps of a node of the chain, which asks its peers
periodically. Nobody has to mine, broadcasts may reach no one. `Coding` states no
liveness. The operating system and the event loop schedule them, and
the calls they make return or raise (the code gives model calls timeouts). Nobody
is obliged to submit, send, cancel, stop, approve or restart; a collect window
need not expire and a direct run need not go on. Locks are granted to some waiter;
`RequestAnswered` needs no stronger assumption because the requests are finite in
number, which is what one may claim of a lock that is not first-in-first-out (see
below on the comment of `_session_lock`).

## Proofs

All theorems hold for every value of the constants under the `ASSUME` of their
module, and are checked to the last leaf. The assumptions say that sets of actors are
finite where they are counted, that bounds are natural numbers, and that identifiers
of different kinds differ: `SchedulerAssumption` keeps loops, request handlers and
the boot thread apart and "auto-evolution" out of the fresh ids, and says that one-time
and failing tasks are tasks; `BlockchainAssumption` keeps nodes, which stand in the hash
of the genesis block each makes for itself, apart from the numbers of mined blocks.

| Theorem | Argument |
|---|---|
| `Engine_proof!TypeCorrect` | `TypeOK` is not inductive: a run could begin a spiral too many. `Counted` adds that `begun` is within the run's limit, `results` below `begun` inside a spiral, and the session id among those drawn. |
| `Engine_proof!EngineIsSerial` | From `OwnInv` and `Unanswered` (who has not read a result has none): `EngineHeld` leaves the engine to one request, so `Pursue` finds nobody served, and a direct run changes neither stage nor answer. |
| `Engine_proof!LocksCorrect` | `LockInv`: a lock that is taken is held by a call past it, in that window, and a call past a lock holds it. So no two calls of one window are past its lock (`OnePerWindow`), and while one waits somebody has what it needs to go on (`SomebodyMoves`), the part of `RequestAnswered` that needs no fairness. |
| `Engine_proof!AnswerCorrect` | `OwnInv`: a request from `enter` to `release` holds the engine's lock (`EngineHeld`), so only one is there, and between the write of `_last_result` and its reading nobody writes it (`ReturnsOwn`). Direct runs never write it. |
| `Engine_proof!StopObeyed` | `StoppedLeaves`: a stopped run is at its result or inside with `running` off; only `Enter` sets `running`, and it takes every run inside out of `stopped`. |
| `Engine_proof!VerdictCorrect` | `VerdictInv`: of two runs inside the engine each counts as overlapped (`Alone`); one that is not finds no error, interrupt or window there but its own (`Sound`), because `run()` clears the error, `prepare_for_run()` the interrupt, and nobody else writes either while it is inside. |
| `Engine_proof!SessionsCorrect` | From `Sound`, and `FileMatches`: the file of the current session names the window that is current; a session id that is drawn has no file yet. |
| `TaskQueue_proof!TypeCorrect`, `SlotsCorrect` | The free slots and the threads between `acquire()` and `release()` add up to `MaxWorkers` (`Holders`), and the counter equals the cardinality of the threads it counts, a subset of them. |
| `TaskQueue_proof!QueueImplementsPool` | `OutcomeInv`: per place of a thread, which fields of its task are written. `Start` needs a free worker: the running jobs are among the threads that hold a slot, and one that begins has its own (`WorkerFree`, from `SlotInv`). `OneJob` and `OneAnswer` turn a step of one thread into a step of one job; everything else stutters. |
| `TaskQueue_proof!OrderCorrect` | `OrderInv`: ids that are not submitted are not in the order, so the order names none twice, and what is deleted with its head is at no other position. It justifies that `Trim` pops once and looks up without a test. |
| `TaskQueue_proof!TrackedCorrect` | `PendingInv`: a thread that has not begun finds its task pending or already off the table, so a dropped task does not come back to life. |
| `Gateway_proof!GateTypeCorrect`, `OwnershipCorrect` | `GateInv`: types, `BusyIffOwned`, and `BudgetAccounts`, that budget and texts of a busy chat add up to one. Without the accounts neither part is inductive. |
| `Gateway_proof!AnswersCorrect` | From `GateInv`: a reply that is refused found the budget spent. |
| `Gateway_proof!GateImplementsPromise` | Every step maps to `Open`, `Speak`, `Shut` or a stutter of `OneReply`, under `GateInv`. |
| `GoalRunner_proof!LateRunsBounded` | `LateInv`: before the flag is set no run is late, and a worker past the check has started none. |
| `GoalRunner_proof!CancelledUnmirrored` | The mirror entry, once removed, is written again by nobody: the copying thread tests for it in the same step. |
| `GoalRunner_proof!CompletionOnce` | The callback is called at one place, after which the worker has ended. |
| `GoalRunner_proof!EndShownCorrect` | `EndInv`: without a cancellation the worker alone writes the phase and writes a final one last, so a final phase the sync thread has read is the phase for good, and the entry is still there to show it. It is the part of `MirrorCatchesUp` that needs no fairness. |
| `GoalRunner_proof!TypeCorrect` | `TypeInv`: an explorer is launched only while one is missing, and once `submit()` set a phase there is always one to copy or announce. |
| `WavegateQueue_proof!HeldOnceCorrect` | `Once`: the entries of the queue share no message (`Apart`), and queue, buffer, what was dropped and what each task holds are disjoint. Every way of queueing is one kind of step, `Joins`: it adds a message to those around and one entry at most. |
| `WavegateQueue_proof!NoWakeupLostCorrect` | `Awaited`: `NoWakeupLost` is not inductive, as a window that expires turns fragments into an entry; they count as one from the start (`Buffered`). The tasks that have not begun and the remote messages are disjoint, which also bounds `queued_count`. |
| `WavegateQueue_proof!NoneLostCorrect` | From `Joins` and `DequeueTakes`: only the merge leaves out a message, and only if the buffer holds other than text. |
| `WavegateQueue_proof!QueueImplementsMailbox` | Under `Once` and `Awaited`, every way of queueing is `Accept` (`Joins`: what disappears is dropped or left out by a merge), a `Dequeue` is `HandOver` with what the merge leaves out, the end of a task is `Finish` of its batch, which no other task shares because entries are disjoint, and windows, chunks and flags stutter. |
| `WavegateQueue_proof!TypeCorrect` | From `Awaited`, with `Flags` for the variables nothing else depends on. |
| `Coding_proof!TypeCorrect`, `GateCorrect` | `GateSteps`: a step changes files and `slipped` alike (`Behind`), or puts a write on record and so closes the gate (`OnRecord`), or ends a test run (`TestsEnd`), or changes neither. Types need `CallsOK`, what a call of each kind carries along. |
| `Coding_proof!NoThrashCorrect` | `Thrash`: the failures on record, which no edit clears, outnumber the new plans given and the tickets on their way to one (`Counted`); those that have passed the breaker's test, added to the plans given, are below both thresholds (`Below`). |
| `Coding_proof!StrikeOutCorrect` | Inductive with the types. A strike and its judgement are two steps, and clears, resets, strikes and trips of other threads come between; a name at the limit is tripped or has a call at its judgement, which will read at least what is on record then. |
| `Blockchain_proof!TypeCorrect` | `Types`, one lemma per action; `ChainWithOK` shows that a block goes on the tip or not at all, so a fork is never adopted. |
| `Blockchain_proof!LinkedCorrect` | `ChainSteps`: a step appends to one chain a block that holds its tip's hash, or overwrites the bits of one tip, or cuts a chain off. Only a tip's hash changes, so no link breaks. |
| `Blockchain_proof!AppendOnlyCorrect` | From `ChainSteps`; the tip keeps its number and all below it its hash. |
| `Blockchain_proof!TxOnceCorrect` | `TxsFresh`: there is a function `anc` from blocks to the transactions at and below them, such that a block, and what a miner works on, brings none of those below it, and a node has confirmed all those of its tip. Linked blocks carry it from chain to chain. |
| `Blockchain_proof!HistoryCorrect` | `OneHistory`: a block on two chains, or twice on one, is at one height with one past below it. `Keeps`: after a step all of a chain but its last block was there before, as was its bottom, unless the node made a genesis block of its own; a last block is linked to what is below it (`AllLinks`), and no genesis block is mined (`Founded`), so the pasts agree block by block. |
| `Scheduler_proof!TypeCorrect` | `TypeInv`: ids are given out once, so whatever a dict, a list, the file or a save names was given out or is "auto-evolution" (`Known`), and no list names one twice; a loop has a list exactly within its tick. |
| `Scheduler_proof!RunIsDueCorrect` | `RunInv`: unless a start overtook a stop, one loop is alive and what is left of its list is due or removed, since nobody else records it; and the boot thread adds "auto-evolution" only where the server has none (`BootSees`). |
| `Scheduler_proof!SavedAtRestCorrect` | `SaveInv`: while no two saves met, one thread at most is in `_save()`; it writes what the dict holds, and whoever changes the dict then is the meeting that the property excludes. |
| `Scheduler_proof!RestartCorrect` | From `SavedAtRest`: what is saved at rest is what `_load()` needs. |
| `Gateway_proof!PairingTypeCorrect`, `GrantCorrect` | `GrantInv`: every copy of the whitelist, in memory or file, is within the users ever approved, and whoever is being let in (`LettingIn`) is one of them. |
| `Gateway_proof!OneCodeCorrect` | `SingleInv`: in each copy of the state, in memory or on disk, two live codes of one user are the same code. |

Only model-checked: liveness (`WaiterServed`, `ChatFreed`, `MirrorCatchesUp`,
`AdapterServed`, `RequestAnswered`, `StopEnds`, `DueServed`, `CatchUp`), which rests on
fairness and `ENABLED` and is out of the prover's reach. What such a property needs
besides fairness is proved where it can be said as an invariant: `EndShownCorrect`
for `MirrorCatchesUp`, `LocksCorrect` for `RequestAnswered`, `OwnershipCorrect` for
`ChatFreed` (a busy chat has a handler that will free it), `NoWakeupLostCorrect` for
`AdapterServed`, `SlotsCorrect` and the answers of `JobPool` for `WaiterServed`. Every
other property of a passing run is proved.

## Where code and documents part

With a run that shows it:

- `longest_chain`: `p2p/blockchain.py:11` promises "Longest chain rule fork
  resolution"; `add_block()` (line 825) adopts a fork only if its block makes it
  longer than the whole chain, which one block on an older block never does, and
  orphans are tried on the tip only.
- `red_commit`: a run that reports passed tests and an error is accepted
  (`coding/policy.py:149`), though `CODING_AGENT.md:56` and line 165 say that a
  commit needs a green run.

Read in the code, without a run:

- `core/loop.py:2693` and the other direct callers enter `run()` without the lock of
  which `server.py:210` says that it serializes runs: a request may get a verdict
  that is not its own.
- `gateway/goal.py:325`: a goal cancelled during its last review ends as completed.
- `gateway/server.py:421`, against `gateway/queue.py:8`: a followup does not wait for
  the current task. `gateway/adapters/telegram.py:961`, against line 945:
  `asyncio.run()` cancels the task that processes the message.
- `gateway/pairing.py:340`: adapter and command line save the whole file, so an
  approval may be overwritten.
- `core/scheduler.py`: every cron expression runs each minute; a one-time task whose
  moment has passed is stored and never runs; the engine's Scheduler and the server's
  overwrite each other's file.
- `p2p/blockchain.py`: without a common file each node makes a genesis block of its
  own and nothing fits anywhere. An adjusted block no longer passes its own
  proof of work, so a node that syncs later stops there (`CatchUp` says how far it
  gets); the adjustment makes mining easier when blocks come too fast. The reward
  changes only when the difficulty is adjusted, so at a halving in between every
  found block is refused. A restart forgets the confirmed transactions, hence
  `crashes = 0` in `TxOnce`. `_tx_push_loop` never pushes.
- `coding/circuit.py:492`: an edit that parses clears the strikes of its file, so
  "3 strikes (same or different errors)" (line 454) is not reached by tickets that
  fail differently each time; fingerprint counts are global and outlive the files
  they came from; a trip under one spelling of a path is not seen under the other;
  `coding_write_file` never asks the breaker. `coding/aci.py:718`: a patch that fails
  half-way charges the files it had applied, not the one that failed. A trip's
  `git checkout` discards all uncommitted edits of the file and is not on the gate's
  record. `coding/orchestrator.py`: the loop of a ticket always breaks, so a replan is
  never followed by a second verification.
- `core/task_queue.py:90-97`: the status is written before `error` and
  `finished_at`, so `result()` may return a finished-looking answer without them;
  line 66: a task that is unfinished when it is trimmed is never deleted later.
- `gateway/goal.py:266`: `cancel()` races with the worker's own writes of the
  phase, and a dead run may stay "exploring"; lines 286 and 298 end a cancelled
  run without `on_complete`.
- `core/agent_grpc.py:138`: an unset sub-message is truthy, so a request without
  config runs zero explorers and no critic instead of the documented defaults.
- `gateway/server.py:124`: `Ingest` queues a message for which no task comes;
  `gateway/queue.py:205`: `interrupt()` does not stop the running task; line 177:
  the status stays "processing" after the first message; line 233: merging
  fragments of which one is not text loses the others.
- `gateway/pairing.py:122`: a running adapter never sees an approval; line 340: a
  crash in a save loses the whitelist.
- `core/state.py:309`: the docstring of `_load_last_session` excludes sessions of a different
  window, the code adopts whichever file sorts last among random names. The first
  request of a named window rotates it away, a direct run continues in it.
- `core/loop.py:1009`: `reasoning_effort` set "for this run", and the model or
  provider of `run_task` (`server.py:589`), stay for the next ones.
- `core/loop.py:2668`: `start_autonomous` tests `running` after `run()`, which
  always clears it: the loop ends after one cycle (nothing calls it).
- `core/loop.py:1390`: `last_complexity` is never assigned, so automatic
  decomposition does not happen.
- `server.py:500`: `_session_lock` is called order-preserving; an `RLock` is not.
- `server.py:707`: a stop before the run has entered is lost.
- `core/checkpoint.py:124`: `update_session` appends the session id before the
  time stamp, so the statement binds them the wrong way round and updates no row.

## Plan

What would come next, most important first:

1. Proofs of the action properties behind `StopEnds` and `CatchUp`: that a loop which
   sees the stop does not scan again, and that a sync step only brings a node closer
   to a peer on the same chain.
2. `TelegramPoll` (`gateway/adapters/telegram.py`): the offset lives in memory only,
   so a crash hands a batch out again; an exception outside the try ends the thread
   while `is_running` stays True.
3. The relay registry (`p2p/relay_server.py:52`), whose sweep iterates without the
   lock of the registering threads.

Runs are one per distinct question; a divergence that needs no interleaving to show
is a line in the list above and not a run.

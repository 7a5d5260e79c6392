# Verification of RAOS

RAOS is a Node.js server that runs *skills*: named handlers that may depend on
one another, fail, time out, be retried, be rolled back, be installed and
removed while the server runs, and be executed again after a crash. This
directory holds TLA+ models of the parts of the server where those things meet,
the TLC configurations that check them, and proofs of what holds for every
configuration. Paths below are relative to the repository's root; the server's
own code is `src/`.

1. [Inventory](#1-inventory)
2. [Modules and the code](#2-modules-and-the-code)
3. [What the runs check](#3-what-the-runs-check)
4. [Fairness](#4-fairness)
5. [What is proved](#5-what-is-proved)
6. [Where the code and its documents disagree](#6-where-the-code-and-its-documents-disagree)
7. [What is not modelled](#7-what-is-not-modelled)
8. [Plan](#8-plan)

To check a model: `tlc -config <file>.cfg <module>`; to check the proofs of a
module: `tlapm <module>.tla`.

## 1. Inventory

Everything runs in one Node.js process with one event loop; concurrency is the
interleaving of asynchronous functions at their `await`s. The exceptions are
`scripts/wal-compact.ts`, a process of its own on the log file, and the external
services (MySQL, Redis, Qdrant, language models).

| Component | State | Operations | Interacts with | What makes it hard | What makes it correct |
|---|---|---|---|---|---|
| **Skill registry** `src/registry/skill-registry.ts` | active definition per name; stored versions per name; listeners | register, registerVersion, switchVersion, unregister | validated by the DAG validator; read by the engine at every call; written by the plugin loader, meta skills and HTTP routes | changes first and undoes on failure; switchVersion does not validate | what is active is stored; the graph stays acyclic and closed |
| **DAG validator** `src/registry/dag-validator.ts` | none | validateDAG | registry | repeated dependencies, order of a queue | decides exactly acyclicity; sorts topologically |
| **Execution engine** `src/engine/execution-engine.ts` | per execution: context with depth, shared call budget, completed steps | execute, executeRecursive, executeHooks, executeWithRetry, executeWithTimeout, runCompensation | registry, breaker, log, capability and permission checks; called by routes, agents, plans, replay | recursion over a changing registry; late handlers; partial failure | limits hold; blocking hooks block; failed executions are compensated in reverse order; every call ends |
| **Circuit breaker** `src/engine/circuit-breaker.ts` | per skill: state, counters, time of last failure | check, recordSuccess, recordFailure | the engine, before and after each handler | answers arrive in any order, in a state other than the one that admitted them | opens at the threshold, closes only on its quota |
| **Write-ahead log** `src/wal/*` | map in memory, JSON lines in a file | append, markCompleted, markFailed, getPending, compact, load; begin/complete/fail, recover, replay | the engine opens and closes an entry per call; the server replays at start | crashes between and during replays, torn lines, truncation, replay on a running server | accepted work is not lost; settled work is not repeated; memory and file agree |
| **Compaction script** `scripts/wal-compact.ts` | archive and rewritten log | read, archive, rename | the log's file, not its memory | runs beside the server | pending entries are kept |
| **Plugin loader** `src/plugin/plugin-loader.ts` | loaded plugins, watchers, debounce timers | loadAll, loadPlugin, unloadPlugin, reloadPlugin, startWatching | registry; loaded in the background at start | loads overlap across `await import()`; unload may fail half-way | what is loaded is registered; the newest manifest wins |
| **Plan execution** `src/plan/*`, `src/skills/plan-execution-skills.ts` | a Markdown file per plan; in-process locks | executePlan, executeStep, updateStepStatus, pause, resume, cancel, edit | engine, inbox, scheduled events | the executor's snapshot against edits of the file; updates that throw half-way; a restart in the middle of a step | what is recorded as done was done; nothing is left running or forgotten; the plan comes free |
| **Async tasks** `src/engine/async-task-manager.ts` | task per id, callbacks per id | create, update, complete, fail, cancel, waitFor, cleanup | skills that return a handle; persistence | cancel against a worker that goes on; waiter timeouts | terminal states stay; every waiter is answered once |
| **Inbox** `src/inbox/*` | item rows with a status | deliver, markAsRead, completeItem, dismissItem | evolution controller, chat, SSE | callback before the atomic update | an item is answered once |
| **User confirmation** `src/skills/user-confirm-skill.ts`, `src/routes/agent-routes.ts` | pending row; waiter in memory | ask, answer, restore | agent loop, database | two paths of an answer; restart while waiting; a row that cannot be written | a question gets one answer, the same everywhere |
| **Event delivery** `src/websocket/*`, `web/src/utils/websocket-client.ts` | per stream: buffer, subscribers, expiry timer; per page: a socket | append, replay, subscribe, clear, reconnect | written by the chat stream, read by pages | joining late, a connection lost and replaced, expiry while somebody watches | no gap, no repetition, nothing kept for ever |
| **Agents** `src/llm/agent-loop.ts`, `src/agents/*` | conversation history, per-run budget | run, analyzeStrategy, seven protocols | providers, engine, memory | model answers decide the control flow | bounded iterations, bounded history |
| **Memory** `src/memory/*` | LRU map with expiry; rows or a JSON file; a graph | set/get/promote, store/search/archive, forget | agents, skills | expiry against promotion | what is promoted is stored |
| **Cache and sessions** `src/cache/*`, `src/middleware/idempotency.ts` | keys in Redis | get, set, index updates | routes | get-then-set without a lock | one execution per idempotency key |
| **Server** `src/server/*`, `src/routes/*` | wiring | start, replay, listen, shut down | all of the above | order of start-up steps | replay is set up before requests are served |

`PROJECT.json` lists every component with its sources and, for those without a
model, the reason; it also lists the hazards, each at the line where it bites,
with the properties that cover it.

How the modelled parts meet: a route, an agent, a plan or a replay calls
`engine.execute`. The engine asks the registry for the skill, asks the breaker,
opens an entry in the log (child entries name their parent's), runs AUTO_PRE
dependencies by recursion, then the handler, tells the breaker how it ended,
runs AUTO_POST dependencies and closes the entry. When the outermost call
throws, it compensates. When the process dies, the next one finds in the file
exactly the entries of the calls that were in progress
(`ExecutionEngine!LogFollowsStacks`) and executes the outermost of them again
(`WriteAheadLog`). The plugin loader is the registry's main writer
(`PluginLoader` extends `SkillRegistry`). The plan executor calls the engine step
by step, and the chat stream runs an agent's loop and hands its events to the
stream buffer (`ChatStream` extends `StreamBuffer`).

## 2. Modules and the code

| Module | Models | Extends / uses |
|---|---|---|
| `CircuitBreaker` | one circuit and the calls under it | |
| `CircuitBreakerProofs` | its theorems | `CircuitBreaker`, `TLAPS` |
| `SkillRegistry` | the registry | |
| `DagValidator` | Kahn's algorithm as the code runs it | `SkillRegistry` |
| `SkillRegistryProofs` | theorems about both | `DagValidator`, `TLAPS` |
| `Saga` | abstract: what an execution promises about its steps | |
| `ExecutionEngine` | the engine | `Saga` (refined by each execution) |
| `ExecutionEngineProofs` | its theorems | `ExecutionEngine`, `TLAPS` |
| `WriteAheadLog` | log, recovery, compaction, the script | |
| `WriteAheadLogProofs` | its theorems | `WriteAheadLog`, `TLAPS` |
| `PluginLoader` | the plugin directory, the loader, its watcher; the registry it writes to | `SkillRegistry` |
| `PluginLoaderProofs` | its theorems | `PluginLoader`, `SkillRegistryProofs` |
| `PlanLedger` | abstract: what a plan's file promises to its readers | |
| `PlanExecution` | the file, the executor, the commands | `PlanLedger` (refined) |
| `PlanExecutionProofs` | its theorems | `PlanExecution`, `TLAPS` |
| `PlanLedgerProofs` | that it implements the ledger, and what readers rely on | `PlanExecutionProofs` |
| `StreamBuffer` | buffers of events, sockets, pages that reconnect | |
| `ChatStream` | the loop behind a chat, its questions, their answers | `StreamBuffer` |
| `ChatStreamProofs` | its theorems | `ChatStream`, `TLAPS` |
| `MC*` | values of the constants, symmetry | the module they are named after |

### CircuitBreaker

Each of the `Callers` is a call of the skill that is idle, was rejected, or is in
flight; in flight it remembers the state that admitted it. `CheckRejects`,
`CheckHalfOpens` and `CheckPasses` are the three outcomes of `check()`;
`RecordSuccess` and `RecordFailure` are the two record functions with all their
counters, and slowness as a choice. The clock appears in the code only as `now -
lastFailureTime >= recoveryTimeMs`, so the model keeps `elapsed`, saturated at
`RecoveryTime`. The rule that reopens a circuit early (95 % of at least 20
requests) is kept with its numbers as constants. `okRun` is a history variable:
successes since the last recorded failure.

### SkillRegistry and DagValidator

`skills` and `versions` are the two maps. A rejected operation leaves both as
they were, so it is no step; `Register` and `RegisterVersion` are guarded by
`IsDag` of the changed graph. `IsDag` is stated without an algorithm (closed, and
no set of skills each depending on a member of the set). `DagValidator` is the
code's algorithm, with the in-degrees, the queue and what has been sorted; the loop's turns
are a recursive function, and the neighbours of a node are visited in the order of
registration, which is the order the adjacency lists have. `ValidatorDecides` says that the
loop ends, that validateDAG throws exactly when `IsDag` fails, and that it returns a
topological order otherwise.

### ExecutionEngine and Saga

An execution is a stack of frames, one for each `executeRecursive` under way, and
an action is the code between two `await`s. `Enter` is the prologue (depth, then
budget, then what may refuse the call, then the log entry); `CallHook`,
`PreHookThrew` and `PostHookThrew` are `executeHooks` under the skill's
`errorPropagation`; `StartHandler`, `HandlerReturns`, `HandlerThrows` and
`HandlerTimesOut` are `executeWithRetry` around `executeWithTimeout`. A timed-out
handler goes on in `late`, since `Promise.race` does not stop it, and may take
effect at any later time (`LateRunEnds`), also after compensation. `ReturnResult`
and `Rethrow` are the two ends of `execute`, `CompensateStep` one turn of
`runCompensation`; `Unregister` is the registry changing underneath. The answers
of capability, permission and parameter checks and of the breaker are one
nondeterministic refusal of the skills in `Refusable`. `fate` is a history
variable: what became of each handler run that took effect.

`Saga` says what a reader expects of `execute`: steps are logged as they complete;
either all stay, or they are undone from the last to the first. `SagaImplemented`
is the refinement, one instance per execution, with the phase mapped to the mode.

### WriteAheadLog

`mem` is `FileWALStore.entries`, `file` the lines of `wal.jsonl` and `tail` what a
crash may have left after them. `Begin` and `Mark` are the store's `append`,
`markCompleted` and `markFailed`, memory and line together: both are synchronous.
An execution is reduced to its entries (`Accept`, `BeginChild`, `End`): a call at any
depth may make nested calls, whose entries name the caller's as their parent. A replay is
`Plan` (the pending top-level entries), the loop that gives up child entries
(`SkipChild`, one step per entry, during which the event loop is blocked but a
crash may still come), and `ReplayNext` / `ReplayRefused` / `ReplayEnds` for each
entry. `Crash` forgets the memory and may tear the last line; `Restart` truncates
an overlong file, loads it and sets up a replay. `ScriptRead` and `ScriptRewrite`
are the two ends of `scripts/wal-compact.ts`, between which the server goes on.

What may happen to the server is drawn at the start of a behaviour from
`Environments`: a record of bounds on requests, nested calls, crashes, manual
replays, compactions and script runs, whether crashes tear lines, and the sizes
at which a file is cut or set aside. That keeps combinations that mean something
together in one run without the product of all bounds.

### PluginLoader

`disk` is the plugin directory: a directory per plugin holds a manifest, which may be
unreadable, and an entry file, which may be missing or whose handler may be. A load is
asynchronous at one point, the `import()` of the entry file, so it is two actions
with anything in between: what it read before is kept in its slot and may be old when
it registers. Loads come from the scan at start, from requests and from the watcher,
whose debounced timer collects changes of a directory. Unloading removes the plugin
from `loaded` and tries to unregister its skill, which the registry refuses while
others depend on it; the refusal is swallowed, as in the code. Registration is
`SkillRegistry`'s own `Register`, with the validation by `IsDag`. The version in a
manifest is not passed on: a skill of a plugin always has the default version.

### PlanExecution and PlanLedger

`plan` is the file. Every update reads, changes and writes it without an `await`, so
it is one action; `plan_edit` alone reads before an `await` and saves after it
(`EditReads`, `EditSaves`), and so does resume. The round trip through the parser is
modelled by what it loses: optional markers (`Resaved`). A step has a place in the file
and the number its author wrote (`Step 3`); `Contents` may number steps with gaps or
repetitions and mark them as running or completed, and a plan is created with them as
they are (`Created`). The loop counts places; the step it executes and updates is the
first one with that number (`Finds`), if there is one (`Gone`). `plan_edit` either changes
the description of a step, which is what it is executed by, and leaves its status
(`Rewordings`), or adds, deletes and moves steps and numbers them anew
(`Restructurings`). A `task` is what a description asks for. An executor is a record with
the snapshot it walks, reduced to what it reads of it (which steps were settled and
which optional), its place in it, its retries and its options. `Execute` takes the lock
and reads the snapshot; the steps of the loop are `StepRefused`, `MarkStepRunning`,
`HandlerEnds`, `RecordSuccess`, `RecordFailure` and so on, each the code between two
`await`s, with the branch that runs when an update throws because the step is gone.
`ran` and `disturbed` are history variables: the tasks whose handler succeeded, and what
users, crashes and contents did to the execution (`Disturbances` lists the kinds; each
property names the ones it makes an exception for). `PlanLedger` is the promise to a reader
of the file, who sees one result per number: at most one step under way, only that step gets
a result, a completed step is not begun again unless somebody has overwritten the steps or
they are not numbered by their places.

### StreamBuffer and ChatStream

An event is its number in its stream. `AppendEvent` keeps it, pushes it to the
subscribers whose socket is open and arms the expiry timer; `Clear` drops buffer,
subscribers and timer. A socket is used once: `Connect` is the page's side, `Subscribe`
the server's replay and subscription, which nothing can come between, `Lose` the loss
and `Cleanup` the moment the server notices. A page that reconnects takes another
socket, so an old one may still be subscribed. `StreamBuffer` has the operations,
`ChatStream` the behaviours.

The loop emits events, asks and ends; which comes next is the language model's choice.
Asking is two actions, the skill that writes the row (`CreateConfirm`) and the loop that
shows the question and waits (`AwaitAnswer`), with the engine's `await`s in between.
SQLite is synchronous in this server, so what follows a request's first line up to its
answer contains only microtasks, and `AnswerLoop` and `AnswerRow` are the two paths of
`POST /agent/chat/confirm`, one action each. A statement that fails is a choice, in each place
where the code catches it. `Expire` is the timer of five minutes, `CloseStream` that of five
seconds after the end. `given` and `unrecorded` are history variables: what the loop was
handed, and whether the row could not be updated then.

## 3. What the runs check

| Run | Question | Distinct states |
|---|---|---|
| `breaker` | Whatever order answers come in, does the circuit keep its thresholds? | 1 562 000 |
| `breaker_slow` | Is a slow call a failure, as `types/skill.ts` says? No. | violation |
| `registry` | Do versions follow skills, does validation decide acyclicity, can anything but switchVersion break the graph? | 1 800 |
| `engine` | Do log and stacks agree, do hooks block, are failures compensated as a saga? | 71 000 |
| `engine_loop` | With a cyclic graph and handlers that never answer, do limits hold and do calls end? | 13 000 |
| `engine_soft` | Is an execution that reports failure rolled back? No. | violation |
| `wal_crashes` | With crashes of the process, is accepted work kept, settled, and repeated no more than it must be? | 125 000 |
| `wal_damage` | What is left of that under torn lines, truncation, manual replay and the script? | 182 000 |
| `wal_script` | Does the script keep every pending entry beside a server? No. | violation |
| `plugins` | Is what is loaded registered, and is the newest version active in the end, however loads overlap? | 38 000 |
| `plan` | Is what the file says true, under two executors, commands and crashes? | 645 000 |
| `chat` | Does a page miss nothing, does a question get one answer, does a chat come to rest? | 555 000 |

**breaker.** `ClosedBelowThreshold`, `HalfOpenBelowQuota`, `HalfOpenEarned`,
`RecloseNeedsQuota`. Three callers are enough for two stale answers and a probe to
be in flight together. Threshold 2 and quota 2 tell "one" from "enough"; recovery
takes one tick, since only passed or not passed matters. The rate rule keeps the
code's 20 and 95, and `MaxRequests = 42` lets a healthy history of forty reach it
while a late success of an OPEN circuit arrives: with two failures the rate needs
at least forty requests. The callers are interchangeable (symmetry). Deadlock is
not checked: the bound on requests ends every behaviour.

**registry.** `VersionsFollowSkills`, `ValidatorDecides`, `OnlySwitchBreaksGraph`.
Twelve definitions of four skills propose chains, diamonds, a dependency named
twice, a self-loop and cycles of two, three and four. `ValidatorDecides` runs the
algorithm in each reachable state on each graph that any offered definition would
make of it, and for all orders of registration.

**engine.** `LogFollowsStacks`, `BlockingHooksReturned` (a blocking AUTO_PRE hook that throws,
times out or is refused keeps the handler from running; one that answers `{success: false}`
does not, see section 6), `FailureSettlesSteps`, `SagaImplemented`. Two executions, one of a three-level tree (Book needs Charge
before and Notify after it, Charge needs Audit before it), one of a part of it.
Book is retried on timeouts, blocks on its hook and fails with its AUTO_POST hook;
Notify may be refused; Book and Notify may be unregistered at any time the
registry allows it. Depth 3 and budget 5 cover the whole tree without limits.

**engine_loop.** `CallsWithinLimits`, `CallsEnd`. Ping and Pong are hooks of each
other and Echo an AUTO_POST hook of Pong that calls it again: without limits the
recursion is infinite. The validator refuses such graphs, but `switchVersion`
makes one reachable (section 6). Depth 4 and budget 5 are small enough for each
limit to be the one that ends the recursion in some behaviours. Every skill has a
timeout here: a GUARDIAN skill has none in the code, and an execution of one may
indeed wait for ever.

**wal_crashes.** `MemoryOnDisk`: a crash now would lose nothing. `AcceptedSurvives`:
a request none of whose entries is settled has a pending one on disk.
`SkippedChildrenAreReplayed`: a nested call is given up only if the top-level entry it is
nested in, at whatever depth, is in the plan; its parent need not be, since that may be a
nested call that is given up as well. `CompletionsBoundedByCrashes`: one execution of a request to its end more
per crash, no more. `ReplaysOnlyInterrupted`: a replay never executes what is still
going on. `AcceptedSettles`: every accepted request is settled for good.
Environments: two crashes with one request, two nested calls, one perhaps in the other, and
a compaction (so that a replay is interrupted and itself replayed); one crash with two
concurrent requests and two nested calls; one crash with two requests and a compaction.

**wal_damage.** Torn lines (`MemoryOnDisk` then allows the torn line and the one
written onto it), files cut at 3 lines to 2 and set aside at 5
(`SettledStaysSettled` still holds: whatever is cut, no settled entry comes back),
and manual replay with the script beside the server (`ExecutionsBoundedByReplays`:
each replay, of a start or by hand, at most doubles the executions of a request).
The other properties of `wal_crashes` are not claimed under damage: a torn line may
hold the only trace of a request, a truncated file no longer has its oldest entries,
and a manual replay does execute what is still going on.

**plugins.** `LoadedIsRegistered`: the skill the loader lists for a plugin is the one in the
registry, unless it was unregistered behind the loader's back. `NewestOrFailed`: when nothing
of a directory is under way, the edition on disk is the one that runs, manifest and handler,
or a load has failed since it was put there. `ChangesTakenUp`: every change the watcher saw
leads to that. The last two are not claimed of a directory whose plugin's name another
directory offers too, of a change made before anybody watched (during the scan at start: the
code misses it), or of a plugin whose skill `skill_unregister` removed. Two slots, so that two
loads overlap; one request from outside; three initial contents of the disk; two or three
editions of each of three directories, with an unreadable manifest, a missing entry file, a
handler that does not load, and two directories that offer one name. The plugin `user` depends
on the plugin `base`, so that unregistering `base` is refused.

**plan.** `CompletedWasRun`: a step recorded as completed is one whose own task has succeeded,
however steps are numbered, unless the content came with marks or somebody gave a completed
step, or one being executed, another description. `RunningHasExecutor`: a plan nobody executes
has no running step, unless there was a crash, an older plan was saved over a newer one, steps
were moved under the executor, or the content had a mark. `NothingPendingWhenCompleted`: a plan
that ends as completed has no pending step, whatever marks it came with, if its steps are
numbered by their places and were not restructured, overwritten or jumped over.
`ImplementsLedger` is the refinement, `ExecutorsEnd` liveness; both it and the types are checked
of misnumbered plans too. Two calls of executePlan, so that one finds the lock taken; two
contents of two steps, one in order, with an optional step that asks for confirmation, and one
whose steps both have number 1 and are marked as completed and as running; a third task that any
step may be changed to or that may be added; executions from the current step with one attempt,
or asynchronous ones from the second step with two; three commands; one crash. A command is an
execution, too: to pause, edit, resume and execute again takes five, which is out of the run's
reach and left to the proofs. A timeout ends a step like a failure, since nobody looks at
what the handler it leaves behind does.

**chat.** `NoGap`: what a connected subscriber has received is exactly the buffer, and what
any socket has received is a stretch of its stream. `AnswersAgree`: one answer per question,
the same for the loop, in the row and in the conversation; the only exception is a row
that could not be updated, for which a second answer is accepted later.
`StreamsSettle`: a chat that is not waiting for an answer that can still be given goes on to
its end, and no buffer is kept. One stream with three events of its own beside question
and end, two sockets, so that a new one subscribes while the old one is still
subscribed, one question, two answers and one crash. Streams and questions do not
interact but for the queue, whose agreement with the loops is proved for any number
of them (section 5). Deadlock is not checked in these three runs: with nothing left to ask
for, the system rests.

Each property is also checked against a mutated definition, kept in the modules as
`<Definition>_<What>` with the comment *Mutant of*: a plausible bug of that code
under which TLC must find the property violated.

## 4. Fairness

`ExecutionEngine!FairSpec` has weak fairness of `EngineStep`, per execution: the event
loop runs what is ready and timers fire. It promises nothing about handlers, which
is the point of `CallsEnd`, nor about `LateRunEnds` and `Unregister`.

`WriteAheadLog!FairSpec` has weak fairness of what the server does by itself: it is
restarted after a crash (the deployment files restart it), goes on with a replay,
and executions end. The last is what `CallsEnd` shows of the engine, under the same
condition that skills have timeouts. Nothing is assumed about requests, crashes,
operators or the script.

`PluginLoader!FairLoaderSpec` has weak fairness of the end of an import and of the watcher's
timer, which the event loop provides; none of what happens on the disk, nor of requests.

`PlanExecution!FairPlanSpec` has weak fairness of each executor: its steps have a timeout
and a bound on attempts, and the lock is released in a `finally`. Nothing is assumed about
commands or crashes.

`ChatStream!ChatSpec` has weak fairness of each loop and of the two timers of a stream. The
loop's is the event loop's, given that calls of providers end and iterations are bounded; the
model bounds a stream's events. `fetchWithTimeout` ensures only that a provider begins to
answer: its timer is cleared when the headers arrive (`src/utils/fetch-with-timeout.ts:75`). What
bounds an answer that is streamed is the HTTP client's own limit on a body that stays silent;
nothing in the repository does. Nobody need
answer a question, connect, or disconnect.

The other specifications have no fairness: they are checked for safety only.

## 5. What is proved

By TLAPS, for every value of the constants that satisfies the modules' assumptions.

**CircuitBreakerProofs**, from `BreakerConfig` (positive thresholds, a percentage of at
most 100; any number of callers). The inductive invariant `IInv` is the conjunction
of `TypeOK`, `ClosedBelowThreshold`, `HalfOpenBelowQuota` and `HalfOpenEarned`: none of
them is inductive without the types, and `HalfOpenEarned` needs `RateGrows`, a lemma of
arithmetic: a rate of at least p % survives one more success, because p is at most 100.
There is a lemma for each of check, recordSuccess, recordFailure and the clock. From
`IInv` follow `TypeCorrect`, `ClosedIsBelowThreshold`, `HalfOpenIsBelowQuota`,
`HalfOpenIsEarned` and the action property `ReclosesOnQuota`: the step that closes the
circuit starts from HALF_OPEN, where the successes counted are at most those since the
last failure.

**SkillRegistryProofs**, from `OfferedDefinitions` (what callers offer are definitions).
`TypeCorrect` carries the fact the other results rest on: a definition stored under
name n and version v has that name and version. `VersionsFollow` is inductive relative
to it: without it, switchVersion could make active a definition whose version is not
the key it is stored under. `OnlySwitchBreaks` needs no invariant. Registration keeps the
graph sound by its guard; the substance is `RemovalKeepsDag`, that removing a skill
nobody depends on leaves a closed acyclic graph closed and acyclic, which unregister
relies on, as it does not validate. `TypeCorrect` and `VersionsFollow` are shown
operation by operation, over lemmas that say what storing, removing and switching leave
of the two maps.

`ValidatorIsRight` is `ValidatorDecides` for any number of skills with any dependencies,
repeated ones included. The loop keeps `LoopInv`: an in-degree is the number of dependencies
not yet sorted; what is sorted or queued, each once, are exactly the skills for which that is
0; and whatever is sorted comes after what it depends on. `LinksClose` is the count behind
one turn: sorting a node closes as many dependencies of a neighbour as name the node, no more,
so that a skill that names it twice is not queued early. The queue is empty after as many
turns as there are skills (`LoopEnds`). What is then left over depends on what is left over,
which is a cycle; if nothing is left, a least position in the sorted list refutes any cycle
(`LeftOverIsCyclic`). Induction over the turns is by a least counterexample (`LeastOf`), and
that the recursive function is what its definition says is shown in `LoopTurns`. The
invariant of the registry it needs is that finitely many skills are registered.

**ExecutionEngineProofs**, from `EngineConfig` (any skills, dependency graph, limits and
number of executions). What a step does to one execution's stack, to the log and to
the budget is one of three things, `StackStep`: the stack stays as it is but for the
progress of its top frame, a call is pushed and paid for, or the innermost call is
popped and its entry closed; `NextStack` shows this of every action. The results are
proved of those three.

* `TypeCorrect` is inductive together with `PhasesMatch`: only a running execution has
  frames, and a compensating one has a step left to undo (without it `CompensateStep`
  would take a step off an empty list).
* `LogFollows` strengthens `LogFollowsStacks` by `StacksAscend`: a frame's entry is
  younger than its caller's. That two frames never share an entry is what keeps the
  end of one call from closing the entry of another; within one execution it follows
  from the ages, between executions from the entries' owners.
* `LimitsHold`: the budget and the number of entries an execution has in the log never
  exceed `callBudget` together. Every push takes one from the first and adds one to
  the second (`PushesWithinLimits`); every other step adds no entry and gives nothing
  back (`NothingSpent`). No assumption is made about the graph: cycles are covered.
* `FailureSettled` rests on `SettleInv`: the list of steps to undo holds exactly the
  compensable runs that are done, each once (`ListIsDone`, `DoneIsListed`), and a failed
  execution has an empty one. That no run is listed twice needs `RunInv`: of a call that has not
  got past its handler, the run under way and the later ones are unknown so far, neither ended
  nor left behind by a timeout (`Fresh`). It holds because two frames never share an entry
  (`OwnPlace`) and attempts are only counted up (`Follows`); it is what keeps a late end of one
  attempt from standing for another. Every step is one of four kinds (`StepKinds`): it ends
  no run, ends one in time or by a timeout, compensates one, or is the end of a late one.
* `HooksBlock`: a blocking hook has returned before the handler of its skill starts (with
  `{success: false}` perhaps: it has then returned). It strengthens `BlockingHooksReturned` to the calls whose hooks are under way
  (`HooksSeen`): of the hooks a call has looked at, all have a completed entry but the last, which is
  the call above it on the stack, or has thrown into it (`Awaited`). Completed entries stay and
  no skill is registered again (`HooksStay`).
* `ExecutionsAreSagas` maps every step of the engine to a step of each execution's `Saga` or to
  a stutter, from the same invariants. It is the refinement the runs check as `SagaImplemented`,
  over the set of all runs instead of the smallest one that the limits allow, which TLC can enumerate.
* `RetriesHold`: one call runs its handler at most `maxRetries + 1` times, the runs that outlive
  their timeout counted. Since those go on beside the retry, this is what bounds how often one
  call may take effect.
* `SagasImplemented` is `SagaImplemented` itself, with the set of steps the run names. It assumes
  `BoundedEngine`: finitely many executions, and a bound on the retries of all skills; without it
  the set would not be defined. That every logged step is in the set needs that entries have
  numbers up to `callBudget` times the number of executions (`CallsAreBounded`): by `LimitsHold`
  each execution has at most `callBudget` entries, and the entries are mapped one to one to
  pairs of an execution and a place among its own.

**WriteAheadLogProofs**, from `LogConfig`, for any jobs and environments and any number of crashes,
replays, cuts and compactions. It rests on `LoadedLines`: an entry is pending in what a
restart loads exactly if the newest line about it is the one that appended it. From this
follow what one more line (`AddedLine`), a cut of the oldest lines (`CutLines`) and a
rewrite with the pending entries only (`RewrittenLines`) change about what is loaded, and every step
is one of these, a crash, or a step that touches neither file nor memory (`KindsOfStep`).

* `LogTypes` is inductive with `TypeInv`: memory and file know only entries that were begun, a
  replay waits for an entry that is live or has ended, and nothing volatile survives a crash.
* `MemoryIsOnDisk` needs `DiskInv`: memory and file agree exactly, unless a line was torn and
  another one written onto it; they then differ by at most these two entries.
* `SettledIsSettled` and `AcceptedIsKept` follow from what an undamaged step does to the
  entries a restart would load (`UndamagedStep`). The first holds for undamaged logs, as the
  run states it. The second has a hypothesis more than the run, whose bounds imply it: that the
  file never has more than `maxLines` lines. A log that is cut may lose an accepted request.
* `ReplaysOnlyLeft`: an entry that is replayed is not one in progress, as long as nobody asks
  a running server for a replay.
* `SkippedAreReplayed` has the hypotheses of `AcceptedIsKept`, and that nobody replays by hand. A
  plan lists top-level entries, each once (`PlansInv`), and what it lists is pending in memory
  and not yet being executed (`OwingInv`). As long as a nested call is pending in the file, so is the
  top-level call it is nested in, at any depth (`RootsOK`), and a start-up plans all of these. What
  is nested in what never changes, and a call begun by a nested one is nested in all that
  one is nested in (`NestingKept`).
* `CompletionsAreBounded` counts for each request the top-level entries that have ended or are
  pending, but for one that is being replayed: its new execution counts in its place (`OwedFew`).
  Accepting a request adds one; a crash adds at most one more, since the replays of a plan are
  made one after another and so at most one replayed entry is left pending beside the one that
  replays it; every other step adds nothing. The hypotheses are those of `wal_crashes`.
* `ExecutionsAreBounded` holds in every environment. `ExecOK` says that the executions of a
  request so far and those still queued in plans are at most 2 to the power of the crashes and
  manual replays: a new plan queues each entry at most once, so it at most doubles the sum
  (`Doubling`), and executing what is queued leaves it as it is.

**PluginLoaderProofs**, from `LoaderConfig`, for any directories, editions and number of loads.
What a step does to the registry and to `loaded` is one of five things (`KindsOfStep`): nothing,
an unload, a registration or a removal behind the loader's back, or the end of a load. `LoaderTypes` carries
that what is loaded or being imported is an edition its directory has held. `LoadedRegistered`
is inductive relative to it: a name enters `loaded` only together with a registration that was
accepted, and leaves the registry only with or after its entry, or recorded in `removed`.
`LoaderConfig` says of the directories that a scan visits each and that there is room for a load.
`LoaderKeepsGraph` says that whatever the loader does leaves the registry's graph closed and
acyclic, over `RemovalKeepsDag` of `SkillRegistryProofs`. `NewestRuns` is `NewestOrFailed`. It
needs `NamesOK` (a plugin is listed under the name in its manifest) and `TakenUp`: the newest edition of
each directory runs, a load of it has failed, or something is there to take it up: the scan at
start that has yet to come to it, the watcher's timer, or a load that has read the manifest on
disk. A load that has read an older one does not count, and need not: what replaced the
manifest armed the timer.

**PlanExecutionProofs**, from `PlanConfig` (the steps of a content are sorted by their numbers, as
the parser leaves them), for plans of any length, numbered and marked in any way, and any number
of executors, commands and crashes. `PlanTypes` carries the lock (`LockOK`: the plan is locked
exactly while one call is at work) and `WalkOK` (a call past the loop's test is at a step of its
snapshot). `CompletedRun` is `CompletedWasRun`; its invariant `SoundInv` says that the steps of the
plan and of the plans an edit has read and is about to save are `Backed` (completed only if their
task has succeeded), that each executor `Tracks` the task of the step its number finds, and that one
about to record a success has `Earned` it.

**PlanLedgerProofs**, from the same assumption. `LedgerImplemented` is the refinement
`ImplementsLedger`. The ledger's record has a result for each number, that of the first step that has
it (`RecordReads`); an update writes just the entry of its number (`RecordWritten`), since the first
step with a number stays the first. Every step of an executor is of one of six kinds, or it quits
(`KindsOfExecutorStep`), and each kind is an action of the ledger or a stutter. That a step which is
begun is not completed needs `AheadInv` (a step ahead of a call that was not settled in its snapshot
is not completed) and `NumbersInv`: steps are numbered by their places unless a content was not, so
the step the loop is at and the step its number finds are the same, and an edit of descriptions has
the results of the plan it was computed from. `RunningIsExecuted` is `RunningHasExecutor`, from
`RunningInv`: a step marked as running is the one some call has in hand (`InHand`), however steps are
numbered. `CompletedIsTried` is `NothingPendingWhenCompleted`, from `PendingInv`: nothing before the
current step is pending, nor is anything behind a call or settled in its snapshot, and a call
about to mark the plan completed is behind all of them.

**ChatStreamProofs**, for any number of streams, sockets, questions and answers.
`ChatTypesHold` includes that the queue holds exactly the questions that loops wait for, which
needs `AskedOK`: a loop that asks has a question of its own. `NoGapHolds` rests on `LinksOK`: only
sockets that have replayed are subscribed, and each to its own stream. `AnswersAgreeHolds` rests
on `QuestionOK`: a question in the queue has no answer anywhere, and nothing is saved unless
the row says so; an answer on either path then meets a row that is pending or missing.

**Only model-checked.** Every invariant and every action property that a passing run checks is
proved, some under hypotheses that the bounds of the runs imply and that are named above. What
remains with TLC is liveness under fairness, which is beyond the prover: `CallsEnd`,
`AcceptedSettles`, `ChangesTakenUp`, `ExecutorsEnd` and `StreamsSettle`; and that no state is a
deadlock where the runs check it.

## 6. Where the code and its documents disagree

Three disagreements have a run of their own.

* `breaker_slow`: `src/types/skill.ts:46` regards a call over the slow-call threshold as
  a failure; `recordSuccess` counts it and goes on as for any success, which resets the
  count of failures.
* `engine_soft`: `src/types/skill.ts:90` says that a failed execution is rolled back;
  `execute` compensates only if something was thrown, and a root skill that answers
  `{success: false}` ends the execution with the completed steps of its hooks in place.
* `wal_script`: `scripts/wal-compact.ts:36` says that pending entries are always kept; an
  entry the server appends between the script's read and its rename is not.

Others were met on the way and are part of the models without a run of their own:

* `src/types/skill.ts:99` lets a failing AUTO_PRE hook block its skill. Only a hook that throws, times
  out or is refused does: one that answers `{success: false}` is logged as completed, its answer
  is dropped, and the handler runs. `BlockingHooksReturned` and `HooksBlock` are therefore about
  hooks that returned, not about hooks that succeeded.
* `halfOpenRequests` counts successes; it does not limit how many calls are let through
  while HALF_OPEN.
* A handler that timed out may take effect after a retry of it, or after the
  compensation of its execution; it is not compensated then.
* `POST /wal/replay` on a running server executes again what is still being executed, and
  marks the child entries of such executions as failed; after a crash, such a child
  may have been given up without a parent to replay.
* `switchVersion` does not validate. It can make a cycle active, after which the engine's
  depth and budget limits are all that ends a call, and every later registration throws
  until it is switched back.
* An interrupted replay leaves both the original entry and the one that replays it
  pending, so the request is executed twice by the next start.
* Plugins are loaded in the background while the start-up replay runs: an entry of a
  plugin's skill may be refused as unknown and given up.
* `compact` truncates and rewrites the file in place; a crash between the two loses the
  pending entries. The model has it as one step.

* Plugins: the version in a manifest is never passed on, so every plugin's skill has the
  default version; a plugin whose skill others depend on leaves `loaded` while its skill
  stays registered, and nothing removes it any more; nothing calls `stopWatching` or `destroy`.
* Plans: an executor does not look at the plan's status, so pausing or cancelling changes the
  file and the execution goes on. A failed or interrupted step is passed over on resume, and
  the plan ends as completed although `src/plan/plan-executor.ts:323` speaks of all steps being done. An edit
  saves what it read before an `await`: it undoes what the executor wrote meanwhile, and
  brings back a plan deleted meanwhile. When steps are deleted or moved under an executor, it
  writes results to the step that now has the number. Steps are looked up by the number in their
  text (`src/plan/plan-executor.ts:62`), while the loop counts places, and a new plan keeps the numbers it
  was given. When the loop comes to a number that no step has, the execution fails, or, if the step
  at that place is optional, goes on: with a gap a plan may end as completed with a step pending. With
  repeated numbers, as when every task starts at `Step 1`, the step found for a place may be one that
  was completed before, and is executed again, also on a resume after such a failure. It also keeps marks: `- [~]` makes a running
  step that nobody executes, `- [x]` a completed one that never ran. Changing the description of
  a step leaves its status, so a completed step may show work that was not done, and the result of
  the old text is recorded under the new one. A step added to a completed plan
  leaves it completed; one added before the current step is passed over. Optional markers and
  titles of tasks are lost when a plan is read and saved: the parser wants `## Task N:`, the
  serializer writes `## Task:`. `maxRetries` is the number of attempts. A step marked
  `[confirm]` does not wait for anybody.
* Chats: agents wait for an answer as long as the user likes (`src/agents/react-agent.ts:320`), but
  five minutes after the last event the buffer is cleared together with its subscribers. A
  page that stays connected then gets nothing of what follows the answer, although
  `web/src/pages/Chat.tsx:461` counts on live events as long as the stream runs; it has to
  reconnect, and then sees the part after the answer only.
* A page that reconnects receives the whole buffer again on its new socket, and the handler
  of `sendMessage` in `web/src/pages/Chat.tsx` appends the text to what it already shows.
* If the row of a question cannot be updated when its loop is answered, it stays pending, and
  a second answer is accepted, saved in the conversation, and reported as not continued.
* Without a configured provider a stream ends with the event `error` and no `stream_complete`,
  which is what pages wait for.

## 7. What is not modelled

Within the modelled components: the registry's listeners; traces and metrics; the
content of parameters and results; access to other users' skills; a crash inside one
synchronous file operation other than an append, or between the change of memory and the line that
follows it, and a line that cannot be written (`Begin` and `Mark` are one step each); the log's `clear`, which
nothing in the server calls; the script's archive files; back-off times (an attempt is retried at some later time).

Handlers are unconstrained, except that one that throws is taken to have had no effect.
A compensation takes one step and ends; in the code a compensate handler that never answers
(`src/engine/execution-engine.ts:332`, awaited without a timer) keeps the execution compensating for
ever, and `CallsEnd` ends there.
A handler that calls `engine.execute` starts an independent execution with a fresh
budget; the model has it only as one of `Execs`.

Of the plugin loader: log lines and `destroy`. Of plans: heartbeats and progress messages, texts,
titles of tasks (the file groups its steps by them, which can change the order of steps of one number),
`continueOnFailure` (no caller sets it), several files of one title, the index, the inbox
items and scheduled events that plans create. Of chats: what events contain, who may answer a
question (one user per chat), history and titles of conversations, heartbeats of sockets,
`cleanupExpired` and `listPending`, which nothing calls, and agents that run without a stream.
Between the event that shows a question and the entry in the queue the loop awaits an `import` of a
module that is already loaded (`src/agents/react-agent.ts:319`); the model takes the two as one step, so an
answer that comes in between is not in it. The test on the owner of a question
(`src/routes/agent-routes.ts:389`), which resumes the loop and leaves the row alone, is one of the
ways in which the row is not updated (`unrecorded`).

Components without a model: section 8 lists the ones that are worth one. The others are
adapters to external services (providers, Qdrant, Neo4j, Redis, MySQL repositories),
pure conversions (document parsing and export, expressions, tokenizers, ranking),
handlers, HTTP routes without state of their own, and the web front end. The
permission service, the evolution controller and some other modules the code imports
are not part of this edition of the repository.

## 8. Plan

Done: circuit breaker, registry and validator, engine and saga, log and script, plugin loader,
plan execution and its ledger, stream buffer and chat; theorems about all of them.

Next, in this order:

1. **AsyncTasks**: states, callbacks, waiters with timeouts, the rows a restart finds. Properties:
   each waiter is answered at most once, and once the task is over exactly once; what a
   waiter saw stays true.
2. **Inbox**: item status with its compare-and-set around an external callback.
3. Memory expiry against promotion, session index and idempotency over an external store.

Everything else of the repository (handlers of skills, adapters to language models and
databases, conversion of documents, the web front end) is out of this project's reach or of no
interest to it: it has no state that several actors change, or its decisions are made by
external services and by text.

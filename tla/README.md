# pi-research: verification project

pi-research is a deep-research agent. Several copies of it run side by side on
one machine (one per agent session, SDK embedder or CLI), and they share a
browser pool, an embedding server, a knowledge store and a cap on concurrent
research runs. There is no broker: everything is coordinated through lock files,
one JSON state file, loopback HTTP servers and the promises, timers and queues
of each process. That coordination, and what becomes of a question between its
asking and its report, is what these modules model. Prompts, page extraction,
text chunking and presentation are not.

Paths below are relative to `src/` of the repository; line numbers are those of
the commit beside this directory. `PROJECT.json` maps every definition to its
lines, lists every component with its status, every hazard with the properties
that watch it, and for every property of a run a mutant of the model that it
catches.

## 1. The system

### 1.1 Components

**File lock** (`infrastructure/file-lock-service.ts`). State: the lock file
(owner record `pid`, `startTime`, `uuid`; mtime); per instance a turn queue, the
open handle, the nesting count, the keys held in an AsyncLocalStorage set,
`_retired`. Operations: `acquireLock`, `releaseLock`, `withLock`, `cleanup`, the
heartbeat, the startup inspection. Hard: a crash between `open('wx')` and the
write; `stat`/`read`/judge/`rename`/verify/`link` of a reclaim interleaved with
other processes; release by read-then-unlink; three clocks of one wait; cleanup
of an instance with a holder, waiters and an acquisition half-way. Correct when:
one holder at a time, no lock of a dead process for ever, no lock that nobody
releases, turns never lost, waits end.

**Run semaphore** (`infrastructure/research-run-semaphore.ts`, called by
`orchestration/research-orchestration-service.ts`). State: one lock file per
slot, a rotating start index per process. Hard: deaths, torn slot files, slots
that raise errors, deadlines, cancellation, the release in a `finally`. Correct
when: the cap holds, a refusal means full, failing open means broken, every slot
comes back, no queued run starves.

**Task queue** (`infrastructure/browser/browser-task-scheduler.ts` over
`priority-task-queue.ts`). State: three FIFO queues, the slot counter, per-task
deadline, worker-death backstop, idle timer. Hard: a task is answered by its
worker, deadline, abort or shutdown, in any order, and its job outlives the
answer. Correct when: slots balance, work is conserved, priority and FIFO hold,
deadlines charge execution only, everything settles.

**Worker pool** (`infrastructure/browser/worker-pool-manager.ts`). State: the
pool, its shape, an initialization promise, `generation`, `poolEpoch`, the
reset flag, destroys in flight, error counter. Hard: `ensurePool`, the
auto-reset and `shutdown` interleave at every await, and a `destroy()` may be
rejected or hang. Correct when: no pool leaks, none is destroyed twice, nobody
gets a dying one that is not being replaced, late events of old pools are
harmless, what waits ends.

**Scheduler election** (`infrastructure/browser/scheduler-factory.ts`,
`scheduler-service.ts`, `state-browser-manager.ts`, the leadership check and
`shutdown` of `browser-task-scheduler.ts`). State: `browserServer` in the state
file; per process an instance, an initialization promise and a version; per
scheduler a server and a monitor. Hard: initializations are superseded by
restarts and disposals at any await, and restarts clear registrations without
the lock. Correct when: every scheduler is reachable by whoever must stop it, a
deposed leader steps down, healthy leaders are not deposed, all calls settle.

**Browser calls, circuit breakers** (`task-execution-service.ts`,
`browser-client.ts`, `browser-server.ts`, `utils/circuit-breaker.ts`): handover
and transient budgets, a restart herd guard with a shared verdict,
CLOSED/OPEN/HALF_OPEN. Hard: a call admitted in one state settles in another; a
restart asked for by one call kills the work of its siblings. Correct when: a
restart never interrupts a sibling's work on a healthy leader, retries are spent
on somebody who may answer, one probe at a time decides about recovery.

**Worker** (`infrastructure/browser/thread-worker*.ts`): the tasks of one worker
process share a browser that any of them may have to reset; pages are created one
at a time behind a mutex whose holder may hang; a page load races its fence, its
downloads and its deadline. Correct when: no task loses its browser to a
sibling's failure, no response is used uninspected.

**Web calls** (`tools/scrape.ts`, `tools/search.ts`, `web-research/*`): batches
over lanes, with one retry, a browser fallback, a deadline that only runs while a
worker holds the query. Correct when: every URL and query asked for is answered
once, attributed to the right cause, never counted twice.

**State store** (`infrastructure/state/*`, `utils/atomic-replace.ts`):
read-modify-write under the state lock, temp file and rename, backups. Hard:
crashes between the steps, the fallback to a non-atomic copy, processes of
another build. Correct when: what was acknowledged survives.

**Embedding election, server and GPU lock** (`infrastructure/embedding/*`,
`gpu-resource-service.ts`): two-phase registration (placeholder port, then the
real one), waiting followers; a serial queue over one native context that may
hang; a server that steps down clears its entry long before it frees its model;
a hold-counted owner record stolen by age. Correct when: one server per machine
is active and it is the registered one, one native call runs at a time, one
process is on the GPU.

**Embedder** (`knowledge/embedder.ts`): load, recovery to the CPU, idle and
terminal disposal, each joined by others at its awaits. Correct when: no
inference runs on a pipeline under disposal, no pipeline is overwritten alive.

**Knowledge store** (`knowledge/writer-queue.ts`, `store.ts`,
`store-operations.ts`, `infrastructure/knowledge-store-service.ts`): opening with
migration and recovery, ingestion by generations (write the replacement, then
prune), readers on a pinned version beside other processes, the full-text index,
the service's own life cycle. Correct when: no row is stranded, no page loses its
last generation, a skipped index rebuild was not needed, a failed read is not
told as a miss, no component leaks.

**Deep research** (`orchestration/deep-research-orchestrator.ts`,
`research-orchestration-service.ts`, `researcher-executor.ts`): rounds of
planning, concurrent researchers, retries, fast stop, partial results. **The
lead** (`core/planning-service.ts`): what a model's answer makes the run do, and
the staged reduction of what does not fit. **Quick run**
(`quick-research-orchestrator.ts`, `research-synthesis-service.ts`). **Steering**
(`session-state.ts`, `tools/research-tool-definition.ts`, `index.ts`,
`tui-controller`). **Knowledge search** (`tools/research-knowledge-search.ts`).
Correct when: a run ends once and its numbers add up, what the user typed is
delivered, returned or reported, every report is seen by the lead, a fault is
never told as a result.

**Front ends** (`sdk.ts`, `cli.ts`, `config.ts`, `research-config.ts`,
`utils/stdio-capture.ts`) and the **service container**
(`core/service-registry.ts`): several lifetimes in one process, a command beside
a signal, settings from five sources saved by several processes, captures that
overlap. Correct when: a lifetime does not touch the next one, the exit status
says what was printed, a saved setting is the one that is read, stdout comes
back, a service is torn down once.

Not modelled: browser process cleanup and installation, the session registry,
pid liveness, chunking and SQL helpers, the shutdown manager, proxy health, the
vulnerability/Stack Exchange/YouTube clients, TUI rendering, skill installation,
health check, metrics, logging; `PROJECT.json` says why, one by one. They are
operating-system I/O, stateless, or nobody's state depends on theirs.

### 1.2 How they interact

    tool / CLI / SDK --> Steering, SdkLifecycle, CliRun, Settings, StdioCapture
          |
    RunSemaphore --> ResearchRounds / QuickRun --> Planning (LLM calls)
          |               |
    FileLock (slots)  ResearcherRun --> ScrapeCall, SearchBurst, KnowledgeSearch
                                            |                        |
                          BrowserCalls + CircuitBreaker         StoreAccess, StoreOpen,
                                            |                   IngestQueue, FtsIndex
              getScheduler(): SchedulerElection --> state file       |
                                            |      (StateFile)  KnowledgeService
              leader: TaskQueue --> WorkerPool --> ThreadWorker,     |
              follower: HTTP to the leader         PageMutex,   EmbeddingElection,
                                                   ScrapeTask   EmbedQueue, Embedder,
                                                                GpuLock
    all of the shared files: FileLock + LockTurns + LockWait
    the services of one process: ServiceContainer

A module takes a lower one at the guarantee that module's runs establish, and
says so: RunSemaphore takes one try of a slot as one step (FileLock with no
misfire), SchedulerElection takes the init lock as exclusive and reclaimed from
the dead, and a state-file update as one step (FileLock, LockTurns, StateFile).
TaskQueue takes `ensurePool` as something that settles (WorkerPool's
EveryWaitEnds). GpuLock and EmbeddingElection take an update of the state file
as atomic; StoreOpen takes the init lock as exclusive.

## 2. The modules

Every module opens with a comment that says what it models and which file it
translates; an action is the code between two awaits unless the table says
otherwise.

| module | models | one action is |
|---|---|---|
| `FileLock` | the cross-process lock-file protocol | one file-system call |
| `LockTurns` | one instance's turn queue, re-entrancy, `cleanup()` | code between two awaits |
| `FifoLock` | abstract: a first-come-first-served lock whose head may give up | – |
| `LockWait` | the clocks of one `acquireLock()` | an observation, a decision, a tick |
| `RunSemaphore` | the cap and its only caller | one try of a slot |
| `WorkerPool` | the manager of the pool | |
| `TaskQueue` | the leader's tasks from call to answer | also a timer, a tick |
| `SchedulerElection` | leader election, restart, step-down, disposal | one state-file or lock operation |
| `BrowserCalls` | a follower's tasks over the leaders it meets | one request, verdict or restart |
| `CircuitBreaker` | `execute()` and `reset()` | |
| `ThreadWorker`, `PageMutex`, `ScrapeTask` | a worker's browser, its page creation, one page load | |
| `ScrapeCall`, `SearchBurst` | a call of the scrape tool, a burst of queries | |
| `StateFile` | one update of the state file | one file operation |
| `GpuLock` | the GPU owner record | one update of the record |
| `EmbeddingElection` | who serves embeddings | one update of the entry, a load, a poll |
| `EmbedQueue` | the server's serial queue | |
| `Embedder` | loads, recoveries, disposals and calls of one embedder | |
| `StoreOpen` | opening, migrating, repairing and pruning the store | one rename, drop, save or commit |
| `IngestQueue` | writing pages from several processes | one store operation |
| `FtsIndex` | the baseline that lets rebuilds be skipped | one commit or reading |
| `StoreAccess` | reads, writes and deletes on one handle | one store operation |
| `KnowledgeService`, `ServiceContainer` | life cycles of the store's service and of any service | |
| `ResearchRounds`, `ResearcherRun` | the rounds of a run; one round's researchers | |
| `Planning`, `QuickRun`, `KnowledgeSearch` | the lead; a quick run; the knowledge tool | |
| `Steering` | messages and cancellations of a session | |
| `SdkLifecycle`, `CliRun` | the library's and the command's lifetimes | |
| `Settings` | the user's settings over their files | one system call |
| `StdioCapture` | overlapping captures | |
| `MCResources`, `MCProgress`, `MCIntegrity`, `MCDelivery` | compose components for one run | |
| `MCSchedulerElection` | values of the constants (those of `TaskQueue` stand in the module) | |
| `Lists` | the list operators the models share (`filter`, `slice`, dedup by first occurrence) and what they keep, as lemmas | – |
| `Workings` | ten components of the run `Delivery`, each followed by its proof | |
| `ResourcesProofs`, `ProgressProofs`, `IntegrityProofs` | theorems and proofs; those of `TaskQueue` and `SchedulerElection` stand in the modules, those of the run `Delivery` in `Workings` and `MCDelivery` | |

How the state of the larger ones corresponds to the code:

**FileLock.** `file` is the lock path, `trash[p]` what `p` renamed away; a file
carries its true owner, whether the record was written (`written`), and an age
class (fresh, past the window for unreadable locks, past
`liveOwnerStaleThreshold`). `pc` follows `acquireLock()`: `open`, `read`
(read + stat), `judge` (`_shouldReclaim`, with the per-episode liveness memo in
`believed`), `rename`, `verify`, `restore`; then `write`, `hold`, `relRead`,
`relUnlink`. `Crash`, failing I/O (`WriteFails`, `InspectFails`, `VerifyFails`),
`Retire` and `ForceTeardown` (`cleanup()`) may come anywhere. `misfired` records
that a reclaimer renamed a *living* process's lock away.

**LockTurns.** `line` is the chain of turn promises, `resolveTurn` the captured
`_releaseTurn`, `heldIn` the AsyncLocalStorage sets that contain the key. A flow
started by a timer inherits the set of the callback that armed it (`ContextOf`).
The lock file is reduced to free/ours/peer. Its refinement of `FifoLock` maps the
line without the flow in service, and that flow as the holder.

**LockWait.** Time may advance between any two steps; `since`, `progress`,
`last`, `awaiting` are `startTime`, `lastProgressAt`,
`lastSeenUuid`/`lastSeenMtime`, `awaitingReclaim`. A look at the lock may fail
(`LookFails`): the tick goes on to the stall check with `awaitingReclaim` reset.
`first` and `blind` are history: when the lock could first be read, and whether
the last look failed.

**RunSemaphore.** `slot[i]` is whose acquisition the file names; `sweep` is the
run's start, offset and count of errored slots. `open`, `intact`, `shut` are
history over the sweep in progress, for the two action properties.

**TaskQueue.** A tick decrements the armed timers; a timer at zero fires before
the next tick. `phase` is the caller's view, `job` the worker's: they end
separately. `due` is the pending `process()` pass.

**WorkerPool.** `resets` holds the reset callbacks, armed or awaiting
`destroy()`, each with its captured generation and pool; `init` is the shared
initialization promise; `racing` records a second `destroy()` of a pool while
the first runs, `outgoing` the pools whose replacement was begun. poolifier's
`destroy()` ends (`DestroyDone`), is rejected (`DestroyFails`, life "broken") or
never settles; a rejected one stays in `_destroyInFlight`.

**SchedulerElection.** A call of `getScheduler()` also names the scheduler it may
create. `life` is up / draining / cleared / closed, so that the two halves of
`shutdown()` (clear the registration, close the server) are separate. `promise`
decides whether an initialization has been superseded (`isSuperseded`). A call
that had to restart first gets back as "restarted", or is rejected with the
restart.

**EmbeddingElection.** `place` is where a session is, from its call to its end. A
server that steps down goes from "lead" to "closing" in the step that clears its
entry (or fails to), to "gone" when the HTTP server is closed, the queue idle and
the model freed, and to "wedged" when an inference hangs for good.

**ServiceContainer.** An instance is live until something disposes of it;
`instance` is the one registered, `failed` the ones a failed (re)initialization
dropped. `clears` holds the `clear()` and `replace()` calls under way, each with
what it disposes of and what it brings; `marker` is `disposalPromise`.

**ScrapeCall.** The unit is an *entry* of a call's list, not a URL: the same URL may
be listed twice.

**The store modules.** A row is a member of a small set, a page's generation its
time stamp, the table the sequence of its versions. `StoreOpen.dirs` maps each
table directory to its rows, the manifest names the live one of each mode;
`StoreAccess` pins a version per handle; `FtsIndex.baseline` is what a process
remembers of its last rebuild.

**Histories.** `excuse`, `forfeited`, `waived`, `raced`, `letgo`, `late`, `misfired`
and the like record that one particular thing happened after which the promise no
longer holds. There are two kinds. Either the code gives the promise up on purpose,
by a comment or by design: a hold stolen by age, a write the caller was told had
failed. Or the code breaks it, and then section 4 names the flaw and the property
says what is true all the same. A property that names a history holds without
exception until then, and an exception is no wider than the step that records it.
Some histories do not waive a promise but say what may replace it: `outgoing`
(pools that may be handed out though they are not live), `parted` (a table that no
manifest names), `unbuilt` (a run that ended in an error with reports in hand),
`failed` (instances outside the container), `garbled` (a search that may answer
"no" when cancelled), `first` and `blind` (what a waiter could see).

**The compositions.** `MCIntegrity`, `MCDelivery`, `MCProgress` and `MCResources`
instantiate several components that share no variable. Their product would be
astronomically large and say nothing new, so a behaviour of a composition is
about one component, the `subject`, fixed in the initial state, and the others
stay where they start. This is sound in both directions: a run of the
composition checks exactly the union of the components' state spaces; and the
theorems `Components` of the proof modules show that every behaviour of the
composition is, for each component, a behaviour of that component's own
specification. `SchedulerElection`, `TaskQueue`, `FileLock` and `StoreOpen` are
also run alone.

## 3. The runs

| run | what it checks | instance | states |
|---|---|---|---|
| `Resources` | `CapHolds`, `NoLeakedSlot`, `RefusedOnlyWhenFull`, `EveryRunGetsIn` of the semaphore; `DestroyedOnce`, `GivenALivePool`, `ResetsTheLivePool`, `EveryWaitEnds` of the pool | 3 runs in 2 processes on 2 slots, with deaths or breakage; 3 callers, 2 shapes, 3 pools, 1 shutdown | 140,545 |
| `TaskQueue` | `SlotsBalance`, `FullBudget`, `NobodyIsOvertaken`, `EverythingSettles` | 3 tasks in two mixes, capacity 1 or 2, depth 2, an abort, a shutdown | 163,182 |
| `SchedulerElection` | `NoOrphanScheduler`, `OnlyJustifiedClears`, `LosersGoQuiet`, `EveryCallSettles` | 3 calls, 2 processes, 6 scenarios | 84,090 |
| `Progress` | `ExclusionUnlessMisfired`, `NoOrphanUnlessMisfired`, `DeadLockReclaimed` (FileLock); `ImplementsFifoLock`, `NoLostTurn` (LockTurns); `OneNativeCall`, `EveryoneAnswered` (EmbedQueue); `RecoversWhenHealthy` (CircuitBreaker); `OneOutcome`, `RunEnds` (ResearchRounds) | 2 live processes and a dead one; 4 flows; 4 requests, one hangs; 3 trials; 3 rounds, 2 messages | 29,033 |
| `Integrity` | `NothingStranded`, `AcknowledgedSurvives`, `GpuExclusive`, `InferenceUndisturbed`, `OneLeader`, `NoComponentsLeak`, `TornDownOnce`, `StoppedMeansQuiet`, `WaitIsBounded`, `PageNeverVanishes`, `SkipOnlyWhenCovered`, one per component | as in `Integrity.cfg` | 1,322,458 |
| `Delivery` | `AccountedFor`, `Undisturbed`, `StoreIsShared`: one promise per component, below | as in `MCDelivery` and `Delivery.cfg` | 629,556 |
| `FileLockThreeHeirs` | violation: mutual exclusion of the lock file | 3 live processes, a dead owner | |
| `LockTurnsSiblings` | violation: callers of one instance are serialized | 4 flows, two sharing a set | |
| `SchedulerElectionBlind` | violation: no fresh leader is wiped | the handover scenario | |
| `StoreOpenLiveDir` | violation: live data is never reaped | two modes in one directory | |
| `ResearcherRunGhost` | violation: no failure is recorded after the run's end | a round of three | |
| `SettingsLegacy` | violation: the registry wins over the legacy file | two processes, a legacy file | |

`Delivery` has fifteen components, whose promises are conjuncts of two invariants
and one action property. `AccountedFor`: every entry of a scrape call is told once
and to the right cause (scrape 92 k states, a worker's page load 3 k), every query of
a burst ends as what it was (search burst 199 k), steering is kept (56 k), every
report reaches the lead (Planning 30 k), a quick run and its list of sources add
up (18 k), a fault of the knowledge search is not told as a miss (26 k), a saved
setting is the one that is read (88 k), the exit status tells what happened (6 k),
the lead keeps its plan, budgets and agenda.
`Undisturbed`: no sibling's browser is reset under it (worker 23 k), one page at a
time (5 k), retries reach somebody (browser calls 28 k),
lifetimes are separate (SDK 21 k), captured output comes back (0.4 k), content is
inspected. `StoreIsShared`: what a handle reads or deletes is what the other
processes' commits left (store access 33 k).

**Bounds.** The races these components guard against are between two actors and
a third event: a reclaimer, a holder and a new arrival; an initialization, a
restart and a peer; a writer, a pruner and a crash. Each run has two actors that
do everything and, where a successor matters, a third. Ages are classes, not
times, so they are exact. RunSemaphore, SchedulerElection and Settings use
*scenarios*: `Init` picks a record that says who may crash, cancel, fail and so
on, and every behaviour of one scenario is explored. Independent hazards are thus
combined in groups instead of all at once, which kept the state spaces within
minutes; a hazard that needs a combination outside the listed scenarios would be
missed. Other bounds: `MaxNesting` (re-entrant levels: two tell a count from a
flag), `Horizon` (past the ceiling of the slowest wait), `MaxPools` 3 (a pool, its
replacement and the replacement's), `MaxStops` 1, `restarts` 1, `MaxDepth` 2 (full
and not full), `Threshold` 2 for the error counter and the missed leadership
checks (3 in the code, for both: what matters is one below and one at it),
`MaxStoreFaults` 2 and `MaxStoreOpens` 2 (a failure or crash and the open that
finds what it left, with a second fault under it), `MaxBackups` 2 (a good and a
bad one), `MaxBuilds`/`MaxInits` (a build, its replacement and one more),
`MaxLoads`/`MaxDisposals` 2 (a load and its recovery, a disposal and a revival),
`MaxItems` 3 and `MaxUrls` 2 (a scrape call that names one URL twice, and one more
than it may fetch), `Replacer` one (two `replace()` behind one `clear()` are left to
the theorem), `MaxWaitTime` 10 (past the ceiling, 7, of the slowest lock class),
`MaxCommits` 2 (starting from two generations of a page), `MaxSaves` (lock files
created), `MaxFrames`. One exception of a property is out of a bound's reach and
therefore idle in the run: `RetriesReachSomebody` of `BrowserCalls` excepts a
verdict that misled a call, which takes three calls. And one disjunct is never
fired: the wait of `initialize()` for its own disposal in `KnowledgeService`,
which settles before anybody can come to it.

`CONSTRAINT Promised` of the run `Integrity` stops the search at states where a
component has recorded the one event after which its property is waived (the
histories of section 2): they satisfy it for ever by their `excuse`, and their
successors would be most of the state space. It hides nothing: the states where
the history becomes non-empty are still generated and checked, and the action properties do not
name one of these histories. The theorems do without it.

`CHECK_DEADLOCK FALSE` stands in every run: the system may come to rest, with
every call answered, every instance retired or dead, or the horizon reached.

**Fairness.** What the event loop does by itself is weakly fair: a pending
callback runs, I/O completes, a timer fires, time passes, a lock's wait ends.
Never assumed: that a caller asks, cancels or restarts; that a process crashes
or does not; that a worker answers; that poolifier's `destroy()` settles; that a slot
mends; that a peer releases; that a hung inference returns. `EveryWaitEnds` of the
pool therefore names the waits that a hung `destroy()` may hold for ever, those the
code leaves without a bound (`worker-pool-manager.ts:202`, `:383`, `:532`; the
shutdown's own, `:600`, has one): `P ~> (Q \/ []R)`, where `R` says that the wait is
one of them and the `destroy()` is still pending. Callbacks under a lock and research runs are assumed to
end. Two strong fairness conditions: `Verify` in `FileLock` (transient read errors
of a trash copy do not recur for ever) and `Release` in `LockTurns` (nested calls
of a flow do not go on for ever). The liveness properties are `EveryRunGetsIn`,
`EveryWaitEnds`, `EverythingSettles`, `LosersGoQuiet`, `EveryCallSettles`,
`DeadLockReclaimed`, `NoLostTurn`, `EveryoneAnswered`, `RecoversWhenHealthy` and
`RunEnds`.

## 4. What is not so

Six violation runs, each a statement of the repository that the code does not keep:

- **Three heirs** (`FileLockThreeHeirs`). B judges a dead owner's lock and is
  suspended; A reclaims it and acquires; B renames A's fresh lock away; before
  B's verification puts it back, C creates its own. A and C are inside together.
  The theorem `Exclusion` shows that this (or a forced teardown) is the *only* way.
- **Siblings** (`LockTurnsSiblings`). Re-entrancy is a set inherited through
  AsyncLocalStorage. Two timers armed in the same callback share it; each takes
  the other's hold for its own and both enter.
- **The blind clear** (`SchedulerElectionBlind`). A restart that read no
  registration clears unconditionally, and by then a peer may have registered:
  what the comment at `scheduler-factory.ts:135-142` says is prevented. The
  theorem `ClearsAreJustified` shows that it is the only way a restart of another
  process wipes a healthy leader.
- **The live directory** (`StoreOpenLiveDir`). A re-embed that dies before its
  rename leaves the vector table live under its temporary name; the next open in
  BM25 mode looks only at its own live name and reaps it.
- **The ghost** (`ResearcherRunGhost`). A researcher in its back-off outlives both
  bounds of the stop and records its failure after `endResearchSession()` freed
  the record.
- **The legacy file** (`SettingsLegacy`). A setting saved to the registry while a
  legacy file exists is replaced by the legacy value at the next load
  (`config.ts:875`).

Further observations, met while modelling, without a run of their own. The models
contain the behaviour; where a property would fail for it, it excepts it by name.

*Locks and the semaphore.* A look at a lock that fails resets `awaitingReclaim`, so the
recovery of a torn lock may be given up at such a tick
(`file-lock-service.ts:698-703`, `:781-800`). Two empty lock files compare equal at the verification
(`file-lock-service.ts:765`). An abort during a sweep of the semaphore is not heard
until the deadline: `sleep()` installs its listener after the event
(`research-run-semaphore.ts:350`). `GpuLock` releases by pid only, and the
unconditional release of a disposal can drop a sibling's hold.

*Browser.* Probes queued behind probes may expire (`browser-task-scheduler.ts:577`);
the idle timer is re-armed by arrivals only (`:233`). `ensurePool()`'s wait for a
reset takes no generation snapshot (`worker-pool-manager.ts:171`), so a call that
waits across a whole shutdown builds a pool for a scheduler that is gone. While a
pool is replaced for another shape `this.pool` still names it, and calls of the old
shape are given it (`:184`), though the comment at `:150-155` says that returning a
pool under destruction must not happen; when its `destroy()` is rejected, the
half-destroyed pool stays the manager's under its old shape and goes on being given
out until the next shutdown, and every later replacement fails with the same promise,
which stays in `_destroyInFlight` (`:132-139`, whose derived promise at `:138` rejects
unheard). A `destroy()` that hangs holds the initialization, those who joined it, the
reset and the shutdown that joins first. A restart
whose read of the state file throws has already dropped the old scheduler
(`scheduler-factory.ts:122`). A stale CLOSED-admitted failure re-opens a breaker in
HALF_OPEN. A 503 "draining" is no pool-shutdown error and spends the generic retry
(`task-execution-service.ts:29-35`). A query that another process only queued is told
as a timeout once the client's patience is over (`browser-client.ts:149-165`,
`browser-error-utils.ts:63-73`), though `browser-client.ts:60-62` says that work "is
not discarded because the pool was busy". A URL listed twice in one scrape call is
fetched, told and counted twice: `deduplicateUrls()` compares with the session, not
within the list (`shared-links.ts:141-156`). In a worker, a second wedge overwrites
`wedgedContext`, an immediate reset closes whatever `browser` is by then, and a
deferred one may never come under load.

*Store.* Between the rename of a temporary table and the second `saveManifest` the
data is in a table that no manifest names (`store.ts:659-662`), though the comment at
`:638` says that one always does. An `openTable` that fails after both is taken for a
failed rename, the manifest is put back to the temporary name, and the data stays
unnamed (`:746-756`). Where the second save fails and the undoing rename succeeds but the
reopening after it fails, the undo is taken for failed, the manifest is made to name
the missing table, the next open creates it empty, and the prune after it deletes the
data (`:685-744`). These two cases are `parted` and "undo mistaken" in `StoreOpen`; the
other losses that `NothingStranded` excepts are a manifest that is lost, a table opened
in the other mode, and a sound table that is deleted because it could not be read. Only row-count equality guards the full-text
baseline, though `store.ts:107-112` says the count is not sufficient. A peer's
write stamped earlier and committed later is outranked. The embedder's `failed`
overwrites `disposing`, `embed()` and `dispose()` in one tick do not see each other,
and a dispose during a recovery burns its first drain. `initialize()` of the
knowledge service, having outwaited a disposal, builds beside it, and `dispose()`
with nothing to close leaves a settled promise that makes a later `initialize()` spin.
A disposal in which one part throws leaves the fields as they were
(`knowledge-store-service.ts:413-425`): the disposed service says that it is ready, a
second `dispose()` returns at once, and the next build overwrites what was never
disposed of.
In the container a `clear()` with nothing to clear makes `get()` spin
(`service-registry.ts:410`, `:250-252`). A failed initialization or re-initialization
only forgets its instance (`:300-314`, `:767-775`), which nobody disposes of.
`replace()` looks at a disposal in flight once (`:450-453`): two that wait behind one
`clear()` dispose of the same instance and one replacement is lost alive (it is used by
tests only).

*State file.* A backup that cannot be read, or a directory that cannot, is skipped and
the recovery reported as successful with an older copy or the default
(`state-backup-manager.ts:149-151`, `:165-168`). A recovery that fails persists the default over a file with intact
backups; corrupt files are backed up and rotate good backups out; an older build
that recovers a torn newer file restores an older state.

*Embedding server.* A server that steps down clears its entry first and frees its model
after closing its HTTP server (up to five seconds) and waiting for its queue without a
bound, or never where an inference hangs (`embedding-server.ts:419-483`, `:349-359`): in
between a successor loads a second model, and what keeps their inferences apart is the
GPU lock alone, not the "single-GPU-context invariant" of `:325-327`. A server that cannot
clear its entry keeps being found until its followers judge it unreachable.

*Runs.* A run whose fallback report cannot be built, because a service throws or the
container is being disposed of, ends in `onError` with reports collected
(`deep-research-orchestrator.ts:812-823`), though `:792` says "Only a run with nothing
to return is a failure". Exhausted waits emit `evaluation_start` twice; the bound of the while loop
is never reached. A failed routing call degrades to the prior agenda, and the next
round shows its reports by digest only, though no answered call had them
(`planning-service.ts:1393-1417`). In a quick run, markers of other citations in a
replaced list survive unmapped (`research-synthesis-service.ts:405-417`, against
the comment at `:338`). A pool drain that reads 'Aborted' without an abort vanishes
from the scrape tally (`web-scraper.ts` about 500). A popped steering message whose
forward fails after the last run is lost, though `session-state.ts` says "never
silently lost". A knowledge search that is cancelled while a garbled answer is being
repaired reports a miss (`research-knowledge-search.ts:607-616`, against the comment at
`:1075-1080`).

*Front ends.* `runDeepResearch`'s `finally` clears `_isRunning` whatever the
generation (`sdk.ts:651`); `_doInit`'s clears a newer init's promise. A signal after
the report was printed races the exit codes. The settings lock is released without
an ownership check, and a third contender's create between rename and link-back
lets two savers in. `openSync(logFile)` that throws after `closeSync(2)` leaves
descriptor 2 closed (`stdio-capture.ts:256-273`).

## 5. What is proved

`tlapm` checks the modules below from nothing. The theorems hold for every value of the
constants: any number of processes, calls, rows, pools, and any pattern of crashes,
faults and cancellations the actions allow.

The common shape: the property of the run is seldom inductive, so each component has
an inductive invariant, a conjunction of a type invariant and of named parts that
each say what one kind of actor may rely on. TLC checked each invariant on the small
instance first; then three facts are proved, that it holds initially, that each
action keeps it (one lemma per action, or one per way of moving when several actions
move alike), and that it implies the property.

### 5.1 The lock file (ProgressProofs)

`TypeCorrect`, `Exclusion`, `NoOrphans`, `Retirement`, `QuietExclusion`. That two
processes are not inside says nothing about the file that will let a third one in.
The inductive invariant is `IInv == TypeOK /\ (Clean => LockInv)`, where `Clean` says
that no living process's lock was renamed away and no teardown was forced, and
`LockInv` that
- a process between `open` and the end of its release finds its own file at the path
  (`OwnerAtPath`), from which exclusion follows because a path has one file;
- a living process that is elsewhere owns no file at the path (`NoOrphan`);
- the trash holds files of the dead only (`TrashOfTheDead`), so that putting one
  back can never bring a released or held lock of a living process back;
- no contender ever reads its own uuid (`NeverOwnLockSeen`).

`CleanIsOld` shows that a clean step starts clean, `LockInvPreserved` treats one
action at a time. *QuietExclusion* adds `QuietInv` to obtain plain mutual exclusion
where nobody dies and nothing ages. *Retirement* needs only `TypeOK`; its proof
shows that both re-checks of `_retired` are needed. Assumed are `NamesAssumption`
and `ClassAssumption`: the names of processes and of "no lock" differ, and the
switches have their types.

### 5.2 ResourcesProofs

Semaphore: `TypeCorrect`, `Cap`, `Ownership`, `NoLeak`, `Refusal`, `FailOpen`. The cap
counts runs, but a try-take sees only files. `SlotInv` relates the two: a run inside
has a file that names it, nobody has two, a file names only a run that was admitted,
and a run is dead exactly when its process is. A slot is stolen only from the dead, so
nobody inside loses a file, and the map from runs inside to files is an injection
into `MaxSlots` slots. Refusal and fail-open are verdicts on a sweep of several
awaits, so they need what the sweep knows half-way: `SweepInv` says that no slot tried
so far has been takeable ever since the sweep began; that if all tried slots errored
none of them has been intact, and otherwise one has not been broken, ever since.
`OnceRound` shows that the last offset of the wrapped index completes the round.

Pool: `PoolsDestroyedOnce`, `ResetsHitTheLivePool`, `PoolsGivenLive`. The invariant says
that a live pool is the one in the field and whatever destroys a pool that can still be
named has registered it, rejected or not (`Account`), that a dying pool's epoch is behind
(`Epochs`), that
one reset per generation is pending and then nothing else is done (`Resets`), and what a
shutdown, an initialization and those that joined it may rely on (`Phases`, `Usable`).
`Resources` puts both together for the composition.

### 5.3 ProgressProofs

`TurnsAreFifo`: LockTurns implements `FifoLock` under the refinement mapping, step by
step: every action maps to joining the line, being served, giving up or a stutter. It
needs that the line has no repetitions and that the turn granted is its head's until it is
handed on, early only by a retirement, after which none is granted. `OneAtATime`: one
native call at a time in the embedding server, whatever hangs: what is inside is what
`currentWork` names, which only a running queue has, and nothing runs once the disposal
has begun. `EveryRunAddsUp`: a round under way has been announced, and only one that
concludes may be one ahead of the count; an error with reports in hand is one whose
fallback could not be built (`unbuilt`). `Progress` states the safety of the composition.

### 5.4 TaskQueue and SchedulerElection

`Balance`: the queues hold just the waiting calls, once each, and `active` is the
number of running jobs. `Budget`: `Charged`, for each task what its timer has counted
of its execution. `InOrder`: whoever is started is taken from the head of the highest
non-empty queue, so it is ahead of whatever it could overtake.

`NoOrphans`: an instance stays in its slot only with the promise that installed it,
and a restart at rest holds nothing (`OrphanInv`). `ClearsAreJustified`: a registration
is only seen after its election, and what a judging or clearing call knows of it stays
true because no scheduler stands for election twice (`ClearInv`); a restart that comes back,
or does not, moves calls only (`BackFromRestart`).

### 5.5 IntegrityProofs

The eleven components of the run `Integrity`, each with the invariant at the end of its
own module; `Components` carries them to the composition and `Integrity` states the
result. What each needed:

- `GpuExclusion`: a call that waits or holds runs in a living process, and the record
  of one that holds bears the start time of its life, so a reborn pid is no heir.
- `SkippedRightly`: what a baseline covers, over the versions since, up to the swap the
  row count cannot see.
- `Quiet` (StoppedMeansQuiet): a researcher that prompts is registered; once the stop is
  under way its condition holds until it is told, since recorded failures only grow.
- `Waits` (WaitIsBounded): what was seen last is as old as the clocks say, counted from
  the first look that succeeded, and a torn lock about to be decided is awaiting its
  reclaim unless the last look failed (`Looked`).
- `TornDown` (TornDownOnce): one initialization, one `clear()` or `replace()` and one
  thing the teardown waits for at a time, one live instance but for the failed ones, and
  what a resumed call may still rely on.
- `NoLeaks` (NoComponentsLeak): one build; the fields know the one disposal, or hold
  what a failed one left (`Stuck`); and what holds in the microtasks between the settling
  of a promise and its awaiters.
- `OneServer` (OneLeader): whoever loads or serves is the registered one and nothing of a
  dead process lives.
- `PagesStay` (PageNeverVanishes): what a process will not delete is there; stamps are
  never ahead of the clock, and their order is the order of births.
- `Acknowledged` (AcknowledgedSurvives): while the file is torn the newest backup is
  legible and holds all that was acknowledged; a recovery that sees it restores it.
- `NoneDisturbed` (InferenceUndisturbed): one load runs, the one the promises are of;
  what the state, a disposal and a call at each step may rely on; and that a recovery
  whose drain found quiet leaves no call on the pipeline but the one that recovers.
- `NothingLost` (NothingStranded): every row to keep has a home, a backup or the table
  its mode's manifest entry names, or, between the rename of a temporary table and the
  second save of the manifest and wherever an open ended there, the plain name. What makes each of the seventeen steps of
  an open keep that is what it may rely on at its place: a generated name is new, the
  tables of the two modes never have one name, a directory that may be removed holds
  only rows written off, and a copy with no batch left owes no row (its rows are
  counted: those it owes are among the first so many, and as many as its batches left).

The assumptions are `Parameters` and `StoreParameters` of `MCIntegrity`: numbers are
natural, a marker is no member of the set it marks, the plan of a round and the callers
of an embedder are finite, the migration strategies are the code's three. TLC evaluates
them in the run.

### 5.6 Workings and MCDelivery

The fifteen components of the run `Delivery`. A component's instance is followed by
the assumption about its constants and by its lemmas and its theorem: ten in `Workings`,
and in `MCDelivery`, which extends it, the five that compute over lists, the
composition and what is proved of it. The invariants stand with the components, under
"What makes it so". `Components` shows that each of the fifteen runs as its own
specification says; `Accounted`, `NobodyDisturbed` and `StoreShared` state the results.

First what *happened* and what is *told* of it (`AccountedFor`):

- `UrlsReported` (ScrapeCall): an entry of the list waits and nothing was said of it, or
  it has ended and was reported and counted as its end demands; and an entry that a layer
  works on is not in the queue as well. It holds for any list, repeats included, because
  the queue has each entry once (the same URL twice is two entries).
- `ToldPerQuery` (SearchBurst): a query that was taken is in a lane until it has ended,
  and a lane ends only when all are taken (`LanesCarry`); the timer of a query runs only
  while the query does; what was sent to another process (`afar`) has no timer here and
  may be outwaited, queued or running, which is told as a timeout; and no page is counted
  for two.
- `SaidOnce` (Steering): `Whereabouts` tells where one message is from all that knows of
  it, the box, the message's status, the runs that heard it, the copy on its way to pi
  and pi's own queue. The promise relates two of these at a time; that it survives a pop
  whose forward is under way needs all five.
- `ToldAlways` (CliRun): what was printed is what was decided, a warning is of the signal
  that is latched, and nobody is warned before there is one.
- `QuickAccounts` (QuickRun): the session has an owner from its registration to its
  abort; once the run has settled nothing is queued; and the delivered list is the one
  rebuilt from what was written, each page once, with the marker of a number its list
  gave to one page at that page's place (`Rebuilt`).
- `LookTruthful` (KnowledgeSearch): the chosen pages are dealt with from the best ranked
  on (`DealtWith`): for some `d` the first `d` are read or lost, none after them is read,
  and those to do come next. The panel needs the number of searches on the screen
  (`Screen`), a cardinality that one search at a time raises or lowers. What a cancelled
  search answers is "no" at most, and only of an answer that was garbled (`garbled`).
- `LeadSound` (Planning): there is an agenda whenever there may be need of one
  (`AgendaKept`); renumbering leaves the ids of a team different, whatever the model
  called them; and the batches of a pass stand for what the corpus stood for
  (`CorpusKept`): a filling that is cut where an entry does not fit loses no entry.
- `SavesSurvive` (Settings): whoever is inside holds a lock that is on its path, in the
  hand of a steal or lost by one (`Locks`); who is about to write has read the file as it
  is (`Contents`); a stamp is never ahead of the files, and what a load has read is what
  they hold as long as its stamp is theirs (`Cached`).

The attempts changed the models in two places. In `Settings` the property promised too
much: a steal that renamed a *fresh* lock away cannot put it back once the path has been
taken (`link` fails with EEXIST and the file stays under its reclaim name,
`config.ts:455-463`), and from then on its owner and a newcomer are both inside for as long as
the owner works, not only while the steal has the lock in its hand. The ghost
`misplaced` records such locks, and `breach` has the cause "lost" for them. And the list
computations of `ScrapeCall`, `Steering`, `QuickRun`, `KnowledgeSearch` and `Planning`
are stated by what the code's `filter`, `Set` and `slice` do (`Lists`), or as functions
computed step by step, of which a lemma shows that the computation exists (`Computable`);
folds could be checked, but not reasoned about.

Induction over data, which the library offers only with an operator parameter, was
avoided by well-foundedness: a set of natural numbers that is not empty has a least
member (`Least` in `Lists`), so a computation that breaks a rule breaks it first
somewhere.

Then what is *undisturbed*, and the store:

- `SiblingsKeepTheirBrowser` (ThreadWorker): only the last task resets, and with it gone
  there is nobody to disturb; the property is inductive as it stands.
- `PagesOneByOne` (PageMutex): a call that hangs without the mutex has left its
  context's mark, unless another's took its place, and an open page is the one its task
  works on.
- `RetriesReach` (BrowserCalls): a call that recovers keeps no leader in mind but a dead
  one, and once it has asked for a restart the client aims there no longer, unless a
  verdict misled it; a restart that throws ends the call. This proves the exception that the run's two calls cannot reach.
- `LifetimesApart` (SdkLifecycle): who waits for whom; one initialization or one teardown
  at work; a run of the current generation that began in peace is in peace; and, the
  hard part, what holds between the end of a shutdown and the openers that waited for it
  (`LimboIsEmpty`): nothing is up but what one of these has begun. The attempt showed
  the property as it was first stated to be false with three openers, one more than the
  run has: a run started while *another* initialization was still building is of no
  lifetime, and its summary outlives it. The history `late`, which excepted runs started
  during a shutdown, now counts those too.
- `FenceSeesAll` (ScrapeTask): what is withheld is known to be or is being inspected as
  long as only an inspection closes the page, and what is still inspected is waited for.
- `ComesBackAlways` (StdioCapture): captures end in any order, so a frame may be retired
  below live ones: whose task runs has a frame that is not retired, the lowest frame
  alone keeps the terminal's writers, and whoever saved the log as descriptor 2 lies
  above a frame that put it there.
- `OneStore` (StoreAccess): whoever is on the connection is awaited by its close, which
  nobody enters after; an attempt's version is at least the one current when its
  operation began, unless it fell back to an older handle; and a scan that is not cut off
  has seen the newest generation. Assumed (`AccessSetting`) is that all rows a page can
  have fit the second scan, 1,024 in the code: past it the code itself may serve an
  older generation.

The assumptions are those of the components about their constants (`CallsSetting` and the
like, assumed in `Workings` and `MCDelivery` as `CallsSettingHolds` and evaluated in the
run): there is a leader, openers and closers are different calls, the log and the terminal
are different files, the URLs of a call are finitely many, a signal is no exit code, budgets are
positive, `"gone"` is no process, and the sizes just named.

### 5.7 What stays with TLC

Every safety property that a passing run checks is the subject of a theorem. What has none
is liveness, which is out of this prover's reach like everything about ENABLED: the ten
properties at the end of section 3. What a recursive *operator* computes is out of reach
too (tlapm has no SMT backend where one is declared); none of the modules with theorems reaches one.

## 6. What is abstracted

- Contents: queries, results, prompts, reports, settings' values, metrics, logs. A
  page is its generation, a document its size, a setting one of two values, a list
  entry its number.
- The liveness check of a pid with its start time is exact; its verdict cache is
  modelled where it can be stale (`believed`, `BrowserCalls.verdict`).
- In modules above FileLock the lock does not misfire (section 4 says when it may).
- A worker is something that answers, dies silently, or neither (TaskQueue).
- In SchedulerElection the follower's HTTP calls are one step: the port listens or
  does not; BrowserCalls looks inside them.
- An LLM answers, refuses, is late or is rate limited; what it says is one of a few
  shapes (Planning, QuickRun, KnowledgeSearch).
- Other processes' clocks agree (mtimes on one machine). Time is counted in ticks
  whose order matters and whose length does not.
- A saver inside the settings lock is done before its lock is judged stale.
- `configSourcesFingerprint()` is each file's `mtimeMs:size` (`config.ts:1211-1225`);
  `Settings` takes it as a version that no two contents share. An edit of equal size
  within the granularity of the mtime is therefore not seen by the model, nor by the code.

## 7. What is left

- `registerAndReplace()` of the service container and calls from inside an `initialize()`;
  the HTTP transport of the embedding client; compaction of the store.

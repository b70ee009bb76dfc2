# CLDefocus in TLA+

CLDefocus synthesises a defocus-deblurring dataset and trains models on it.
This directory holds a TLA+ model of its synthesis pipeline, the TLC runs that
check it and TLAPS proofs about it. Paths below are relative to
`src/datasyn/src/datasyn/` unless they start with `src/`.

## 1. Inventory

### The program

`src/datasyn/scripts/synthesis/synthesize_dataset.py` builds six stages and
hands them to `Pipeline.run_batch`, which runs them one after the other:

| stage | class | items come from | work is done by |
|---|---|---|---|
| s1 crop | `PatchCropNode` (`ParallelWhileSourceNode`) | photos, cycled over until a target is reached | a GPU process pool (or threads, or in place), results committed in order |
| s2 sharpness filter | `SharpnessFilterNode`, in a child process | the ranking of all s1 items, made once | no-op per item |
| s3 camera | `CameraChooseNode` | items done in s1 and s2 | GPU processes, in chunks of items |
| s4 patch | `PatchGenerateNode`, in a child process | items done in s1 and s3 | threads |
| s5 PSF | `PsfGenNode` | items done in s1, s3, s4 | GPU processes, by photo |
| s6 blur | `BlurNode` | items done in s1, s3, s4, s5 | GPU processes, by photo |

Every stage keeps its state on disk and nothing else survives: the program is
killed and started again on the same directories as a matter of course.

### Components, their state and operations

* **`ItemProgress`** (`pipeline/progress.py`). Three SQLite files per stage:
  `done.db`, `skipped.db`, `errors.db`. Operations: mark done, skipped, failed;
  clear a failure; move all failures to skipped; list. Each call of the stores
  below it is one committed transaction, `mark_done` is two of them.
  *Correct when* an item is decided once, for good, and never both ways.
* **`StageNode`** and **`Pipeline`** (`pipeline/node.py`, `pipeline/pipeline.py`).
  In memory only: the snapshot of ready items, the threads and their items.
  Operations: `ready_items`, `run`, `_process_batch`, `_run_one`.
  *Correct when* items flow along the dependencies only when completed, no item
  is worked on twice, and what fails or is interrupted is taken up again.
* **`GroupedStageNode`** (`pipeline/node.py`). The same with groups of items as
  the unit of work; it has no caller in this repository.
* **`WhileSourceNode`, `ParallelWhileSourceNode`** (`pipeline/node.py`). Durable:
  the checkpoint (`cycle`, `unit_idx`). In memory: the loop position, the count
  of produced items, failure streaks, compute futures or GPU results.
  *Correct when* exactly `target_count` items appear, in whole units, and no
  attempt is passed over unless it failed.
* **`PatchCropNode.commit_unit`** and its stores (`synthesis/stages/s1_patch_crop.py`,
  `synthesis/stores/`). Five durable stores written one after the other.
  *Correct when* whatever is recorded done can be loaded by the later stages.
* **`SharpnessFilterNode`** (`synthesis/stages/s2_sharpness_filter.py`). Durable:
  the selected ids, a completion marker, its progress.
  *Correct when* what it exposes is one fixed ranking of the complete s1 output.
* **GPU stages** s3, s5, s6 with **`run_mp_per_gpu`** and **`GPUProcessPool`**
  (`utils/parallel/`). Worker processes write results and progress themselves.
  *Correct when* every item handed out ends done or failed, results are there
  before the item is done, and a worker's death does not hang the coordinator.
* **`run_single_subprocess`** and **`SubprocessStageRunNode`**
  (`utils/parallel/subprocess.py`, `synthesis/subprocess_nodes.py`). A stage in a
  spawned child, its dependencies replaced by read-only proxies.
* **`ThreadPipeline`**, `run_thread_pools` (`utils/parallel/`). Threads, bounded
  queues, sentinels and an error path. *Correct when* outputs are the images of
  the inputs, an error surfaces, and the consumer's loop always ends.
* **SQLite and LMDB stores** (`utils/sqlite/`, `utils/lmdb/`). Transactions; a
  process-wide, reference-counted cache of LMDB environments.
* **Output manager** (`utils/output/`). Durable: run directories and a `current`
  symlink. Operations: begin, finalize (switch the link, delete old runs), abort.
  *Correct when* `current` is a complete run at every instant.
* **Topological sort** (`pipeline/pipeline.py`) and the checks of `Pipeline`.
  *Correct when* every graph gets an order that respects it, or an error.
* **DFT sample grids** (`mathutils/dft/sampler.py`). Values on an axis, and the
  offset that says which position the first of them has.
  *Correct when* offsets and values agree through any sequence of calls.
* **Training loops** (`src/deblurring/`): `basicsr` (NAFNet and Restormer) with its
  `.state` files, and IniKNet's epochs with its checkpoint. *Correct when* a
  training interrupted and resumed is the training that was asked for.
* **`PipelineProgressMonitor`** (`pipeline/monitor.py`). A thread that polls the
  databases while a run goes on.
* Numeric code (optics, ISP, JAX helpers, vendored `zernipax`), photo providers,
  the PSF demo, and the network definitions, metrics and other training scripts
  of `src/deblurring` (forks of third-party models).

### Interaction

The stages share no memory. A stage reads the `done.db` of its dependencies
(`ready_items`) and their data stores by item id. The coordinator calls a node's
`run`; a node calls its threads or processes and its stores. Exceptions travel
the other way and, depending on `fail_fast`, are recorded or end the run.

### What is hard

Crashes between two transactions and the reruns that follow; threads and
processes that finish in any order against a state read earlier; database calls
that time out; the target that cuts a unit short; a unit that fails for ever;
queues that are full or empty when somebody dies. `PROJECT.json` lists each at
its line under `hazards`.

## 2. Modules

Two things hold of all modules. A call of a SQLite or LMDB store is one step,
because the code below it (`utils/sqlite/`, `utils/lmdb/`) commits one
transaction per call; what happens between two calls is open to every other
thread and process, and to a crash. And what the environment may do (start the
program, kill it, let a call raise) is an action with a bound of its own
(`MaxRuns`, `MaxCrashes`, `MaxRaises`, `MaxFaults`, `MaxTroubles`, `MaxDeaths`,
`MaxOrphans`, `MaxSkipAlls`, `MaxErrors`, `MaxRunFaults`, `MaxRunCrashes`,
`MaxTrainings`, `MaxKills`, `MaxCalls`), counted in `used`, `runs`, `troubles`, `deaths`,
`orphans`, `raised`, `spent`, `trainings`, `inikKills` or `calls`. `MaxName` and
`MaxFinished` bound the names and the number of runs of `RunOutput`.

| module | models | state | actions |
|---|---|---|---|
| `ItemProgress` | one stage's three databases | `done`, `skipped`, `errors` per stage | one operator per transaction |
| `StageLedger` | *abstract:* what a pipeline promises | one status per stage and item | `Decide` |
| `StageNode` | `Pipeline.run_batch` over plain stages, in place or with threads, and `skip_all_failed` | the stage loop (`phase`, `cursor`), the batch (`queue`), one `pc` and `item` per thread | one per transaction or return of `_run_one`, `run`, `_process_batch` |
| `UnitProduction` | *abstract:* what a while-source promises | the set of produced items | `Produce` |
| `UnitCommit` | `PatchCropNode.commit_unit`, checkpoint, count and restart, shared by both drivers | the five stores, the two checkpoint keys, the loop position | one per durable write |
| `WhileSource` | the serial loop and the window of futures | `futures`, `nextI`, `streak`; extends `UnitCommit` | `Await`, `ComputeAhead`, `UnitFailed`, ... |
| `GpuSource` | `_run_gpu_pool` | `pending`, `results`, `ahead`; extends `UnitCommit` | `BuildBatch`, `Collect*`, `Pick`, `BatchOver`, ... |
| `GpuPool` | `GPUProcessPool`: start-up, init lock, tasks, dead processes | per process its point, device and task; the lock; the tasks owed | `GrabIndex` ... `Deliver`, `Die`, `Respawn` |
| `GpuStage` | `_process_batch`, `run_mp_per_gpu` and `_worker` of s3, s5 and s6 | `stored`, per worker its task's items and its point; extends `GpuPool` and `ItemProgress` | one per store call of `_worker`, the coordinator's `Launch` and `Join` |
| `SharpnessFilter` | s2 in its child process, its parent and the stages around it | selection, marker, progress files; per child its point | one per file operation |
| `ThreadPipeline` | `ThreadPipeline.map`: feeder, workers of each stage, generator | the FIFO queues, the point of each thread, `stopped`, `_stop_event`, the buffer | one per queue operation, count or return of a stage function |
| `TopologicalSort` | `_build_dep_map` and Kahn's algorithm | in-degrees, ready list, order | one popped node a step |
| `RunOutput` | `OutputManager.run` over `RotatingStrategy` | directories, complete ones, `current` and its temporary, where the run is | one per call on the file system |
| `SampleGrid` | the samplers of `dft/sampler.py`: offsets, shifts, rolls, transforms | per axis the domain, the offset, and which position each value is of | one per method |
| `BasicsrTraining` | `train.py` of `basicsr`: resuming, the iterations, saves | the iteration, the files saved, epochs | one per iteration or file |
| `IniknetTraining` | IniKNet's `train.py`: accumulated gradients, saves, resuming | updates applied, pending gradients, checkpoint | one per batch or save |

The `MC*` modules give TLC its instances, the `*Proofs` modules hold the proofs.

Composition: `WhileSource` and `GpuSource` are two drivers of the one
`UnitCommit`, and both refine `UnitProduction`; `GpuStage` runs its workers on
`GpuPool`'s processes; `StageNode` and `GpuStage` and `SharpnessFilter` keep
their outcomes in the one `ItemProgress`; `StageNode` refines `StageLedger`, and so
does `GpuStage` (proved only: its stages have no dependencies among themselves).

`MCComponents` composes what does not interact: the filter, the thread pipeline,
the sort, the output manager, the grids and the two trainings share no state, so
`part` picks one of them at the start, its `Next` runs, and the others stay in
`Init`. All parts but the filter may come to their end; `PartStops` is their
stuttering, so that a deadlock of the filter is still one.

Where a reader of the code may stumble:

* An item, a photo or a unit is a number; results are sets of item names. What a
  computation returns is not modelled, only that it returns or raises. `Yield`
  says how many patches an attempt gives; it is a constant because
  `compute_unit` depends on seed, unit and cycle only.
* `missed`, in `UnitCommit`, is a history variable: the attempts that raised.
* A unit's error and an item's error are different keys of the same database.
  `UnitCommit` keeps the units only.
* In `GpuStage` the variable `kind` picks s3, s5 or s6 at the start. They differ
  in how tasks are cut, how many files an item writes, whether the photo is
  opened outside the `try`, and whether one GPU means no pool.
* A program that is killed loses its threads; its worker processes and its
  spawned child may survive it. `Orphan`, in `GpuStage` and in
  `SharpnessFilter`, is such a process: it goes on writing to the same
  directories while the next run is at work. At most one exists at a time.

## 3. Runs

"Expect violation" runs check a statement of the repository's own documents or
comments that the code does not keep; section 6 explains them.

| run | instance | shows |
|---|---|---|
| `StageNode_stages` | diamond of four stages, two items; each start runs in place or with two threads; 5 starts, 1 kill, 1 exception, 1 store fault, 1 `skip_all_failed` | `UpstreamFirst`, `WorkIsExclusive`, `OutcomeIsUnique`, `ImplementsLedger`, `EventuallySettled` |
| `StageNode_skip_all_failed` | two stages, one item | `SkippedStops` fails |
| `WhileSource_source` | 3 units, 4 cycles, target 3, yields 0, 1 and 2; serial runs and runs with a window of two, mixed over restarts | `StoresNested`, `NeverOvershoots`, `WindowFollowsLoop`, `LossIsBounded`, `StreakEndsStage`, `LastFailureListed`, `ImplementsProduction`, `AbortNeedsStreak`, `EventuallyExact` |
| `WhileSource_torn_checkpoint` | 2 units, serial, one kill | `NoUnitLost` fails |
| `GpuSource_source` | 2 units in batches of 3, so that every second batch spans two cycles; target 6 | `ProducedInOrder`, `LossIsBounded`, `ImplementsProduction`, `EventuallyExact` |
| `GpuSource_streak` | 2 units, 2 exceptions | `StreakEndsStage` fails |
| `GpuStage_pool` | camera and blur, 2 GPUs or none, 3 items in 2 tasks, 1 killed process, 1 trouble, 2 starts | `StoredBeforeDone`, `OneProcessPerItem`, `DevicesExclusive`, `ReturnAccountsForAll`, `EventuallyDone` |
| `GpuStage_hard_crash` | 2 GPUs, one process killed | `RunsEnd` fails |
| `GpuStage_unopenable` | 2 photos, one cannot be opened, one GPU | `AllAttempted` fails |
| `Components_side_by_side` | one part at a time, see below | `OnlyRankedItems`, `RestSeesWholeRanking`, `FilterEventually` (filter); `OutputsWhole`, `OneStageMapEnds` (thread pipeline); `SortIsSound`; `CurrentIsWhole`, `RunsKept` (output); `EvenGridsKept` (grids); `TrainingIsWhole`, `DriftIsBounded` (trainings) |
| `ThreadPipeline_two_stages` | two stages of one worker each, unbounded queues, three inputs, nothing raises | `MapEnds` fails |
| `SampleGrid_odd_length` | one axis of five samples | `ValuesAtPositions` fails |

Every module has its type invariant checked in its main run; those of the parts
of `MCComponents` are the conjuncts of `PartsTypeOK`.

The instances of `Components_side_by_side`. *Filter*: 3 items, two of equal score,
2 kept, 2 troubles, 1 orphan. *Thread pipeline*: one stage of one or two workers,
queues unbounded or of one place, ordered or not, 3 inputs, 2 exceptions, so that both workers may raise; two stages
are the run of their own. *Sort*: every graph over three names with up to two
dependencies per node, with missing and doubled names. *Output*: sequential or
timestamp names, one run kept, base 2 with padding to 3, so that id 4 is the
first too wide (as 1000 in base 10); 3 finished runs, 2 faults, 1 kill. *Grids*: two
axes of lengths 3, 4 or 6, four calls in any order. *Trainings*: basicsr with 7
iterations, 3 batches an epoch, a save every 2, 3 starts; IniKNet with 6 updates,
accumulation over 2, a save every 2 and 3 kills.

**Why the bounds are enough.** Each instance is the smallest in which the cases
that distinguish the code's branches occur together: two threads and two items
for a race; a dependency with a stage on each side; a target that cuts a unit
whose yield is two, next to a unit that yields nothing; a streak limit of two
with two exceptions, so that a streak fills and also is broken; a batch that ends
inside a cycle; one chunk with a neighbour, and a photo with two patches. One
crash is enough for every pair (point of the crash, work of the next run), and a
fault in addition gives the pairs that need a retry after a retry. The bounds on
bad events sit in guards, not in a state constraint, so liveness is checked on
complete behaviours. Starts exceed the number of events that can end a run,
otherwise "in the end" would fail for lack of a start. The proofs of section 5
remove the bounds for the safety properties they cover.

`GpuStage_pool` has no `psf` kind: in the model it is `blur` without opening the
photo.

## 4. Fairness

Each `FairSpec` is a conjunction of weak fairness per action.

* *The operator starts the program again until its work is done*: `WF(Launch)`.
  The resumability the docs promise is meaningless without it. Nothing is
  assumed of a program that is never started again.
* *A thread, a process or the coordinator that can go on goes on*: one `WF` per
  thread, worker, process or child, so that no thread starves another. It
  rests on the operating system's scheduler and on SQLite's 30 s busy timeout,
  after which a blocked call has become one that raises. For the orphan of
  `SharpnessFilter` too, which nobody stops; the orphan of `GpuStage` may stop
  anywhere.
* *The threads of a `ThreadPipeline` run, and the caller iterates*: one `WF` for the
  feeder, one per worker and one for the generator. That the caller closes the
  generator early, or that something raises, has none. `put` on a full queue waits
  for a place, and nothing makes anybody read that queue: where the code leaves such
  a thread behind, the model does too. `OneStageMapEnds` admits those states, named
  one by one in `Wedged`, and no other: the full queue of a thread in `put` that
  nobody reads any more, and the generator on an empty queue all of whose workers have
  left their loop, both with bounded queues, after an exception or an early close.
* *Nothing bad has to happen*: kills, exceptions, faults and deaths have no
  fairness; nor does an unopenable photo need any, it is a constant.
* `InitLockTimesOut` is fair because `acquire(timeout=600)` returns.

No action needs strong fairness: nothing here is disabled and enabled again by
others for ever.

## 5. What is proved

TLAPS checks these for every value of the constants that the named `ASSUME`s
allow: any DAG, items, threads, window, batch size, GPUs, yields, and any bound on
crashes and faults.

| module | theorems |
|---|---|
| `StageNodeProofs` | `TypeCorrect`, `UpstreamFirstHolds`, `OutcomeIsUniqueHolds`, `WorkIsExclusiveHolds`, `ReturnSettlesHolds`, `LedgerImplemented` |
| `WhileSourceProofs` | `TypeCorrect`, `StoresNestedHolds`, `NeverOvershootsHolds`, `WindowFollowsLoopHolds`, `AbortNeedsStreakHolds`, `StreakEndsStageHolds`, `LastFailureListedHolds`, `LossIsBoundedHolds`, `EndsExactHolds`, `ProductionImplemented` |
| `GpuSourceProofs` | `TypeCorrect`, `StoresNestedHolds`, `NeverOvershootsHolds`, `LossIsBoundedHolds`, `ProducedInOrderHolds`, `EndsExactHolds`, `ProductionImplemented` |
| `GpuStageProofs` | `TypeCorrect`, `StoredBeforeDoneHolds`, `DevicesExclusiveHolds`, `OneProcessPerItemHolds`, `ReturnAccountsForAllHolds`, `SomebodyGoesOnHolds`, `LedgerImplemented` |
| `SharpnessFilterProofs` | `TypeCorrect`, `OnlyRankedItemsHolds`, `RestSeesWholeRankingHolds` |
| `ThreadPipelineProofs` | `PipelineTypeHolds`, `OutputsWholeHolds`, `SeveralStagesStay`, `OneStageStays`, `WedgedStays` |
| `ComponentProofs` | `CurrentIsWholeHolds`, `RunsKeptHolds`, `OldRunsGoHolds`, `EvenGridsKeptHolds`, `TrainingIsWholeHolds`, `DriftIsBoundedHolds`, `SortIsSoundHolds`, `PartsTypeOKHolds`, `PartsAreComponents` |

`ComponentProofs` extends `MCComponents`, for the components it composes.
`PartsAreComponents` says that its specification implements that of every component
in it, so a theorem about one of them also holds of `Components_side_by_side`.

**Pipeline.** `UpstreamFirst` is not inductive: a thread marks an item done long
after `ready_items` was read. `BatchInv` keeps what the snapshot still says, item
by item and point by point of `_run_one`, and that no item is held twice;
`OperatorInv` keeps that errors, and so what `skip_all_failed` moves, only concern
items that had come through. `LedgerImplemented` maps a pair to *done* before
*skipped* and shows that only `MarkDoneAdd`, `MarkSkipped` and `SkipOne` change it.
`OutcomeIsUnique` is about both pairs of records: done and skipped never meet without
`skip_all_failed`; done and failed only while `mark_done` is at work, unless something
was killed or a call raised (`FailureInv`: nor is an item done that a thread is about to record as failed).
`SkipAllStops` is a kill or a store fault between the calls of `skip_all_failed`.
`ReturnSettlesHolds` is the safety half of `EventuallySettled`, with no limit on crashes
or faults: a `run_batch` that returns has lost no item. `AccountInv` follows an item
that is ready through the queue and the threads to its decision or its record in
`errors.db`. Behind the cursor nothing becomes ready again, because the stages run in a
topological order; the theorem assumes one (`TopologicalOrder`), and `SortIsSoundHolds`
is why the program has one.

**While-source.** `CommitInv` (`UnitCommitProofs`) is the invariant of the commit
sequence, used by both drivers: at each point the stores before it hold the batch
(`Staged`), and until `mark_done_many` the batch is still what the budget allows
(`Selected`): the coordinator is the only writer of `done.db`. It gives nesting,
the target, and that `MarkDoneMany` is one `Produce` step. `WindowInv` says which
units have futures at each point of the loop. `StreakInv` ties a streak of *n* to
*n* cycles missed in a row, ending with the last attempt of that unit.
`SourceInv` adds to `CommitInv` that batches stay within the attempts' numbers, the
one place where division and remainder enter. `FailureInv` is what the two
properties about failures need: an attempt before the loop position is whole or
missed, a missed one is behind the loop position and in `errors.db` unless a later
attempt of the unit succeeded, and a streak is never longer than the limit; the
lemmas say which steps can forget a failure, which list one, and which do neither.

`LossIsBounded` rests on two invariants of the sequence. `CkptInv` (shared): what the
checkpoint on disk would lose if the program stopped now is bounded by one more
interruption than there were, between the two writes of a checkpoint as well; a torn
one is new in its cycle and old in its index, so what it skips are units of one
cycle. `LossInv` (one per driver) bounds what the running loop has passed. After
`mark_done_many` a unit is whole, or the target is reached, since a batch that was
cut to the budget has as many elements as the budget. Attempts are numbered by cycle
and index; for GPU batches those below the batch's first one are whole, missed or
`Gone`, and those in the batch are in `pending`, in the results or being committed
(`OrderInv`), so an interruption adds at most one batch to `Gone`. With no
interruption `Gone` is empty, which is `ProducedInOrder`.

A run that leaves the loop because its count reached the target has exactly `Target`
items (`EndsExactHolds`): `_n_committed` is never above what `done.db` holds
(`CountInv`, for every point of the sequence and either driver) and `done.db` never
above the target. This is the safety half of `EventuallyExact`.

**GPU stages.** `StageInv` is in three parts: `PoolInv` (indices of living
processes are different and below the counter; who is in `make_data` holds the
lock), `TaskInv` (a busy process works on items of its own task, which nobody else
has and which is not queued), `WriteInv` (a worker has stored the parts before the
one it is at). The orphan takes its part of `WriteInv` along when its run ends.
`AccountInv` follows an item from the task list to its answer: a task that was
answered, or the part of a task a worker is past, is done or in `errors.db` or the
worker is about to raise, and `clear_errors` is over before any task goes out.
`CountInv` bounds the counters by `used`, for the type invariant.

`AliveInv` is about a run in which no process was lost: none is gone, the lock is free
or held by a living process, there are as many device indices left as processes that
want one, and a task the caller waits for is queued or being worked on. So the
caller, or some process, can go on (`SomebodyGoesOnHolds`): the hang of finding 3 needs
a death. `LedgerImplemented` shows that these stages, too, only ever decide an item once
and for good, whatever faults, deaths and orphans there are.

**Sharpness filter.** `FilterInv` says s1 is complete whenever a child is alive
and so that any ranking is the ranking; `AloneInv`, for as long as no child was
left behind, what the files hold at each point of the recovery.

**Thread pipeline.** `ItemsUnique` says where an input can be: still to be fed, in one
queue, with one worker, in the buffer, yielded, and at one of these only; `ItemsKept`,
that as long as nothing raised every input that was fed is at one of them.
`SentinelInv` says where the one sentinel is: before the first stage behind every input
of that queue, with a worker who counts itself or passes it on, or behind every output
in the queue after it. It has to be an invariant of every number of stages at once,
because `stopped`, which all stages share, is right for the first one only
(`CountInv`). So with one stage the generator sees the sentinel when all workers are
done, which is `OutputsWhole`. `OneStageStays` is the safety half of
`OneStageMapEnds`: until the generator has ended, some thread or the caller can go on
(`SomeoneGoesOn`, each disjunct of which is the guard of an action), or the pipeline is
`Wedged`, and that takes a bounded queue and an exception or an early close. It is no
proof that the code cannot deadlock there, for there it can: `WedgedStays` shows that
from then on nobody reads the queue again. It rests on `ShutdownInv`: the feeder's
sentinel stays with the workers until all of them have seen it or raised, and with
unbounded queues the last of them leaves one for the generator. With several, a worker of the second stage is left on its queue:
`SeveralStagesStay` proves finding 6 for every shape, and makes `OutputsWhole` empty
there for a generator that ends by itself.

**Topological sort.** A node's count is the number of its edges from nodes not yet
in the order; a node is ready exactly when the count is zero and it was not popped.
When nothing is ready, every node left over has an edge from another left over:
that is the cycle the code reports. No induction over the graph is needed.

**Output manager.** `RunFacts` says at each point of a run what its directory holds
and where the link goes; cleanup only takes up directories the link is not at.
The abort path is why `unsafe` is part of the property: see section 6. `RunsKept`
needs the history: while nothing went wrong, the directories are those of the
finished runs that are left and of the run at hand, `current` is at the last finished
one, and every run was named after those before it (`HistoryInv`). A run cleanup
takes up has `keep` later directories, not counting that of `current`, and all of
them are later runs, so it is older than the last `keep` before the current one.
`OldRunsGoHolds` is the other side, in any history: a run that ends leaves at most
`keep` directories besides the current one, those of killed runs counted. The names are
in a strict order (`BeforeIsOrder`: also across widths, where text puts 1000 before 101),
so the number of directories behind one tells it apart (`LastFewAreFew`).

**Sample grid.** An offset is 0 or minus half the length, so the two rolls of an axis
differ by 0 or by twice the half, which is the length if it is even (`EvenRoll`).

**basicsr.** A state on disk goes with a network that is not torn, has as many
updates as the state's iteration, and was trained on the whole of every epoch before
the state's (`StatesInv`). The network is written first, and in an iteration no
state has yet, so a resume, which loads the newest state, starts from such a pair.

**IniKNet.** The scheduler's file, written last, says where a resume starts. `SaveInv`
says which files of the save at hand are of the running training; `DiskInv` bounds
what a resume would load, the snapshot when the weights are torn. A copy in memory
is at most one save period ahead of the scheduler's file, so a kill adds one period.

*Only model-checked*: all liveness (`EventuallySettled`, `EventuallyExact`,
`EventuallyDone`, `FilterEventually`, `OneStageMapEnds`), which the prover cannot do;
and the violations. Every invariant and action property a passing run checks is
proved.

## 6. Findings

1. **A crash inside `_save_checkpoint` loses units** (`pipeline/node.py:505-506`).
   The two keys are two transactions. Killed between them, after the first unit of a
   new cycle, the program resumes in the new cycle at the old index. `LossIsBounded`
   shows what that costs at most: the rest of one cycle per interruption, never its
   first unit. The items are replaced by later cycles, the dataset is not the one
   an undisturbed run gives.
2. **With a GPU pool a unit that always fails never ends the stage**
   (`node.py:613`), contrary to the "identical semantics" of its docstring. If all
   units fail, the loop does not end.
3. **A worker killed in `make_data` hangs the coordinator** (`gpu_pool.py:68`).
   The lock's timeout makes the waiting workers raise, their replacements
   find no device and raise too, and the tasks are never answered.
4. **A photo that cannot be opened ends a run of s6** (`s6_blur.py:176`) although
   `fail_fast` is off; with one GPU the photos after it are never reached.
5. **`skip_all_failed` may skip an item that is done**, and that later stages
   completed, after a crash inside `mark_done` (`progress.py:49-50` and `:85`).
6. **A `ThreadPipeline` of two stages hangs** (`mt_pipeline.py:106`). `stopped` is one
   cell for the workers of all stages; the last stage's worker is not "the last",
   puts the sentinel back on its own queue, and the generator waits for ever. The
   repository's own callers build one stage.
7. **`_roll_to_offset` rolls the wrong way** (`mathutils/dft/sampler.py:309`). It shows
   only where `new - cur` and `cur - new` differ modulo the length: on odd axes.
   `EvenGridsKept` says even grids keep values and positions together.

Seen, and no run is about it: with `fail_fast` the GPU stages do record the
error first, where `node.py:146-148` says errors are not recorded; and with GPU
batches that hold a unit twice, the commit of its earlier attempt clears the
error of its later one. When deleting an old run fails after `current` was switched,
`run()` aborts and deletes the directory `current` points to (`manager.py:125`); two
runs that begin in one second share a directory; `run_1000` sorts before
`run_999` and is taken for an old run (`rotating.py:136`). `RunOutput` has these
behaviours; `CurrentIsWhole` and `RunsKept` name them as exceptions. A torn
newest `.state` file makes every later start of a `basicsr` training fail
(`train.py:161`); in `BasicsrTraining` no `ResumeTraining` is possible then, and
`TrainingIsWhole` says nothing about it.

A `ThreadPipeline` with bounded queues may hang although it has one stage. Its
generator joins its threads when the caller closes it early (`mt_pipeline.py:179-181`,
"Ensure threads exit"), and nobody then reads the queues a thread waits to put in. And
after an exception the sentinels go out with `put_nowait` (`:127-135`, "best-effort
(don't block forever)"): on a full queue they are dropped, so that the feeder stays in
`put`, or the generator waits for an end that does not come. `ThreadPipeline` has all of
these, as `Wedged`. `process()` may call `mark_skipped` and then raise
(`node.py:199-206`): the item is skipped, listed in `errors.db`, and not retried
(`WorkIsExclusive`). With axes in front of the sampler's, `_roll_to_offset` rolls the
array's first axes (`sampler.py:311-319`) where `fft.py:33-46` and `:55-71` count
from the last: `SampleGrid` has no such axes.

## 7. What is not modelled, and the plan

Not modelled, and why: numeric code, image decoding, exports, codecs, logging
(no control state); the queue locks inside `multiprocessing.Pool`, which a worker
killed while idle may take with it (the library's); partly written files and the
leftovers of SQLite's write-ahead log (taken as atomic per call, as SQLite and
LMDB promise; a torn PNG or JSON file is not); the unlinking of s2's progress files
one by one; batch axes in front of those of a sample grid; configuration that changes between runs (`target_count`, `n_keep`);
results of a child larger than a pipe's buffer; more than one orphan.

Components left out. `GroupedStageNode` has no subclass here.
`TableStore` beyond the calls the stages make is one transaction a call and keeps
nothing in memory. The progress monitor only reads. `utils/files.py` (directory
statistics, shuffling) has no caller. `OverwriteStrategy` is `RotatingStrategy`
without names. NRKNet's training script restores the weights alone and counts on from
the number in their file's name: one file, so nothing can disagree.

The map covers a small share of the repository's lines, and cannot cover a large
one: optics, ISP, PSF computation, Zernike bases, grids of the vendored `zernipax`,
network definitions, metrics and data augmentation are numeric functions without
control state, and they are most of the repository. What has state that survives a
step (the pipeline, its sources, stores, pools, processes, output directories,
training loops) is modelled.

The order of work was: the pipeline (every stage depends on it), the while-source
(the most intricate state), the GPU stages, the filter, the thread pipeline and the
smaller components. What comes next:

1. The reference-counted cache of LMDB environments (`utils/lmdb/npystore.py`), whose
   count an open that fails leaves too high, and the totals the monitor shows. No
   stage closes an LMDB store, so today the count never decides anything.

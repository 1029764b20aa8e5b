# TLA+ verification of the `changes` CI synchronization engine

This directory holds TLA+ models of the parts of `changes` (under `src/`)
that decide what happens when, the TLC runs that check them, and TLAPS proofs
about them. Each definition is written from the source lines that
`PROJECT.json` ("map") gives it. Parts of the system that are not in this
repository are modelled from `spec.md`, and their map entries say so
(`spec_modelled`).

## 1. Inventory

### Components, their state and their operations

| Component | Source | State it keeps | Operations |
|---|---|---|---|
| Job synchronization engine | `src/changes/jobs/sync_job.py` | Job status/result, Build status, the work queue | `sync_job` (lock, early returns, backend `execute`, abort on `UnrecoverableException`, Job commit, conditional Build UPDATE, continuation or fan-out, retry) |
| Command expansion protocol | `src/changes/api/command_details.py` | Command status/return code/dates, new JobPhases and JobSteps, the `expand:<id>` lock | `POST` status report: lock, reject, update the Command, skip expansion of a failed step, validate, `expand_command`, commit |
| Green-build ancestry tracker | `src/changes/listeners/green_build.py` | one `LatestGreenBuild` row per (project, branch), a `green_build` Event per Build | `build_finished_handler`: gate, VCS update, per-branch ancestry check and write, notification |
| Step synchronization engine | not in the repository (only `src/tests/changes/jobs/test_sync_job_step.py`) | Step status/result, Task status, ItemStats, FailureReasons | `sync_job_step`: timeout, backend `update_step`, missing-tests policy, coverage, continuation |
| Entity model | `src/buildbox/models/step.py` | the Step row | constructor defaults (`duration` is a read-only getter) |
| Lock, backend, VCS client, work queue | not in the repository | external | `lock`, `execute`/`update_step`/`cancel_step`, `is_child_parent`, `delay`/`retry` |

### How they interact

Everything runs as tasks on an external work queue, with at-least-once delivery,
on a pool of parallel workers. `sync_job` re-enqueues itself every 5 s until
its Job is finished and then fans out `update_build_result`,
`update_project_stats`, `notify_listeners(job.finished)` and
`update_project_plan_stats`. The Jobs of one Build meet on the Build row,
which only a conditional UPDATE writes (`WHERE status IN (queued, unknown)`).
A worker's status report reaches the Command API, which may expand the Command
into a new JobPhase with JobSteps and enqueue `sync_job_step` for each.
When a Build finishes, `build_finished_handler` runs, serialized per Build
only, and moves the per-branch green pointer. Serialization is advisory: a
non-blocking Redis lock keyed by the task's arguments, and an invocation that
cannot take it does nothing.

### What is hard

* Interleavings of syncs of different Jobs on the Build row, and of green-build
  handlers of different Builds on the same `LatestGreenBuild` row.
* Exceptions between two commits: `sync_job` commits the Job, then updates the
  Build, then enqueues. Its retry re-reads a state that is already half
  updated.
* Duplicate delivery and lock contention: an invocation that cannot take the
  lock abandons, and the lock holder is trusted to re-enqueue.
* Out-of-order completion: older commits' Builds finish after newer ones.
* Status reports for one Command that race. Only some of them take the expand
  lock, and that lock expires after 15 s.

### What makes each component correct

* Job sync: no unfinished Job is ever dropped. Every finished Job fans out.
  The Build follows its first started Job and never moves backwards.
* Command expansion: at most one expansion per Command. No expansion of a
  failed step. An empty expansion yields one finished/passed phase.
* Green build: a branch only ever names a passed commit Build of one of its
  revisions. Its pointer only moves to a descendant, or away from a
  revision the VCS forgot. Every branch of a green revision is considered.
* Step sync: a timed-out step is cancelled and failed. A finishing step that
  misses tests is failed. The Task mirrors the Step, and an unfinished Step
  is always synced again.

The hazards, each at its line, are listed in `PROJECT.json` ("hazards").

## 2. Plan and status

1. **JobSync** (done): the Job sync engine with the work queue, the per-Job
   lock and exceptions before and after the Job commit. Its proofs are in
   **JobSync_proofs** and **JobSync_refinement**.
2. **GreenBuild** (done): the green-build handler with concurrent handlers,
   branch order, forgotten revisions and the notification outcome. Its
   proofs are in **GreenBuild_proofs**. **GreenPointer** is its abstract
   specification, and GreenBuild refines it (TLC checks this with one
   worker).
3. **CommandExpansion** (done): concurrent reports as two-step transactions
   (read, then commit). The expand lock is taken only for finished/output
   reports, and a constant allows it to expire. An expansion enqueues a
   `sync_job_step` per new JobStep before the commit (lines 152-160).
4. **StepSync** (spec-modelled, since `sync_job_step.py` is not in the
   repository): the timeout policy, the missing-tests policy, the Task mirror
   and the re-enqueue of an unfinished Step. **ExpansionSync** composes it
   with CommandExpansion over the shared queue and set of JobSteps.
5. **StepEntity** (done): the Step constructor's defaults.
6. **JobLifecycle** (done): the abstract Job lifecycle. JobSync refines it,
   which TLC checks and TLAPS proves.
7. Liveness (done, TLC only): Jobs finish and fan out, and scheduled Steps
   finish, under the fairness given in section 4.

Not done: the coverage/ItemStat part of `sync_job_step` (see section 7).

## 3. Modules and how they correspond to the code

### JobSync (`src/changes/jobs/sync_job.py`)

* `jobStatus`, `jobResult` and `buildStatus` are the rows.
* `jobPlan` is what the JobPlan query and `plan.steps[0]` find: no JobPlan,
  no steps, or usable.
* `queue` is the set of pending tasks (`Msg(task, job)`).
* `pc[j]` is the stage of the invocation that holds Job j's lock. It is
  "started" after the read and "committed" after line 52. `prevStatus[j]` is
  its local `prev_status`.
* Actions:
  * `Acquire`: delivery and lock. `Abandon`: the lock is held elsewhere.
  * `SkipFinished`: lines 19-20.
  * `Execute`: backend `execute` and the commit. `Abort`: the
    `UnrecoverableException` path.
  * `FailExecute`: an exception before the commit, then a retry.
  * `Publish`: the conditional Build UPDATE (`NewBuildStatus`), then the
    continuation or the fan-out (`Continuation`).
  * `FailAfterCommit`: an exception after the commit. It is raised before or
    after the Build update, or after k of the fan-out tasks were enqueued.
* `Deliver` lets a delivered task stay on the queue. This models
  at-least-once delivery.
* The backend (`BackendExecute`) may leave a Job's status as it is or move it
  forward. It gives a finished Job a verdict.

### JobLifecycle (abstract)

Each Job moves forward through unknown → queued → in_progress → finished
(`Advance`). The Build's status is the one its first started Job gave it, and
`Report` marks a finished Job as fanned out. JobSync implements it under
this mapping:
* `status <- jobStatus`, `result <- jobResult` and `build <- buildStatus`;
* `fanned <- FannedOut`, the set of Jobs for which all four fan-out tasks are
  on the queue.

The queue, the locks and the invocation stages are hidden.

### GreenBuild (`src/changes/listeners/green_build.py`)

* `green[br]` is `LatestGreenBuild.build`.
* For each Build's handler, `stage` and `idx` hold where it is in the branch
  loop. `seen` holds the row it read, and `event` the Event status it
  recorded.
* The history is given by constants:
  * `Ancestry` is a partial order, assumed reflexive and transitive.
  * `Gone` holds the revisions the VCS no longer knows. These produce
    `UnknownChildRevision` / `UnknownParentRevision`.
  * `RevBranches` gives each revision's branch list in iteration order.
* Actions:
  * `Ignore`: lines 70-77.
  * `Start` and `FailUpdate`: lines 79-95.
  * `ReadGreen`: line 173.
  * `SetGreen` and `KeepGreen`: lines 179-217, split on
    `ChildParentOutcome`.
  * `Notify`: lines 97-167, reduced to the Event status.
* `Workers` bounds how many handlers run at once.

### GreenPointer (abstract)

GreenPointer states what the tracker promises, with no handlers, branch loops
or VCS calls. Its only variable is `green`. One `Move(br, b)` step moves
branch `br` to a passed commit Build `b` whose revision is on `br`. It may do
so only if the branch names nothing, names a forgotten revision, or names an
ancestor of `b`'s revision. GreenBuild's `green` is the refinement mapping:
`GreenPointerSpec == GP!Spec`, where GP is an INSTANCE of GreenPointer on the
same constants.

### CommandExpansion (`src/changes/api/command_details.py`)

* State:
  * `cmd` is the committed Command row, reduced to its status and whether
    `date_started` and `date_finished` are set.
  * `stepResult` is the owning JobStep's result.
  * `phases` holds the JobPhases that expansions created, each with its
    status, result and number of JobSteps.
  * `lock` is the holder of `expand:<id>`.
  * `steps` holds the committed expanded JobSteps, as pairs
    `<<report, index>>`. `tasks` holds their pending `sync_job_step`
    messages.
* Each report `r` is one request, with arguments `rargs[r]` chosen in Init
  from `ReportArgs`. `rread[r]` and `rnew[r]` are the Command as the request
  loaded it and as it changed it. `rexp[r]` is its pending expansion.
* Actions:
  * `LockBusy`: lines 51-57. `nowait` fails and the request ends.
  * `Begin`: lines 56-112 up to the commit. It covers:
    * the rejection of a finished Command;
    * `Updated` (lines 67-82);
    * the failed-step skip;
    * the validation rollbacks;
    * the expansion, which enqueues the `sync_job_step`s at once
      (`EnqueueSyncs`, lines 152-160).
  * `Commit`: line 114 and the `finally` clause. `Flushed` writes only the
    columns the request changed, as SQLAlchemy's flush does. The expanded
    JobSteps become visible here.
  * `Teardown`: the skip at line 91 returns before the commit, after the
    `finally` clause has released the lock. The flushed change is committed
    when the request ends. The explicit rollbacks at lines 95, 106 and 109
    show that the session commits at teardown otherwise.
  * `StepFails` and `LockExpires`: the environment.

### StepSync (spec 4.2-4.3, `spec_modelled`) and ExpansionSync

* One reconciliation of Step s is one atomic step, taken under the Step's
  lock, and it consumes the message `s` of `tasks`:
  * `SyncMissing` and `SyncFinished`: no-ops.
  * `TimeOut`: an in_progress Step is finished and failed, and its Task is
    finished.
  * `Update`: the Backend moves the Step forward. `PostProcessed` fails a
    finishing Step that misses tests. The Task mirrors the Step. An
    unfinished Step keeps its message pending (the re-enqueue).
* `Taken` models at-least-once delivery: a consumed message may stay pending.
* ExpansionSync EXTENDS CommandExpansion and instantiates StepSync (`SS`)
  over the same `tasks` and `steps`. Each step is one of the two, and it
  leaves the other module's variables unchanged:
  * `Report` is any step of CommandExpansion;
  * `Reconcile(s)` is any step of StepSync on Step s.
* Its specifications are `SysSpec` (safety) and `LiveSpec` (with the
  fairness). Because it EXTENDS CommandExpansion, `AtMostOneExpansion` and
  `vars` are CommandExpansion's own definitions.

### StepEntity (`src/buildbox/models/step.py`)

* `rows` holds the constructed Steps, and `used` the GUIDs handed out.
* `Construct` takes any combination of passed and omitted keyword arguments.
  `Constructed` is the constructor of lines 34-43.
* A column's value keeps its enum class: `[enum |-> "Result", name |->
  "unknown"]` is not a Status.

## 4. Runs

| Run | Config | Expect | What it shows |
|---|---|---|---|
| job_sync | `JobSync.cfg` | pass | 2 Jobs, every JobPlan kind, at-least-once delivery, and exceptions before and after the commit. `NeverDropped` and `BuildNeverRegresses` hold, and JobSync implements `JobLifecycle` (48855 states). |
| job_sync_crash_after_commit | `JobSync_crash.cfg` | violation | An exception after a finished Job's commit. The retry returns at line 19 and the fan-out is lost (4 steps). |
| job_sync_live | `JobSync_live.cfg` | pass | Exceptions only before the commit, under `LiveSpec`. `FinishedFannedOut` and `BuildStartedWithJobs` hold, and every Job eventually finishes and is fanned out (`JobsFinishAndFanOut`, 8097 states). |
| green_build | `GreenBuild.cfg` | pass | 4 Builds on the forked history r1←r2←r3, r1←r4. b4 failed and r1 was rewritten. One worker, any completion order. `GreenNeverMovesBack` holds, and GreenBuild implements `GreenPointer` (`GreenPointerSpec`). |
| green_build_workers | `GreenBuild_workers.cfg` | pass | The same history with two handlers at once. Branches may move back here (see `green_build_race`), but every branch only ever names a passed commit Build of one of its revisions (`GreenIsPassed`, 7932 states). |
| green_build_race | `GreenBuild_race.cfg` | violation | Two workers. b1 and b2 both read "no row" for A, and b2 writes. Then b1 writes, so A moves from r2 back to r1. |
| green_build_branches | `GreenBuild_branches.cfg` | violation | One worker. b3 moves A to r3. Then b2 finds A not an ancestor and returns, so B stays on b1 although r2 descends from r1. |
| command_expansion | `CommandExpansion.cfg` | pass | 3 reports of every kind (in_progress, finished with valid, invalid or no output, return code only), 0 or 1 JobSteps, a JobStep that may fail, and a lock that may expire. Every action of the handler happens, and `TypeOK` holds (16650 states). |
| command_expansion_race | `CommandExpansion_race.cfg` | violation | An in_progress report loads the Command while it is queued. A finished report expands and commits. The in_progress report then commits and reopens the Command, and a resent final report expands it again. |
| expansion_sync | `ExpansionSync.cfg` | pass | Two final reports (finished with output, or return code only), a lock that holds, expansions into up to 2 JobSteps, timeouts and a Step that misses tests. The lock keeps `AtMostOneExpansion`. Under `LiveSpec`, every JobStep scheduled while it exists eventually finishes (4290 states). |
| expansion_sync_lost | `ExpansionSync_lost.cfg` | violation | A `sync_job_step` is delivered before the expansion commits, finds no Step and is dropped. The committed JobStep is then never reconciled (`NoStepDropped`). |
| step_entity_status | `StepEntity_status.cfg` | violation | Over every combination of passed and omitted keyword arguments, a Step constructed without a status gets `Result.unknown`, which is not a `Status`. |

**Bounds.**
* Two Jobs are enough for every interaction on the Build row: first-job-wins,
  a late transition after another Job finished, and a lost update. The three
  JobPlan kinds cover all branches of lines 30-45.
* Three reports are the fewest for which a reopened Command is expanded
  again: the in_progress report, the final report and its copy. MaxSteps = 1
  covers both the empty and the non-empty phase. `command_expansion` lets
  every report kind and the lock's expiry happen, so that every path of the
  handler is taken.
* ExpansionSync uses MaxSteps = 2, so that one expansion enqueues several
  messages and two Steps interleave. One Step misses its tests. Its two
  reports are final reports, both able to expand. That is enough for the
  lock to be contended, which is the case the lock is meant to serialize.
* The green-build history has a linear part, a fork, branches with one and
  with two members, and a forgotten revision. That covers every outcome of
  `is_child_parent` and both loop exits.
* StepEntity enumerates every keyword-argument record over one passed date
  and `Now`, in up to two constructions.

**Symmetry.** Symmetry over Reports is sound because each report draws its
arguments from the same set in Init. Symmetry over Jobs is sound because Init
and every action treat Jobs alike. The liveness runs use no symmetry.

**Deadlock.** Every model may really stop:
* JobSync stops when every Job is finished and no sync_job is left.
* GreenBuild stops when every handler has returned.
* CommandExpansion and ExpansionSync stop when every report has been handled
  and every Step is finished.
* StepEntity stops after MaxRows constructions.

So the cfgs set `CHECK_DEADLOCK FALSE`. In JobSync, the theorem `NeverDropped`
shows that an unfinished Job always has work pending, so a stop there is a
real end, not a hang.

**Fairness.** `JobSync!Fairness`:
* Weak fairness of `Acquire(j)`: the queue delivers every pending task, and a
  free lock is taken (spec 6).
* Weak fairness of the lock holder's next step: a worker runs its invocation
  to completion, because the lock is held only by a running invocation.
* Strong fairness of an `Execute` that finishes the Job: the backend
  eventually finishes a Job that is polled often enough. This is the
  assumption behind the 5 s poll loop. Without it a Job can stay in_progress
  forever, and nothing in the code prevents that.

`ExpansionSync!SysFairness` makes the same two assumptions for `Reconcile(s)`.
The JobSync liveness run allows only exceptions before the commit. With
`after_commit` faults, `job_sync_crash_after_commit` already shows the
fan-out lost. That run's safety invariants, `FinishedFannedOut` and
`BuildStartedWithJobs`, need the same restriction.

## 5. Findings

1. `sync_job.py:19`/`:52`, run `job_sync_crash_after_commit`: a finished Job
   whose first post-commit step raises is never fanned out. Its Build result
   is then never aggregated, and `job.finished` is never signalled. The same
   failure on a transition to in_progress leaves the Build queued behind a
   running Job. This is why the passing runs allow exceptions only before the
   commit.
2. `green_build.py:212`, run `green_build_race`: the read-check-write of a
   branch's green pointer is not serialized across Builds. Out-of-order
   completion can therefore move the pointer backwards.
3. `green_build.py:186`, run `green_build_branches`: `return` instead of
   `continue` skips the remaining branches of the revision.
4. `command_details.py:51`, run `command_expansion_race`: in_progress reports
   do not take the expand lock. One that loaded the Command before the
   finished report committed reopens it, and the Command can then be expanded
   twice.
5. `command_details.py:155`, run `expansion_sync_lost`: `sync_job_step` is
   enqueued before the request commits the JobStep it names. A worker that
   runs it first finds no Step and drops it, and nothing enqueues it again.
6. `step.py:41`, run `step_entity_status`: the constructor defaults `status`
   to `Result.unknown` and not `Status.unknown`.

A further hazard is modelled but not asserted by a run. The expand lock
expires after 15 s (`command_details.py:52`). With `LockCanExpire`, a
duplicate report expands a Command whose first expansion has not yet
committed. Whether this happens depends on how long an expansion takes,
which the model does not measure. No run and no theorem covers it.

## 6. Proofs (checked by `tlapm`)

Every theorem holds for every value of the constants that the `ASSUME`s of
its module allow. Those assumptions only fix the shape of the constants
(finite sets, a partial order for `Ancestry`, `Faults` a subset of the two
fault kinds). No theorem assumes away a case that the code allows.

### JobSync_proofs

These hold for every set of Jobs and every set of Faults, including
exceptions after the commit:

* `TypeCorrect`: `Spec => []TypeOK`.
* `NeverDroppedTheorem`: `Spec => []NeverDropped`.
* `BuildNeverRegressesTheorem`: `Spec => BuildNeverRegresses`.

`NeverDropped` is not inductive on its own, and `BuildNeverRegresses` needs
to know that the status a Build takes from a Job is never `unknown`. The
inductive invariant is therefore `IInv == TypeOK /\ NeverDropped /\
NoUnknownJob`. `NoUnknownJob` holds because Jobs start queued and the backend
never moves a status back.

### JobSync_refinement

* `RefinementTheorem`: `Spec => JobLifecycleSpec`, for every set of Jobs
  and of Faults.
  * The initial states map to initial states.
  * `RefinementStep` shows that every step maps to an `Advance`, a `Report`
    or a stutter.
  * The invariant it needs is `RInv == IInv /\ CommitInv`. `CommitInv` says
    that a committed invocation saw a known status that is no later than the
    Job's current one. `Publish` uses it to show that the Build UPDATE copies
    the status of a Job that has already started.
  * The lemmas on `FannedOut` show that a Job enters it only when the last
    fan-out task is enqueued, and never leaves it. `SyncNotFanOut` shows that
    a delivery only removes sync_job tasks, never fan-out tasks.

### GreenBuild_proofs

These hold for every number of workers, every history, every branch
assignment and every finite set of Builds:

* `TypeCorrect`: `Spec => []TypeOK`. Its strengthening `LoopInv` keeps a
  handler's index within its revision's branch list.
* `GreenIsPassedTheorem`: `Spec => []GreenIsPassed`.
  * Its invariant is `PInv == TInv /\ RunningPassed /\ GreenIsPassed`.
  * `RunningPassed` says that a handler past `Start` belongs to a passed
    commit Build. Only `Start` enters the branch loop, and it has the filter
    of lines 70-77.
  * In `GreenIsPassedStep`, the only step that changes a row is `SetGreen`.
    It writes the handler's own Build to the branch its loop is at, which
    `LoopInv` places among the Build's branches.

### CommandExpansion_proofs

* `TypeCorrect`: `Spec => []TypeOK`, for every set of reports and report
  arguments, including `tasks` and `steps`.

Every strengthening above was checked by TLC as an invariant before it was
proved.

**Left to TLC.** These safety properties fail in the code, as the violation
runs show:
* `FinishedFannedOut` and `BuildStartedWithJobs` fail with exceptions after
  the commit.
* `GreenNeverMovesBack`, `GreenPointerSpec` and `GreenOnEveryBranch` fail
  with concurrent handlers, or because of the `return` at line 186.
* `AtMostOneExpansion` fails with in_progress reports or with lock expiry.

They are checked on the instances where the code keeps them, and no theorem
states them under a hypothesis that rules out what the code does.

TLAPS cannot prove liveness (`JobsFinishAndFanOut`, `ScheduledStepsFinish`)
or anything that uses ENABLED. It also cannot prove what a recursive
definition computes for every input. The StepEntity property is
model-checked only.

## 7. Not modelled

* The published events (`publish_build_update`, `publish_job_update`) and the
  timestamps: no property reads them.
* `get_options` and `get_release_id`: they only format the request.
* `Step.duration`: a read-only getter that no operation uses to decide
  anything.
* The coverage and ItemStat aggregation of `sync_job_step` (spec 4.4): it is
  not in the repository, and it only sums numbers that no control decision
  reads.
* The tests-only parts (mail, plan index, git).
* `update_build_result` and the other fanned-out tasks are not in the
  repository. The model only records that they were enqueued.

# Formal model of strut's run engine

TLA+ specifications of the part of strut that executes workflow runs: how runs
are paused, resumed and cancelled while they execute, how their event log
survives crashes, how a run is resumed from it, how a flow and a foreach pool
settle, and how turns on a conversation, wakes and automations start runs beside
each other. TLC checks the models on small instances; TLAPS proves the safety
properties of all of them for every instance, some under hypotheses that section 6
names. `PROJECT.json` lists components, runs, mutants, the map from
definitions to source lines, findings, hazards and theorems.

Paths below are relative to the directory of this repository's checkout that
holds `src/`: `src/src/run-control.ts` is the server's controller,
`src/specs/RUN_CONTROL_SPEC.md` its design document.

## 1. The system and its parts

strut is a server that executes workflows: DAGs of steps, written in YAML. A
run is one execution. Steps call models, run agents, run other workflows
(nested runs), loop, and edit the workspace. One Node process serves HTTP and
executes every run; JavaScript's event loop runs one callback at a time, so
what interleaves are the stretches between `await`s. State that outlives the
process is on disk: per run an append-only `events.jsonl` and a `run.json`
summary, plus sessions, jobs, schedules and `boot.json`.

| part | source | state | operations | what makes it correct |
|---|---|---|---|---|
| run control | `run-control.ts` | per run: own state, forced flag, unit counter, waiters, force listeners, children | cancel, force, pause, resume, checkpoint, beginUnit/endUnit, forUnit, raceForce, poke, detach | units balanced; no waiter sleeps for ever; no unit starts without consent; "paused" is true; a cancelled run ends |
| runner | `runner.ts` | branches of a DAG, step outputs, failures, journal | executeRun, executeFlow, executeStep, dispatchStep, foreach, loop | every branch ends; a step's output is logged before it is used; replay is consistent |
| error escapes | `escaped-errors.ts` | owner of each async context | guardEscapes | an escaped error fails the step that owns it, and no other |
| journal | `journal.ts` | none (pure) | buildJournal, executedWorkflowHash, changedSteps, invalidateSteps, invalidateFrom | what replays was made from what replays |
| run store | `store.ts` | `events.jsonl`, `run.json`, write queues | append, finalize, clearRunSummary, repairLog, logWrittenAt, tail, prune | no torn line is glued to; events in call order |
| run lifecycle | `createStrut.ts` | controllers map, `boot.json` | launchDetached, trackRun/untrack, findRun, controlLiveRun, prepareDurableResume, resumeRun, autoResumeStaleRuns, finalizeDeadRun, bootResumeRuns | every run that starts comes to an outcome that is told, once; a cancel sticks; no run is forgotten |
| nested runs | `authoring.ts` (`runWorkflow`) | parent link | launch, await, untrack | a nested run obeys its ancestors |
| agent step | `steps/core/agent.ts` | tool calls in flight | wrapToolsWithEmit, sub-agents | sub-agents share their step's unit |
| wakes | `wake.ts` | wake files, per-session queues, seen set | jobEnded, drain, turnEnded, kick, reconcile | every end wakes its conversation once, within a cap, and goes |
| drain | `drain.ts` | draining flag | begin, idle check | comes to idle; no new root while draining |
| jobs | `jobs.ts`, `job-*.ts` | holds, directories, index | acquire, release, archive | one run at a time holds a job |
| sessions | `session-store.ts` | the thread's files, who holds it | open, load, appendTurn, release, delete | an uncommitted tail is dropped; a turn continues the thread it read |
| scheduler | `scheduler.ts`, `automations*.ts` | entries with their next fire, fires under way | tick, Run now, edit, load | no occurrence twice, none passed over, no run beside a running one, no edit lost |
| live feed | `live-feed.ts` | bounded ring, cursor, epoch | publish, read | a reader misses nothing without being told |
| chat, conversations, rooms, channels, proposals, claims, workspace versions, peers, auth and secrets, models, graph, step library, apps, kit | see `PROJECT.json` | | | not modelled, or later |

How the parts interact: a route in `createStrut.ts` launches a run
(`launchDetached`), which registers a `RunController` (`trackRun`) and starts
`executeRun` without waiting for it. The runner calls `checkpoint()` before
every step, `beginUnit`/`endUnit` around its body, and appends events through
the store. Control routes look the run up (`findRun`), change the controller and
append a marker (`controlLiveRun`). A body may launch a nested run, whose
controller is a child of its parent's and whose effective state is the
strictest of its line of ancestors. When the process dies, the next one scans
the logs (`autoResumeStaleRuns`): finished runs are finalized, cancelled ones
ended, parked ones left, the rest resumed with a journal built from their log.

### What is hard

* A controller is changed while branches are between two `await`s: a branch may
  have passed its checkpoint and not begun its unit, have been woken and not
  looked again, have returned and not journaled.
* `beginUnit`/`endUnit` are called from the dispatcher and from the view given
  to bodies, under park, throw, force and abandonment.
* A forced cancel and an escaped error leave bodies running that nobody awaits.
* A crash may fall between any two appends, between `run.end` and the summary,
  between the scan and its record; and may tear the line being written.
* Control markers and `run.resumed` race into the log, whose newest one decides
  what the next boot does.
* A resumed log holds outputs of several attempts and versions of one step.
* The steps of a flow and the items of a foreach settle in any order, with a
  cancel in between, and one failure of several is the one reported.
* The end of a job turn becomes a wake through a file, a lock, a queue, a launch
  and a record, around turns of people, a drain and a crash.
* An automation is due while its last run goes on, while it is edited, or while
  the boot resumes its last run; what a fire may look at is written later.
* A turn appends its messages before the line that commits them, and may be let
  go of, deleted or killed at any point.

`PROJECT.json` lists each hazard at its line, with the properties that cover it.

## 2. The modules

| module | models | used by |
|---|---|---|
| `RunControl` | the tree of controllers, branches, units, bodies and nested runs | `MCRunControl`, `RunControl_proofs` |
| `RunConsent` | what run control promises, without tree, counters or wakeups | `RunControl` (refinement) |
| `RunControl_proofs` | theorems about `RunControl`: types, units, consent, "paused" | `RunWakeups_proofs` |
| `RunWakeups_proofs` | theorems about `RunControl`: wakeups, when no error escapes a body | |
| `MCRunControl` | small trees | runs `control_*` |
| `DurableRun` | one run's log across processes: executor, control requests, crashes, boot scan, resumes | `MCDurableRun` |
| `RunLife` | what a reader of a run's log and summary sees | `DurableRun` (refinement) |
| `DurableRun_proofs` | theorems about `DurableRun`, its refinement of `RunLife` among them | |
| `MCDurableRun` | small flows | runs `durable_*` |
| `Flow`, `MCFlow` | one level of a workflow: dependencies, gates, skips, retries, fallbacks, resume | runs `flow`, `flow_gates` |
| `Flow_proofs` | theorems about `Flow` | |
| `Foreach` | the pool of a foreach step | run `foreach`, `Foreach_proofs` |
| `Foreach_proofs` | theorems about `Foreach` | |
| `Wakes` | the wake file of one conversation, beside its turns, a drain and crashes | run `wakes`, `Wakes_proofs` |
| `Wakes_proofs` | theorems about `Wakes` | |
| `Scheduler`, `MCScheduler` | the automations of one workflow | run `scheduler` |
| `Scheduler_proofs` | theorems about `Scheduler` | |
| `AgentSessions`, `MCAgentSessions` | one session: its lock, its files, the steps that take it | run `sessions` |
| `AgentSessions_proofs` | theorems about `AgentSessions` | |

### RunControl

State and code: `own` is `RunController.own`, `forced` is `ownForced`, `busy` the
unit counter, `stage` whether the run is in the controllers map (`live`) or
untracked and detached (`gone`). `bpc` says where a branch of a flow
(`executeFlow`, `executeForeach`) is; `tpc` where an asynchronous thread inside
a step body is. A body has one thread, or several when an agent runs sub-agents
side by side; all of them use one `ctx.control` view and so one unit. `zombies`
are threads of bodies the runner no longer awaits.

Two things are derived in the code and in the model: `Effective` (the strictest
own state in `Line[r]`, over parent links, which stay) and `Reached` (what a walk
down the `children` sets visits, which `untrack` cuts). The difference between
the two is where an orphaned nested run comes from (section 5).

Each action is one synchronous stretch. The pcs `passed`, `woken`, `returned`,
`rejected` and a body's `passed`/`thrown` are promises that have settled whose
continuation is still queued, so other stretches may run first. In particular
`Boundary` (evaluate the checkpoint) and `BeginUnit` (its continuation) are two
actions: `await` always lets other queued work go first.

| action | code |
|---|---|
| `Launch`, `LaunchNested`, `NestedReturns`, `Untrack` | `trackRun`, `runWorkflow`, `untrack` |
| `Cancel`, `ForceCancel`, `Pause`, `Resume` | the methods of the controller, each with its `poke` |
| `Boundary` | `checkpoint()` before a step, first or re-evaluated |
| `BeginUnit`, `BodySettles`, `EndUnit` | `dispatchStep`: begin, race the body against a force, end in `finally` |
| `Escape` | `guardEscapes` rejecting a call whose body goes on |
| `Journaled` | the append of `step.end` |
| `Fork`, `Join` | an agent's tool calls run side by side |
| `Release`, `Recheck`, `Reacquire`, `Finish` | `forUnit(...).checkpoint()`: endUnit, park, beginUnit in `finally` |

### DurableRun

One root run over several process lifetimes. On disk: `log`, `torn` (the last line
is a fragment), `written` (which process wrote last; the code compares modification
times with `boot.json`), `summary`, `bootRec`. In memory: the controller's own state
`ctl`, the executor `exec` (its phase, journal, the state and output of each step),
`pending` (markers given to the store's queue), `ask` (a control request between
looking the run up and acting), `scan` (the boot scan), `prep` (the resumes by hand
that are prepared, each with the version and the journal it will run with).
`stopped` and `left` are history: a cancel of this attempt is on record, and why the
boot scan leaves the run be. Steps return any of `Values`: nothing in a workflow is
deterministic, so re-running a step may change its output, and `Output` records
which outputs it was made from. That is what `ReplayConsistent` compares.

| action | code |
|---|---|
| `Launch`, `Clear`, `OpenLog` | `launchDetached`, `clearRunSummary`, `run.start` / `run.resumed` |
| `Begin`, `Stop`, `Returns`, `Throws`, `FallbackReplays` | `executeStep` with replay, `onError`, cancel at the boundary |
| `FlowEnds`, `AppendEnd`, `Finalize`, `Untrack` | the end of `executeFlow` and `executeRun`, `finalize`, `untrack` |
| `Find`, `Act`, `Miss`, `MarkerLands` | `findRun`, `controlLiveRun`, its append |
| `Prepare`, `ByHand` | `prepareDurableResume`, `resumeRun` from its second look at the controllers |
| `Crash`, `Boot`, `Scan*` | a kill, `autoResumeStaleRuns`, `finalizeDeadRun`, `bootResumeRuns` |

A run's control markers come from people; the model bounds how many
(`MaxAsks`), how many resumes by hand (`MaxHttp`) and how many crashes
(`MaxCrashes`). `MaxResumes` is not a bound of the model but the crash-loop
guard's cap in the code. `Skips` names what else may keep the boot scan from
resuming a run it finds cut off: its log is too big to be read (`big`,
createStrut.ts:2392), its last event is past the age cap (`old`, 2422), the
resume is refused (`refused`, 2433), or there is no `boot.json` and the run is
not the newest root run of its workflow (`older`, 2473). The scan of a process
chooses among them freely, because the size, the clock and the stored workflow
are not in the model; `left` records the choice, so that the properties can tell
a run left for such a reason from one that was forgotten.

`Overlap` lets a resume by hand be asked for while another is being prepared:
`resumeRun` awaits files between its first look at the controllers and its second.
`Early` lets a person resume a run before the boot scan
is done, `Late` lets a control request act on a run that ended since it was
looked up. All three do happen in the code and each breaks a property (section 5),
so runs that check that property set it to FALSE.

### Flow

`at[s]` is how far `runStep` is with a step, `got[s]` how the promise its
dependents await settled, `did[s]` what its own execution came to, `journal` and
`rescues` the outputs of `step.end` events in the log (a step's own, and the one
its `onError` wrote). Graph and shapes are chosen by `Init`, so one run covers
all graphs. `SkipStep`, `Reach`, `RejectedDep` are what `runStep` does once its
dependencies settled; `Replay`, `Start`, `Return`, `Throw*`, `Rescue*`, `Cancel`
are `executeStep` and its retries and fallback; `Join` and `Report` are the
`allSettled` of `executeFlow` and the choice of the failure it rethrows;
`Restart` is a durable resume from the log.

### Foreach

`cursor` is the pool's shared cursor, `worker[w]` the index a worker holds and
whether it is before its body's boundary or in it, `failures` and `results` what
the iterations left, `fate` what a body will make of an item. `Pull`, `Begin`,
`Replay`, `Throws`, `Cancelled`, `Returns` are a worker's loop, `Join` and
`Report` the end of the step. One worker is the pool with `concurrency: 1`.

### Wakes

On disk: the wake file (`queued`, the wake turn in flight, `seen`), the
session's turn lines, each run's outcome. `lock` is who is inside the lock of
the wake file and what it will write, so that the write is a step of its own.
`seen` keeps the newest `SeenMax` ends, as `SEEN_MAX` says (wake.ts:478); `taken`
is the history of all ends that were taken on, in order.

| action | code |
|---|---|
| `HearEnd`, `Consider` | `jobEnded` before and inside the lock: seen, cap, queue |
| `DrainEnter`, `DrainWaits`, `DrainDrops`, `DrainGoes`, `DrainLaunches`, `DrainWrites` | `drain`: look, launch, and only then write what is in flight |
| `TurnEnded`, `Untrack`, `RetryFires` | `turnEnded`, `kick`, the retry timer |
| `LaunchPerson`, `OpenSession`, `CommitTurn`, `EndRun` | a turn on the session |
| `SetDrain`, `LiftDrain` | `drain.ts`, by hand or by its expiry |
| `Crash`, `Boot`, `Scan` | a kill; `bootResumeRuns`, then `reconcile` |

`slipped` and `excused` are history: a turn whose launch, or whose last word, a
crash cut from its record, and an end let through on turns read too early or beside
a person's turn in flight. The code cannot tell either apart; `ToldOnce` and
`CapKept` allow for exactly those and no more.

### Scheduler

Time is a clock of `Horizon` instants, a trigger a set of them. `entry` is the
scheduler's map, `tick` and `todo` the pass at work and the entries it has still to
visit as it took them, `fire` the launches under way (`firing`), `run` the run store
as far as `runFacts` reads it. A pass holds on to the objects it took, and an edit
may replace them meanwhile: `stale` marks a fire of a replaced entry. `set`, `since`
and `answer` are history: when each entry was scheduled in this process, up to when
its instants were taken, and what became of each instant that was taken (it is being
fired, it ran, or it was refused). `Load*`, `Tick*`, `RunNow`, `Fire*`, `Edit*`
(with `Create`, `Update`, `Remove`) follow `loadAll`, `tick`, `fireOne`, `runFacts`
and `save`, cut at their `await`s; `Run*` is what the runs do.

### AgentSessions

`system`, `messages`, `turns` are the three files of a session, each line
reduced to the attempt of a run it is of; `dir` says whether the directory
exists, `held` who holds the session. `pc` follows an agent step from
`sessions.open` through load, model call and `commit` to its `finally`, and
`appendTurn` is cut at each of its file operations. A crash may fall between any
two of them and may leave part of what an append wrote: some of the turn's
messages, a fragment of its turn line, or that line without its newline. `tail` is
how `turns.jsonl` ends. `turns()` parses every line, so once a fragment is in the
file, or a line was appended to one without its newline, every later load and
commit throws (`Readable`). A resumed run executes
its step again, as a new attempt (`try`). `ForceCancel` lets the session go
while the step's body goes on. `DeleteChecks` and `DeleteRemoves` are the two
halves of `DELETE /sessions`, with whatever comes between; `removed` remembers
the turns a deletion took, or took the thread from under.

## 3. What each run checks

| run | instance | properties |
|---|---|---|
| `control_line` | root, nested, nested in nested; 1 branch, 1 thread each | `TypeOK`, `BusyBalance`, `NoLostWakeup`, `HeldByLiveRun`, `PausedIsIdle`, `ImplementsConsent`, `CancelEnds` |
| `control_team` | 1 run, 2 branches; a body with 3 threads, and one whose errors escape it | `BusyBalance`, `PauseSettles` |
| `control_force` | root with 2 branches and a nested run; bodies may hang for ever | `ForceEnds` |
| `durable_crash` | a forks to b (with a fallback) and c; 2 crashes, 1 resume by hand, a cap of 2 resumes, every reason to skip | `TypeOK`, `ReplayConsistent`, `RunningReadsLive`, `NeverGlued`, `NoRework` |
| `durable_control` | 1 step; 2 pause, resume or cancel requests, 2 crashes, 2 resumes by hand that may overlap, a cap of 1 resume, every reason to skip | `NotForgotten`, `CancelSticks`, `Settles`, `ImplementsLife` |
| `durable_version` | a then b (with a fallback); 2 versions, resume from a step, before or after the scan | `ReplayConsistent` |
| `flow` | every DAG on 3 steps in array order and 2 out of it; gates, or a retry with a fallback; 1 restart, 1 control call | `TypeOK`, `AsReference`, `ReportsTheCause`, `EndedIsNotSkipped`, `QuietAfterReport` |
| `foreach` | 4 items, 3 workers, 1 restart, 2 control calls | `TypeOK`, `OnePlace`, `AsSequential`, `CancelWins`, `ComesOut` |
| `wakes` | 2 ends of which 1 is remembered, 3 runs, a cap of 1 wake, 1 crash, 1 of the bounded things around | `NoEndLost`, `ToldOnce`, `CapKept`, `QueuedGoes` |
| `scheduler` | 2 automations, due at both of 2 instants and at the second, 3 runs, 2 edits, calls or crashes | `NoOverlap`, `FiredOnce`, `NoneSwallowed`, `EditsStand` |
| `sessions` | 3 runs, 2 messages a turn, 2 crashes or deletions | `ThreadWhole`, `TurnsContinue` |
| `flow_gates` (violation) | 2 graphs on 3 steps, gates and fallbacks, 1 restart | `GatesReconstructed` (section 5) |

* `BusyBalance`: the counter of every run is the units held less those handed
  back at a checkpoint inside a body. Everything the code says with "paused"
  and "quiesced" rests on it.
* `NoLostWakeup`: whoever is parked without a poke on its way belongs to a run
  that is effectively paused now. `HeldByLiveRun`: one of the runs holding it is
  registered, so somebody can be asked to resume it.
* `PausedIsIdle`: a run that reads "paused" has nobody at work below it, so long
  as no body has several threads and none was abandoned (those cases are in
  section 5 and in `PausedMeansParked`).
* `ImplementsConsent`: refinement of `RunConsent`; a branch gets through its
  boundary only while nothing in its line is paused or cancelled, runs one unit
  per consent, a cancel is never undone, and a run is over only without
  consents.
* `CancelEnds`, `ForceEnds`, `PauseSettles`: liveness, section 4.
* `ReplayConsistent`: the outputs in scope of a running attempt come from the
  version that runs and were made from the very outputs of their dependencies
  that are in scope.
* `NeverGlued`: no append lands on a fragment. `NoRework`: a step with an output
  in the log is not executed again by a plain resume.
* `CancelSticks`: once a cancel of an attempt is in the log behind the event that
  opened the attempt, no boot starts the run again, however often the process
  dies, until a person unpauses or resumes it. (Section 5, "Markers before
  `run.resumed`" and "Cancel and resume", are what this leaves out.)
* `NotForgotten`: after its scan a process has left no run without an outcome but
  one a person parked, one at the crash-loop cap, or one it left for one of five
  reasons: it was not the newest at a first boot, too big, too old, refused, or
  killed before its resume wrote a line ("Unwritten resumes" of section 5). Which
  reason is recorded when it is found, so a run that a wrong comparison with the
  record or a wrong reading of its log leaves behind is not accounted for.
* `RunningReadsLive`: a running run has no summary of an earlier attempt.
* `ImplementsLife`: refinement of `RunLife`; a summary tells the outcome the log
  came to, and the outcome changes only by opening the run again after the
  summary was taken back.
* `Settles`: every run that starts comes to an outcome that is told, or stays
  parked by a person, stopped by the cap, or left for one of those reasons.
* `AsReference`: whatever order the steps settled in, each ran, was skipped or
  failed as in `Reference`, the flow evaluated one step at a time along its
  dependencies. `ReportsTheCause`: the error reported is of a step that itself
  failed, the first in array order, and a cancel does not mask it.
  `EndedIsNotSkipped`: a resume does not skip a step that has ended, when no
  step was rescued. `QuietAfterReport`: nothing happens behind the report.
* `OnePlace`: every index pulled is with one worker or settled one way.
  `AsSequential`: the pool reports what a sequential loop over the same bodies
  would. `CancelWins`: never an error once an iteration was cancelled.
  `ComesOut`: unless it stays paused the pool comes to an outcome.
* `NoEndLost`: an end strut took on is queued or in flight, on disk, until a turn
  that carried it ended. `ToldOnce`: one turn carries it, however often it is heard,
  unless it was forgotten: `SeenMax` others were taken on before it was heard again.
  `CapKept`: strut answers itself at most `WakeMax` times in a row. `QueuedGoes`:
  what is queued goes, whatever held it back, as long as the model has runs left to
  launch.
* `NoOverlap`: one automation never has two runs going. `FiredOnce`: no instant
  is fired twice, or by a process born after it. `NoneSwallowed`: every instant
  of an entry that came since this process scheduled it is still due, in the fire at
  work, in a run launched at it or at an earlier instant it waited behind, or
  was turned down by a fire of its own pass (another launch or run of the
  automation is going, or nothing may be launched). What a crash takes with it is not
  promised: scheduler.ts:285 says so. `EditsStand`: racing edits are all kept, and the
  entries are the enabled automations of the saved list.
* `ThreadWhole`: while the turn lines can be read, each covers the messages of its
  own turn, all of them and no other's, and the system prompt is the first turn's,
  whatever a crash left of the messages. `TurnsContinue`: no turn came between
  another's load and its commit; a journaled step has its turn in the thread; no
  attempt commits twice. Both say nothing of turns a deletion came under.

The modules `Wakes`, `Scheduler` and `AgentSessions` each define a `TypeOK` that
holds on the same instances and is not in their configurations; all three are
proved (section 6).

Each property has a mutant: a definition of the model replaced by a form with a
plausible bug, under which TLC finds the property violated. The mutated forms
stand next to the originals (comments "Mutant: ...").

### Bounds, and why they are enough

The control runs have no bound at all: their state is finite, so every
interleaving of any number of calls is explored, on trees of up to three
generations. Three generations are the least in which a run has both an ancestor
that is not its parent and a descendant that is not its child, which poke,
force and the effective state treat alike only by walking; two branches are the
least in which one parks while another works; three threads in a body the least
in which two sub-agents park beside a parent that waits.

In the durable runs one crash reaches every point of an attempt and of the
resume after it, two crashes every point of the boot scan and of a second
resume; two steps in a row are what a stale output needs, the fork what a
partial set of outputs needs. Two values are enough to tell two outputs of one
step apart. `durable_control` asks about requests, markers, scans and outcomes,
which no step's output enters, so one step that may succeed, fail or be stopped
is enough; two requests are the least that can be in the wrong order, two resumes by
hand the least that overlap, and a cap of one is reached at the second crash.

Three steps of a flow make every shape of a join, a fork and a chain, and let two
failures race to a third step; the run takes all graphs on them. Four items and
three workers are the least in which a failure finds two others in flight and one
not yet pulled. Two ends are the least that share a wake turn, that the cap must
keep apart, or of which one is forgotten, three runs the least for a person's turn
beside two wakes. Two automations make a pass that is still at work on one while the
other is edited; two instants, one that comes while the first is being fired. Three
runs on a session let one hold it, one be refused and one follow; two messages make
a partial append; two crashes reach the repair of what the first left, or a deletion
in the middle of one. Runs of a session are interchangeable, so its configuration
uses symmetry; all its properties are invariants.

Deadlock is not checked: in each module the system may really stop, when all
runs are over and the bounds are used up, and nobody asks for anything.

## 4. Fairness

* The event loop runs every continuation that is queued and every append the
  runner awaits settles: weak fairness of each action of a branch and of the
  queued steps of a thread (`RunnerFairness`), of `Executor`, `Scan`,
  `MarkerLands` and of requests that were let in (`DurableRun!FairSpec`).
* A body comes to its next checkpoint or returns: strong fairness of `Release(t) \/
  Finish(t)` (`BodyFairness`), because other steps of the same body may come
  between. This is an assumption about step bodies, needed by `CancelEnds` and
  `PauseSettles` and by `Settles` (`WF_vars(Bodies)`). `ForceEnds` is checked
  without it (`HangingSpec`): that is what force is for.
* In `Foreach` every worker that is not parked is served, and the join runs
  (`WF` of each worker and of `Join`).
* In `Wakes` runs go on, holders let go, a drain is lifted or expires, the retry
  timer fires, a dead process is started again (weak fairness). What waits for
  the lock of the wake file is strongly fair, because `withLock` serves in order
  while others come and go; this is what `QueuedGoes` needs.
* `Flow`, `Scheduler` and `AgentSessions` are checked for safety only.
* `WF_vars(Boot)`: someone starts the server again. No fairness is assumed of
  people: nobody has to pause, resume, cancel or launch anything, and a paused
  run may stay paused for ever.

In `control_force` no body is left behind by an escape. Threads are finitely
many in the model, so hanging abandoned bodies could use them all up and leave
none for the next body; the code has no such limit.

## 5. Where the code and its documentation differ

`flow_gates` (`GatesReconstructed`) is a run kept for one of them.
RUN_CONTROL_SPEC.md:243 says that skips and gates are reconstructed on a resume
because they only consume step outputs. The output of an `onError` fallback is
journaled under its own path (runner.ts:996), so a resume executes the primary
of a gate again; it may decide the other way, and steps that ended before are
skipped. `EndedIsNotSkipped`, in `flow`, shows that this is the only way.

The others were met while modelling and can be reproduced by changing constants,
or the property, in the configurations kept here.

Run control and durable runs:

* Sub-agents: `PausedMeansParked` on the instance of `control_team`. Sub-agents
  side by side in one step body share its single unit, and each `checkpoint()`
  of the shared view hands it back; the run reads "paused" while one works.
* Stale outputs: `durable_version` with `MaxCrashes = 1` violates
  `ReplayConsistent`. A resume onto a new version that is cut off before the
  changed steps ran again leaves their old outputs in the log under a
  `run.resumed` that names the new version; the next resume replays them.
* Fallbacks: `durable_crash` with `Fallible = {a}` violates `ReplayConsistent`.
  The primary runs again on a resume while consumers of the fallback's output
  replay.
* Cancel and resume: a resume request on a cancelling run appends `run.resumed`,
  which hides the cancel from the next boot, though the controller stays cancelling
  (RUN_CONTROL_SPEC.md:307-309 says that a run that dies cancelling is finalized as
  cancelled). `CancelSticks` is about cancels nobody unpaused: without the case for
  `live` in `MarkerLands`, where `stopped` becomes FALSE, `durable_control` violates it.
* Unwritten resumes: createStrut.ts:8032-8035 says that a process that dies before
  its scan leaves the record as it was, so that the next boot looks at the same
  runs. But a process records its start before the resumes it launched wrote
  anything; if it dies then, later boots pass the run over. This is the reason
  `unwritten` of `NotForgotten`: with `left' = left` in `Crash`, `durable_control`
  violates it.
* Other runs a boot leaves (createStrut.ts:2357-2366 names two of them): those whose
  log is too big, which are not even finalized when their log has ended; those past
  the age cap; those whose resume is refused; at a boot without `boot.json`, all but
  the newest root run of each workflow, which later boots pass over too; and those
  whose files cannot be read (2468). Without `left # "none"` in `Accounted`,
  `durable_control` violates `NotForgotten`.
* Overlapping resumes: createStrut.ts:2630-2631 says that two concurrent resume
  requests must not both launch onto the same log. The look at the controllers that
  follows only refuses while the other is live: of two prepared resumes, the second may
  be launched after the first ran and ended, with the journal it was prepared with.
  `durable_crash` with `Overlap = TRUE` and `MaxHttp = 2` violates `NoRework`; with
  `MaxCrashes = 1` and `MaxResumes = 3` as well it violates `ReplayConsistent`.
* Orphans: `control_line` with `Escaping = {c1}` violates `NoLostWakeup`. A run
  whose step failed by an escaped error is untracked while a nested run its body
  launched is live; `detach` cuts the path `poke` walks but not the parent links
  the effective state is read over, so the grandparent's pause still parks the
  nested run and its resume does not wake it.
* Late markers: `durable_control` with `Late = TRUE` violates `ImplementsLife`:
  `findRun` reads the log once; a run that ends
  between that and the append gets `run.cancelling` after its end, and if the
  process dies before the summary, the boot finalizes a finished run as
  cancelled.
* Early resumes: `durable_crash` with `Early = TRUE` violates
  `RunningReadsLive`: the scan does not look at the controllers again between
  reading a log and writing its summary. It also violates
  `NoRework`: the scan launches with the journal it read before the person's
  resume ran and ended, and repeats the steps that resume had finished.
  `durable_control` with `Early = TRUE` violates `CancelSticks`: the
  scan launches on the log it read before that resume was cancelled.
* Markers before `run.resumed`: a resumed run is live, and can be cancelled, from
  its registration on, but appends `run.resumed` several awaits later. A cancel in
  between lands in front of it, and after a crash the boot reads `run.resumed` as the
  last word and resumes the cancelled run. `CancelSticks` is about cancels behind the
  opening of their attempt: with `TRUE` for `stopped \/ ~Reopening` in `MarkerLands` and
  `MaxResumes = 2`, `durable_control` violates it.
* Resume from a step: `durable_version` with `MaxHttp = 2` violates
  `ReplayConsistent`: what `from` dropped is not recorded, so after the step ran
  again and failed below, the next plain resume mixes old and new outputs.
* The window between a checkpoint and its unit: run-control.ts:182-184 calls
  them adjacent. `await` separates them, so a pause in between reads "paused"
  and the branch then begins its unit (a branch in `passed` with
  `State = "paused"`).
* The unit ends before `step.end` is appended (a branch in `journaling` holds no
  unit), so a restart at "paused" may repeat a finished step.
* A body that waits for a nested run holds its unit, so a paused tree of which
  every branch is parked keeps reading "pausing" (RUN_CONTROL_SPEC.md:194-195
  says it reads "paused").
* A resume by hand that dies before `run.resumed` has dropped the summary of a
  run an earlier process ended, and no boot writes it again (createStrut.ts:5396-5397
  says that boot does); it is among the runs left `unwritten`.

Pools, wakes, automations and sessions:

* `NoneStartsAfterFailure` on `foreach`: runner.ts:1344 says that no new
  iterations start after the first failure. Workers that had pulled an index
  before it and wait at its boundary do begin.
* `Capped` on `wakes`, even without crashes: wake.ts:22 promises at most `max`
  wake turns since the person's last turn, by the session's turn lines. Those are
  read before the lock is taken (wake.ts:448): an end that read them before a wake
  turn committed, and gets the lock after that turn was recorded over, counts it
  neither as a line nor as in flight. (A person's turn in flight that fails before
  its line also lets one through.)
* A lost kick: `wakes` with `SlowWrite = TRUE` violates `QueuedGoes`. After a boot a
  drain that finds the session busy writes the file before the session counts as
  pending (wake.ts:398); a person's run that ends during that write kicks nothing.
* An end heard again: wake.ts:55 says that ends are remembered so that one heard
  twice wakes once; the newest `SEEN_MAX` (500) are. One that is heard again after that
  many others is taken on and told again: `wakes`, where `SeenMax` is 1, violates
  `ToldOnce` once `Forgotten` is not taken out of it.
* An end heard before the boot scan: `wakes` with `Early = TRUE` violates
  `ToldOnce` and `CapKept`. A drain of the queue may take a wake turn that is about to be
  resumed for a dead one and tell its ends again (createStrut.ts:8045).
* Once: `FiredOnceEver` on `scheduler`. scheduler.ts:282 and scheduler.test.ts:194
  say that a tick fires what is due once; an edit made while a pass waits
  replaces the entry the pass will still visit, and the instant is fired from
  both.
* Instants before a boot: scheduler.ts:285 says that a crash between the advance and
  the launch loses one run; the next process schedules from its own start, so every
  instant the last one had not launched is gone. `NoneSwallowed` begins with each process.
* Fires beside the boot: `scheduler` with `SlowBoot = TRUE` violates `NoOverlap`:
  the first tick does not wait for the boot's resumes (createStrut.ts:6260 and
  8037).
* Edits beside the first load: `scheduler` with `Early = TRUE` violates
  `NoneSwallowed` and `EditsStand`: the load writes the entries of a list it
  read before the edit (scheduler.ts:155-157).
* The scan of a fire looks at the newest `SCAN_LIMIT` runs of the workflow
  (scheduler.ts:237): with `ScanLimit = 1` a run of one automation hides the one
  of another and `NoOverlap` is violated. The code's limit is a hundred.
* A commit let go of: `sessions` with `LetsGo = TRUE` violates both properties. A
  turn whose run let go must not write into a thread the next turn holds
  (session-store.ts:432-434); that is checked when the commit begins, and a
  force-cancel during its file operations lets the next turn open beside it.
* Torn turn lines: plans/agent-sessions.md:323 says that a step cut off by a crash
  re-executes from the thread as it was. A crash that leaves a fragment of the turn
  line (session-store.ts:306) makes `turns()` throw at every later load and commit
  (277), and nothing mends the file; one that leaves the line without its newline
  does the same once the next turn was appended to it. `ThreadWhole` is about
  threads that can be read: without `Readable`, what it says of the lines still
  holds, but `load` gives none of them.
* Torn rewrites: `sessions` with `Tear = TRUE` violates `ThreadWhole`. Dropping
  what a crash left rewrites messages.jsonl in place (session-store.ts:304); a
  crash between truncation and write loses committed messages.
* `DeleteSpares` on `sessions`: createStrut.ts:4394-4396 refuses to delete a
  session in use, but the removal is awaited after the look, and a turn may open
  it in between.

## 6. What is proved

`RunControl_proofs`, for every tree of runs that satisfies `TreeAssumption` and
any finite sets of branches and threads (`OwnerAssumption`), escaping errors
included:

* `TypeCorrect`: `Spec => []TypeOK`.
* `UnitsBalanced`: `Spec => []BusyBalance`. The invariant is inductive together
  with `TypeOK` and `StageInv` (a run not launched has only idle branches, one
  that is gone only branches that are out): without the latter a launch could
  move a branch that holds a unit. Four lemmas say how the counter follows one
  branch that begins or ends a unit and one thread that hands its unit back or
  takes it again; every other action falls under a fifth, `SameUnits`.
* `ConsentGiven`: `Spec => ImplementsConsent`. Every step of `RunControl` is a
  step of `RunConsent` or leaves its variables alone: control calls are `Ask`
  (a cancel in a line of runs stays there), `Boundary` is `Consent` or a
  stutter, `EndUnit` is `UsedUp`, `Untrack` is `Over`.

`TreeAssumption` says that `Parent` and `Line` describe a forest;
`OwnerAssumption` that branches and threads have owners and are finitely many.
TLC evaluates both in every `control_*` run.

* `PausedMeansIdle`: `Spec => []PausedIsIdle`. `BodyInv` (a body the runner waits
  for has its branch in its unit) gives every thread at work a held unit. In a
  plain run each thread that handed its unit back has a branch of its own,
  which holds one too, and none of them is the worker's: `PlainCounts` maps the
  former into the latter one to one and counts, so the counter is above zero.

`RunWakeups_proofs`, under the hypothesis `Escaping = {}` (section 5, "Orphans",
shows that it is needed):

* `WakeupsKept`: `Spec => []NoLostWakeup`. The effective state is read over
  parent links, a poke walks the children sets; the proof is that the two agree
  wherever somebody may be parked. `LineLive` says that a live run that is not
  cancelled has only live ancestors. It is kept because the body that launched a
  nested run waits for it (`WaitedFor`) and a run does not end under a body it
  waits for (`BodyInv`); bodies the runner left behind do not count, and they
  exist only in cancelled runs (`ZombieInv`, from `ForcedInv`: what is forced is
  cancelled). So a call that changes the effective state of a parked checkpoint
  reaches it (`PokeReaches`), and whoever parks by itself looks at the state in
  the same step.
* `HeldByLive`: `Spec => []HeldByLiveRun`, from the same invariant.

`Foreach_proofs`, for any number of items and any finite, non-empty set of
workers:

* `ForeachTypeCorrect`: `Spec => []TypeOK`. `EachInOnePlace`: `Spec =>
  []OnePlace`; both by induction on the steps, since a pull takes the one index
  at the cursor.
* `SameAsSequential`: `Spec => []AsSequential`. The inductive invariant says that
  what an iteration left is what its body made of it (`Honest`), that a worker
  leaves only at the end of the items or behind a failure or a cancel
  (`Reasoned`), and that a report was made of settled indices only (`Reported`).
  When all workers have left, `OnePlace` leaves no index below the cursor out,
  so the lowest failed index is the lowest there is.
* `CancellationWins`: `Spec => CancelWins`.

`AgentSessions_proofs`, for any runs, any number of messages in a turn and any
number of crashes and deletions:

* `SessionTypeCorrect`: `Spec => []TypeOK`, with `TryInv` (attempts are bounded
  by crashes).
* `ThreadsWhole` and `TurnsFollow`: `Spec => []ThreadWhole` and `Spec =>
  []TurnsContinue` under `Untorn`, which is `LetsGo = FALSE` and `Tear = FALSE`
  (section 5 shows that both are needed). `ThreadsWhole` speaks of lines that can be
  read, and crashes that tear a turn line are among the steps. `LockInv`: who
  commits holds the session. `FreshInv`: what the holder read is what is there, or a
  deletion came and nothing is. `HistInv`: an attempt is begun after all that was
  committed or deleted of its run, so it cannot be in the thread yet. `CleanInv`: a
  deletion that came under a turn leaves it first in the thread, or not in it. With
  these `WholeInv` (the lines cover what they say, and end where the last turn does)
  and `AppendInv` (how far an append is with the files) are kept by each file
  operation.

`DurableRun_proofs`, for any steps, dependencies, versions and requests, and any
number of crashes, boots and resumes:

* `DurableTypeCorrect`: `Spec => []TypeOK`, by induction together with `DoneInv`
  (a step is done when it has an output, and only after its dependencies).
* `NothingIsGlued`: `Spec => NeverGlued`, without a hypothesis. `TornInv`: while the
  log ends in a fragment nothing of this process has decided to append yet, and
  the first append of a process mends it.
* `RunsReadLive`: `Spec => []RunningReadsLive` when no resume precedes the boot scan
  (`~Early`; section 5, "Early resumes", shows that it is needed). `AloneInv`: the
  scan decides about a run only while no attempt runs and no resume is prepared, and a
  resume is prepared only once the scan is over.
* `NothingIsReworked`: `Spec => NoRework` under `Plain`: besides `~Early`, one version
  and no resume from a chosen step, since such a resume is meant to do work again,
  and one resume prepared at a time (`~Overlap`; section 5, "Overlapping resumes",
  shows that it is needed). `JournalInv`: what is to be replayed
  is what the log holds, and stays so for a step until it is done.
* `ReplayFits`: `Spec => []ReplayConsistent` under `Plain` and `Firm` (no step that
  others consume falls back); the entries "Stale outputs", "Resume from a step"
  and "Fallbacks" of section 5 show that each is needed. `MadeInv`: every output
  on record was made from those on record of its dependencies.
* `LivesAsRunLife`: `Spec => ImplementsLife` under `InTurn`: `~Early`, and no marker
  that lands behind an end ("Late markers"). `MarkerInv` says that a marker on its
  way holds the end back, `OutcomeInv` that the log's outcome is the one about to
  be written. `RunLife`'s variables are `LifeOf(log)` and `summary`, and each action
  is mapped in `StepLives`: `OpenLog` to `Open`, `AppendEnd` to `Come`, `Clear` to
  `Retract` (the summary taken back), the two `Finalize`s to `Tell`, all else to a
  stutter.
* `NoneIsForgotten`: `Spec => []NotForgotten`, without a hypothesis: any number of
  crashes, overlapping resumes, resumes before the scan and late markers
  included. `BootInv`: the log was written by one of the processes and the record
  of a scan is older than the process that scans; what an earlier one cut off was
  accounted for by then, or is `unwritten`. `ToldInv`: a started run that is not live
  is accounted for, in the hands of the scan, or was written to since the boot on
  record and waits for a scan.
* `CancelledStaysSo`: `Spec => CancelSticks` when no resume precedes the boot scan
  (`~Early`; section 5, "Early resumes", shows that it is needed), for any requests,
  late markers, overlapping resumes and number of crashes. `StopInv`: a
  cancel on record is the last control in the log, or a pause is, its attempt has
  opened the log, and the scan has not decided to launch another.

`Flow_proofs`, for any number of steps, any acyclic graphs, gates, retries and
fallbacks and any number of restarts, without a hypothesis:

* `FlowTypeCorrect`: `Spec => []TypeOK`. `CauseReported`: `Spec => []ReportsTheCause`.
  `ReportIsLast`: `Spec => QuietAfterReport`. The inductive invariant `IInv` says why
  every step is where it is from how its dependencies settled (`LocalInv`), that
  the list of rejections is the steps that rejected (`RejectedInv`), and that the
  flow reports when all have settled (`JoinInv`).
* `EndedStays`: `Spec => []EndedIsNotSkipped`. `PastInv`: as long as nothing was
  rescued there is one set of skipped steps that every attempt so far agrees
  with, because a gate reads nothing but outputs that are journaled.
* `SameAsReference`: `Spec => []AsReference`. `Reference` is a recursive function
  over the graph; it is well defined because the graph is acyclic (each step has a
  rank), and agreement with it follows by the least step, in that order, that
  would not agree.

`Scheduler_proofs`, for any automations, triggers, horizon, and number of runs,
edits and crashes:

* `SchedulerTypeCorrect`: `Spec => []TypeOK`.
* `FiresOnce`: `Spec => []FiredOnce`, without a hypothesis. `OnceInv`: an entry is
  due after the instant since which it owes, and what was fired for lies before it.
* `OneRunAtATime`: `Spec => []NoOverlap` under `Bounded`: no fire before the boot's
  resumes are done, and no more runs of the workflow than `SCAN_LIMIT` (section 5,
  "Fires beside the boot" and the entry on the scan, show that both are needed).
  `LookInv`: what a fire has looked at stays so until it launches, for only one
  fire of an automation is under way; `ActiveInv`: the run that goes is the newest.
* `NoInstantSwallowed` and `EditsAreKept`: `Spec => []NoneSwallowed` and `Spec =>
  []EditsStand` when no edit precedes the first load (`~Early`; "Edits beside the
  first load"). `AnswerInv`: every instant of an entry up to the one its pass took
  last has an answer, a fire at work is due at or before the instants it answers
  for, and so is the run of one that ran; `OwesInv`: an entry is due at the first
  instant after those, so none falls between. `SerialInv`: one edit is at work at
  most, and holds the list that is saved.

`Wakes_proofs`, for any ends, any runs, any cap, any holders of the session and any
number of crashes and drains:

* `WakesTypeCorrect`: `Spec => []TypeOK`.
* `EndsAreKept`: `Spec => []NoEndLost`, without a hypothesis: ends may be heard
  before the scan and runs may end while the file is written. `CoverInv` asks of
  what a drain is about to write (`lock.f`) the same as of the file: every end seen
  and not lost is queued in it, carried by its turn, or was carried to an end.
  `RunInv` gives a turn without a summary no way to count as done.
* `EndsAreToldOnce`: `Spec => []ToldOnce` when nothing is heard before the boot scan
  (`~Early`; section 5 shows that it is needed for this and the next). `TellInv`: a
  turn that has told of an end, or may yet, is the only one, and the end is neither
  queued nor with another turn, in the file and in what is about to replace it.
  It rests on `ScanInv` (whoever is in the lock found the turn on file over for
  good), `LineInv` (a turn with a line is at work or ended well, unless it slipped)
  and `SeenInv` (what is queued or carried was taken on, and the newest `SeenMax` of
  that are in `seen`, so an end is taken on again only when it was forgotten).
* `WakesAreCapped`: `Spec => []CapKept`. `CountInv` bounds the wake turns in a row
  together with those that may still join them: the turn in flight that has no line
  yet, and one for all that is queued. Each action moves weight between the three;
  only an end that is taken on while nothing is queued adds any, and it is capped,
  below the cap, or excused. `TurnInv`, that a wake turn that goes is on file or
  about to be, ties a line that is written to the weight it had; a crash that cuts
  off the turn on file takes its line out of the count before its ends count again.

Only model-checked: all liveness (`CancelEnds`, `ForceEnds`, `PauseSettles`, `Settles`,
`ComesOut`, `QueuedGoes`), since fairness and ENABLED are outside of what the prover
handles.

## 7. What is left out

* Retries' delays; the sequential loop with its `until`; subflows, which run as
  flows of their own under a path; a flow's steps below a foreach. In
  `RunControl` a branch that fails may go on past a boundary, which covers
  retries; in `DurableRun` a step fails once or falls back.
* A nested run launched by an abandoned body whose own run is already untracked
  gets no parent and is a new root; `RunControl` does not launch it.
* Input that fails validation (a run without `run.start`), and appends or
  summaries that fail: `finalize` throwing after `run.end` makes the runner
  append `run.error` behind it (runner.ts:586). Reads that fail in the boot scan
  (createStrut.ts:2468), and the slack it allows for coarse modification times.
* The contents of events, messages, prompts, step inputs and outputs, templates
  and expressions.
* Of the drain, its file and its idle report. Of the scheduler, the arithmetic
  of triggers, previews, views, and the removal of a whole workflow. Of
  sessions, the listing reads, compaction and `MemorySessionStore`; a load is
  one step (its holder is the only writer but for a deletion, which may make it
  fail), and so is the recursive removal of a directory.
* Wakes of several conversations: files, locks and queues are per session, and
  the model has one. Queued and carried ends are sets: an end that was forgotten and
  is heard again while it still waits is there once.
* The components of `PROJECT.json` with status `not_modelled`, each with its
  reason. They are most of the repository's lines: user interfaces, clients of
  models, graph and browser, step bodies, routes and views, which keep no state
  of their own between two calls, or keep it elsewhere.

## 8. Plan

1. Proofs: what a module added below promises, with the module.
2. `LogTail` (store.ts): writer, tail offset, half lines, a log that ends and is
   reopened; every reader sees a prefix in order, and ends.
3. `LiveFeed` (live-feed.ts): the bounded ring, cursors and epochs.
4. A store that may refuse an append or a summary, for `DurableRun`.
5. `JobHold` (jobs.ts) on `RunControl`'s tree: one holder, shared by its nested
   runs, released once.
6. The journal's algorithms on nested paths (journal.ts) as functions, against a
   reference definition; the sequential loop.
7. The builder chat's detached turns and their boot reconcile.

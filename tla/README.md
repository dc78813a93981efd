# TLA+ models of task-pipeline

task-pipeline runs coding tasks through agents: a tracker approves a task, a
session executes it phase by phase with a verifier's judgement between phases,
ships it as a commit or a pull request, follows the review, and retires it
after the merge. The orchestrators are several sessions (people with an agent,
and a resident Driver) that share one directory, `.task-pipeline/`; the only
thing that changes `state.json` in it is a state CLI written in TypeScript
(`src/task-pipeline/scripts/`). These modules model that CLI and the Driver.

## 1. The system

| component (scripts/) | state | operations | talks to |
|---|---|---|---|
| item state machine (`state-transitions-v2*.ts`, `state-model-v2.ts`) | one record per task: progress P, run, artifact A, follow, session, worktree | about 30 verbs, one `apply*` function each | pure; called by the verbs |
| verbs (`state-verbs-queue.ts`, `state-verbs-ledger.ts`) | none | lock, read, apply, assert, write | lock, machine, ledgers |
| state directory (`state-io.ts`, `state-store.ts`) | `state.json`, directory `lock` | mkdir lock, stale recovery, tmp + rename, release | every session's process |
| ledgers (`state-ledger-v2.ts`) | relisted, withdrawn_branches, cleanup_outbox, candidates, promoted, stalled, history, controller_lease | add, drop, set, resolve | machine (restore spends relisted, retire and withdraw fill the outbox) |
| sessions | one heartbeat file per session | session-touch, sessions-alive | next (who is alive), no lock |
| `next` (`state-next.ts`) | none | derives the due action of each task | reads everything, called by orchestrators |
| Driver (`pipeline-driver.ts`) | lease, epoch, heartbeat | next, one operation, next, ... | state CLI, agents |
| cleanup sweep | `paseo-workspace.json` per run | archive workspaces, cleanup-resolve | outbox, takeover writes the same file |
| verdicts (`state-verdict-path.ts`, `dual-verifier.ts`) | verdict files per round, slot manifest | verdict-path, slots, record-slot, synthesize | advance, phase-fail |
| shell check and policy (`shell-check*.ts`, `task-policy.ts`) | logs and a verdict file | audit mode, checks, scope guard | verdicts |
| watchers (`watch-pr.sh`, `watch-agent.sh`) | a process | poll, exit with a code | probe-run, probe-exit, observe |
| schema, migration, dispatch, provider table, ALPS | none | checks and conversions | - |

What is hard in it: several processes write one file through a lock that has to
survive the death of its holder (`StateLock`); an item is a product of two
coordinates and about 30 verbs may come in any order, from callers whose view
is old (`TaskQueue`); asks, counters and ownership must be carried or dropped
exactly by the verbs that close an engagement; automatic answering of reviews
must be bounded and hand over to a human cleanly; a Driver may be evicted
between reading `next` and acting; external effects (workspaces, verdict files,
heartbeats) are not under the lock; what a session does it decides on an answer
of `next` that may be old (`Scheduling`), and what it passes on a judgement that
may be (`VerdictGate`). `PROJECT.json` lists these hazards at their lines, with
the properties that cover them or the reason why none does.

What makes each component correct:

- machine: no sequence of verbs leaves the declared nodes; comments of a review
  are neither lost nor answered twice; ownership and hand-over; the gate;
- lock: exclusion, no lost update, no permanent shut-out;
- ledgers: one consent, one return; one cleanup intent, finally settled;
- sessions, next, Driver: at most one actor works on a task, a dead one is
  replaced, a busy slot is freed; sweep: drops
  an intent only when everything recorded is archived;
- verdicts: a judgement counts for the round it judged and only once, as far as
  the code can tell rounds apart.

## 2. The modules

| module | models | kind |
|---|---|---|
| `Phases` | the nodes a run can stand at and the edges between them | operators |
| `TaskLifecycle` | what trackers, reports and other sessions rely on: status, owner, consent | abstract specification |
| `TaskQueue` | the item state machine and the ledgers it touches, one action per verb | detailed specification |
| `MCTaskQueue` | instance of it for TLC | MC |
| `TaskQueueHistory` | `TaskQueue` with two history variables (judgements owed, fix runs since a human) | composition for checking |
| `TaskQueueProofs` | theorems of `TaskQueue`: the invariants | proofs |
| `TaskQueueStepProofs` | theorems of `TaskQueue` and `TaskQueueHistory`: steps, refinements, history | proofs |
| `GateRun` | the run of one task as the gate sees it: phase and round | abstract specification |
| `VerdictPath` | which file the judgement of a round is written to | operators |
| `AuditPolicy` | how strong a gate has to be and what its outcome is worth | operators |
| `DualVerifier` | one round of two verifiers: manifest, slot files, synthesis | state and operations |
| `VerdictGate` | orchestrators that judge the phases of a task; EXTENDS the four above | composition |
| `MCVerdictGate` | instance of it: task declarations and pairs of verifiers | MC |
| `VerdictGateProofs` | theorems of `VerdictGate` | proofs |
| `NextPlan` | `deriveNext` and the Driver's choice from it | operators |
| `Scheduling` | sessions, Driver, executors and watch processes at one queue; EXTENDS `NextPlan` | composition |
| `MCScheduling` | instance of it: scenarios | MC |
| `SchedulingProofs` | theorems of `Scheduling` | proofs |
| `TaskRun` | one task as the Driver sees it: stage, executor, worktree, cleanup intent | abstract specification |
| `Driver` | the Driver's lease, cycle, takeover and cleanup sweep, one action per external call; EXTENDS `TaskRun` | detailed specification |
| `MCDriver` | instance of it with symmetry | MC |
| `DriverProofs` | theorems of `Driver` | proofs |
| `ControllerLease` | which Driver may dispatch: the lease and its epochs | abstract specification |
| `ControllerLeaseProofs` | theorems of `ControllerLease` | proofs |
| `LeaseSuppression` | `ControllerLease` with the heartbeat of the Drivers' session | composition for checking |
| `StateLock` | the lock directory and the read-modify-write under it, one action per system call | detailed specification |
| `MCStateLock` | instance of it with symmetry | MC |
| `StateLockProofs` | theorems of `StateLock` | proofs |

### TaskQueue

`TaskQueue` takes each verb as one step, which is what `StateLock` justifies.
The variables are the fields of `V2Item` as functions of the task id
(`progress`, `run`, `blockedReason`, `artifact`, `follow`, `session`,
`worktree`) and the ledgers (`relisted`, `withdrawnBranches`, `outbox`).
An action is one `apply*` function: the VERB_SPEC precondition and the
function's own checks are the guard, the object it returns the primed state.
A verb that fails its precondition writes nothing and is no step. The write
also runs `assertItemInvariantsV2`, which would turn an illegal result into an
error; the model leaves it out, and `ItemInvariants` shows it never fires.

Data is reduced to what a property tells apart. A ref, tip, sha, title, note
and timestamp is left out; so `set-takeover`, `fix-rerun-mark`, `review-only`
and `answered-set`, which write nothing else, have no action. `asked` is part
of `artifact`; `rebase` merges `taken` and `resolve` of the rebase ask (a guard
entry left behind by a failed rebase is `quiet`); `fixIds` and `handled` are
sets of comments; a `probe.proc` is a boolean lease. The optional argument of
`probe-run` and `rebase-request` is `None` and `"keep"`.

Arguments follow the callers where the code leaves them to the caller:
`fix-start --reset-attempts` is passed exactly when `next` says so
(`cycleAction`, `NextResetsAttempts`), `phase-fail --expect-attempts` is the
round that is current (any other value is refused), and the sweep resolves only
intents below `CLEANUP_MAX_ATTEMPTS`. The order of the verbs is not restricted:
callers are agents and people, and any verb may come at any time.

### VerdictGate and its parts

`GateRun` is the part of an item that the gate moves: kind, gate, phase and
attempts. `TaskQueue` checks that each of its tasks implements it
(`ImplementsGateRun`), so the round of `VerdictGate` is the one of the state
machine. It does not say that a round is met once: within one run a detour,
`advance` and another detour lead back to (`rebase_fix`, 0).

`VerdictGate` puts the callers around it: an orchestrator asks `next`
(`Iterate`), `verdict-path`, `shell-check`, launches one verifier or goes
through the playbook of two (`AskSlots`, `LaunchSlot`, `JudgeSlot`, `Record`,
`WriteRecord`, `Synthesize`), and passes, fails or blocks with the phase and the
round it was told at the beginning. Each call is a step, and `record-slot` is
two, since it reads the manifest and writes it back without a lock; between two
steps another orchestrator, the executor, the tree or the watcher moves. What a
verifier is is outside of the code: it answers as it likes (`Judge`, `Docs`),
unreadable or with another phase included; that of the second attempt is
readable, without which nothing would ever end. `AuditPolicy` translates the
pure functions: class, floor and declaration give the mode; outcomes of the
checks and violations of the scope the verdict; specs of the verifiers the
families. A scope and a glob list are the sets of paths they match, a snapshot
is the version of the tree.

The orchestrators are instances of one session, a wake-up beside a user's turn;
`next` offers the task to each of them, and the skill has them settle it by the
comparison in `advance` and `phase-fail` (SKILL.md:134). So a verdict may come
when the run has moved on, has ended, or is back in the phase it judged.
`advance` compares the phase, `phase-fail` the phase and the attempts, which
start at 0 in every visit: neither can tell one fix or one resolution of a task
from the next (`MayBeLate`). A path asked for after the run moved on is one of
another phase; `DecidedBy` leaves it out.

The files of a round are kept by its path (`files`), also when its orchestrator
died and another one finds them; `ForgetRounds` leaves out those of rounds that
are over and that nobody is at. `evidence`, `inPhase`, `inRound`, `saw`,
`shared` and `decided` are ghosts.

Two rules of the callers are in guards: `set-gate` comes before the executor is
launched, as the skill has it (SKILL.md:221), and an executor numbers its
`rebase-fix-<n>.md` once per resolution (`resolved`). Two bounds restrict who
meets: `Meetings` are the rounds at which several orchestrators may be in a dual
audit, and `MaxAtWork` how many may be at work when the tree changes.

### NextPlan, Scheduling

`NextPlan` is `deriveNext` over a queue in its order, operator by operator;
ages are the outcomes of its comparisons. `Scheduling` runs it: a session
touches its heartbeat, asks who is alive and what is due (one step), then works
through the answer (`plan`), a step for each call, pull requests first, then
runs in flight, then new work, as the skill orders. In between everything else
goes on. `launched` is the gap between starting an executor and recording it
(`set-executor` with the executor it expects). The Driver takes one action of
each answer (`DriverSelects`), with no list of living sessions, because
`driver-start.sh` passes none. Sessions, executors and watch processes die with
or without a trace; a heartbeat is lost though its session lives
(`LosesHeartbeat`: late, or removed by another session that had found it
stale). `Orphans` are those for which the playbook finds strong evidence.

A run is started, works, reports and is shipped or blocked; its phases are
those of `VerdictGate`. A Driver neither judges nor ships: a run it has taken
over stays until it is gone, so the liveness properties except the time of its
lease.

### TaskLifecycle

The derived status (`deriveStatus`), the owner and the tracker's consent.
`done` is final except for leaving; a task comes back to `approved` only by
spending an entry of `relisted`; only a task in progress or in review has an
owner. `ImplementsLifecycle` is the refinement of it by `TaskQueue`, under
`status <- DerivedStatus`, `owner <- session`, `consent <- relisted`.

### TaskRun, Driver

`TaskRun` is the small part of `TaskQueue` a Driver depends on; the run
`TaskQueue` checks that every task of the queue implements it
(`ImplementsTaskRun`), so what is shown of the Driver is shown on top of the
full state machine and not of a stand-in. `stage` merges `resting` and
`blocked`; `intent` is the number of failed attempts of the cleanup intent.

`Driver` EXTENDS it with the processes of `pipeline-driver.ts --loop`. Each
action is one call of an external program (state CLI, git, paseo) or one read
or replacement of `paseo-workspace.json`; the `pc` of a process names the call
it makes next:

- `acquire`, `cycle`, `release`: `acquireControllerLease`, the top of the loop
  with `next` and `stillHoldsLease`, the `finally`;
- `claim`: `handleClaim`;
- `get`, `add`, `poll`, `record`: `resolveWorktree`; `ls`, `stop`, `create`,
  `readNew`, `writeNew`, `run`, `readRun`, `writeRun`, `install`: the rest of
  `handleTakeover` in its order, `recordWorkspace` twice;
- `sweep`, `sweepRead`, `archive`, `resolve`: `runCleanupSweep`, `sweepOne`.

`replaces`, `ws`, `file`, `todo`, `marked`, `failed` are the locals of these
functions; they are gone when the operation is over. `Die` ends a process
anywhere, `Fail` lets any call that is not caught end it through the `finally`.
The calls to paseo and git are modelled from how the code uses them: `stop`
may have no effect; `paseo run` may start the agent and lose its answer;
`archive` ends the agents of the workspace or fails; `git worktree add` fails
both ways if the directory exists. `ls` answers truly if `LsWorks`; if it fails
the code takes it for an empty list. All others who act on the task are the
environment: every verb of `TaskRun` at any time, `Suspect` for what makes
`next` ask for another executor, agents that end, a forced clear of the lease.
The next operation is chosen as `next` and `selectDriverAction` choose it for a
single task; deferred, status-check and wait change nothing here but `Suspect`.
`replaced` and `late` are ghosts.

### ControllerLease, LeaseSuppression

`ControllerLease` keeps of a Driver only where it stands to its lease: all
Drivers of a directory share one session id, so the lease is its epoch, and
the stay between two checks is one mode, `work`. An epoch is the time of the
start (`Date.now()`, pipeline-driver.ts:2001): two starts may share one, and the
clock may be set back, so `Launch` takes any reading. `Driver` implements the
module (`ImplementsLease`), so its theorems are about the Drivers.

`LeaseSuppression` adds the heartbeat file of the Drivers' session, touched in
every cycle, and `Suppressed`, which is what `activeForeignLeaseOf` tells the
other sessions. `Expire` may happen at any time, as `LosesHeartbeat` may in
`Scheduling`: the file of a Driver that works is stale when one of its calls
takes long, since no call has a deadline, and the cleanup of another session may
remove a file that has just been touched, since it looks at it first and removes
it then (state-verbs-ledger.ts:341-355).

Nothing keeps two Drivers of one epoch apart: each takes the lease of the other
for its own. `Driver` has `Twins` for it, whether a start may read the epoch of
a Driver that runs. Its runs have `Twins = FALSE`; with `TRUE`, `DriverPair`
violates `OneAgentUnderLease`, and so the theorem has `~Twins` as a hypothesis.
The clock may still be set back in them.

### StateLock

Processes call a verb, make the directory `lock`, judge it by its mtime when it
exists, rename it aside when it is stale, compare the mtime of what they got
with the one they judged, remove it or rename it back, read and replace
`state.json`, and release. A directory is represented by its age, the only
thing the code looks at; `Tick` ages all of them and the remembered ones alike.
A process may die at any point and starts again later. `overtaken` holds the
processes whose copy of `state.json` is no longer the one on disk; `gap` and
`died` are ghosts (whether a session entered while a live lock was set aside;
whether that session died there; whether anybody died).

`TimelyAssumption` is the assumption the documentation makes in words
(`docs/state-machine.md`, section 1): a live session finishes a write, or a
recovery it has begun, well within the ten minutes. `Tick` is disabled when a
live session would outstay `MaxHold` or `MaxRecover`. Restoring a directory
onto a name that exists again has both outcomes the platform can produce (an
empty directory is replaced, or the rename fails and the one aside is removed).

## 3. Runs

| run | module | expects | states |
|---|---|---|---|
| `TaskQueue` | `MCTaskQueue`, with the history variables | pass | 730,500 |
| `Driver` | `MCDriver`, 1 Driver at a time | pass | 5,308,708 |
| `DriverPair` | `MCDriver`, 2 Drivers, symmetry | pass | 1,891,864 |
| `LeaseSuppression` | `LeaseSuppression`, 3 Drivers, fairness | pass | 31,848 |
| `DriverTree` | `MCDriver` | violation of `LosingMeansRival` | - |
| `VerdictGate` | `MCVerdictGate`, 2 orchestrators, fairness | pass | 999,930 |
| `VerdictStale` | `MCVerdictGate`, silent verifiers | violation of `PassIsEarned` | - |
| `Scheduling` | `MCScheduling`, 2 sessions, a Driver, 2 tasks, fairness | pass | 104,087 |
| `DriverSilence` | `MCScheduling`, 1 session, a Driver, 1 task, fairness | violation of `OrphansRecoveredUnderLease` | - |
| `StateLock` | `MCStateLock`, 3 processes, symmetry | pass | 2,469,827 |
| `StateLockPair` | `MCStateLock`, 2 processes, fairness | pass | 40,736 |
| `StateLockLeft` | `MCStateLock`, 2 processes | violation of `NoLockLeftBehind` | - |

Properties of `TaskQueue`:

- `ItemInvariants`: the assertion in front of every write never fires.
- `OwnerMatchesProgress`: a running item has an owner, an item with nothing
  volatile has none.
- `HumanLatch`: what is handed to a human has no session, lease or run.
- `FixRunWithinLimit`, `FixRunsBounded`: automatic answers to a review are
  counted and bounded; no order of latches, resets and observations buys one
  more run before a human or the tracker has had a say.
- `FinalizeIsJudged`: no run reaches finalize with a phase of its gate unjudged.
- `HandledOnlyByShip`, `TakenFixIsSettled`: a comment is marked handled only by
  the ship of the run that answered it, and the comments a run has taken are
  handled, started over by a claim, or leave with the item.
- `ImplementsLifecycle`, `ImplementsTaskRun`, `ImplementsGateRun`: the
  refinements.

Properties of `VerdictGate`:

- `PassIsEarned`: a phase is passed only on a judgement of this visit to it,
  and one as strong as the task file demands: checks that all ran and passed
  within the scope, one verifier, or two of different families that saw the
  same unchanged tree. A declaration never lowers the floor of the class. What
  the code does not keep is left out by name: a pass of `pr_fix` or
  `rebase_fix` may be a late one, of an earlier fix or resolution (`MayBeLate`),
  and then only some judgement is behind it; and of a round two orchestrators
  were at (evidence `shared`) only that two verifiers passed it.
- `FailIsEarned`: however many orchestrators judge a visit to a phase, a FAIL
  counts for the round it judged and for no other one of that visit. A late one
  of an earlier visit counts in `pr_fix` and `rebase_fix`, and only there.
- `PathIsFresh`: over fixes, resolutions and detours of a task, no round is
  given a verdict file on which an older round was decided.
- `RoundEnds`: a finished phase is passed, failed or blocked in the end,
  whatever the verifiers write and whoever dies, unless two orchestrators are
  at one dual audit again and again (`Contested`): each can undo the records of
  the other, or discard its round.

Properties of `Scheduling`:

- `SlotsHold`: a Driver has at most one new task, and replaces the executor of
  a finishing run only if it has no other one; nobody starts a new task beside
  one it has in hand.
- `RunsOfTheLivingAreSafe`: an executor at work for a living orchestrator that
  was never late is not replaced by another orchestrator, neither on old
  evidence nor on an old answer.
- `OrphansRecovered`, `AsksAnswered`, `PrsWatched`, `QueueMoves`: a run without
  an executor gets one, a request for a fix is taken up, an open pull request
  is watched again, a queued task is started (unless `max_open` pull requests
  wait); the first two and the last unless a Driver has the lease. `[]<>` says
  that the good state returns again and again.

Properties of `StateLock`:

- `MutualExclusion`, `NoLostUpdate`: at most one session is between reading and
  replacing, and nobody replaces a state it has not read. The documentation
  leaves one gap open: while a live lock is set aside by mistake a third
  session may enter. The two properties are about runs in which nobody did;
  the ghost `gap` says exactly when the gap was used.
- `TwoSessionsExclude`: with two sessions the gap does no harm, as documented,
  unless the session that made the mistake dies in it, which the documentation
  does not mention.
- `NeverShutOut`: whoever died wherever, once no more deaths happen some
  session gets in again and again.

Properties of `Driver`:

- `OneAgentAtWork`: wherever the Driver dies and however often it is started
  again, beside the agents it told to stop only one is alive. It is a property
  of one Driver at a time.
- `OneAgentUnderLease`: with two Drivers, one of them evicted in the middle of
  a takeover, a second agent can be alive, but only one launched by a Driver
  that had lost its lease; those launched under the lease are never two (if
  no two running Drivers share an epoch). This is the price of comparing the lease once per cycle, and its exact extent.
- `LaunchedIsRecorded`: an agent is alive only in a workspace that
  `paseo-workspace.json` knows, so that a sweep finds it.
- `ResolvedIsArchived`: an intent goes only when nothing is left to archive.
- `ImplementsLease`: the refinement.

Properties of `LeaseSuppression`:

- `LeaseIsFenced`: the lease is taken from an older epoch only, never back from
  a later one, and a Driver gives up its own only.
- `OneEpochRemains`: once no more Drivers are started, those that go on share
  one epoch; an evicted one finds out, wherever it lost the lease. That they
  are one Driver is not to be had, as the code compares nothing else.
- `SilenceReturns`: while a Driver goes on with its lease the other sessions
  leave its work alone again and again, however often its heartbeat is lost.
- `SuppressionEnds`: a lease whose Driver died does not silence them for good.

Bounds. One task suffices for `TaskQueue`: no verb reads the item of another
one, and the ledgers are keyed by id. One session and one agent suffice for
the properties, which ask whether there is an owner and not who it is (`None`
is the other value). Two comments tell apart a request that replaced another
one. The limits are 2 and 3 instead of 3, which keeps below, at and above the
limit; `MaxAttempts` 1, `MaxErrors` 2 (the limit), `MaxWithdrawn` 1 stop the
counters that nothing else bounds. `MaxStarts` is the number of Drivers ever
started: 2 is a Driver and the one after it, at the same time in `DriverPair`;
in `LeaseSuppression` 4 with three slots gives an evicted, an evicting and a
late one. `MaxEpoch` is the latest reading of the clock: 2 and 3 are enough for
a later, an equal and an earlier one. Three agents in `Driver` are one left over, one launched and one that
replaces it; two in `DriverPair` are enough to be one too many.
`CleanupMaxAttempts` is 2 instead of 3; 0 in `DriverPair` switches the sweep
off, which no property of that run is about. In `StateLock` three processes are a holder,
one that recovers and one that comes late; `StaleAge` 2 is the smallest that
satisfies `TimelyAssumption` with a hold and a recovery of one tick each;
directories older than `StaleAge + 1` behave alike; two attempts are the first
and a retry.

In `VerdictGate` two orchestrators, one of which may die, are enough for every
race of two callers; `RetryLimit` is 2 instead of 3 (one FAIL that counts, one
that blocks), `MaxTree` 1 is a tree before and after a change, `MaxRuns` 1 a
fix or resolution after the first run, which may be followed by a detour and so
brings `rebase_fix` back. In `Meetings` is one round, the first of the first
phase: there two orchestrators may share a dual audit with all its interleavings,
and go on to meet in every round that is not a dual audit; with `MaxAtWork` 1
the tree changes under an audit one orchestrator is at. Without the two bounds
the states are too many. The task files are one whose
implementation the shell may judge and one that needs two verifiers although it
declares one; the configurations of the pair a valid one, one of a single
family and one of a single verifier. In `Scheduling` two tasks are one in hand
and one that waits; of two sessions one never dies; three executors are an old
one, its replacement and that of the other task. `MaxOpen` is 1 instead of 2
so that the limit is met with two tasks; `InflightLimit` 2 is the code's and is
not met by two tasks of two sessions. `Scenarios` bounds what goes wrong in one
behaviour: two sessions with a mishap and a request, with two requests, with a
Driver, and one session with a Driver and a mishap. A silence of a living
executor, a death, a lost heartbeat and an unnoticed end are one mishap each.

Fairness. `FairSpec` assumes that time goes on, that a process that has not
died continues, and that verbs keep being called; the heartbeats and the
Driver's loop call them every few seconds. Fairness of `Step(p)` of a process
is that of the operating system's scheduler. `NeverShutOut` asks nothing of
the order in which sessions get the lock: the code has no queue, and a single
session may be unlucky for ever. `TaskQueue` states no liveness: each verb is
an outside decision. In `LeaseSuppression` a Driver that has not died goes on,
because each external call it makes is finite, and heartbeat files age
whenever nobody touches them. `Expire` may come at any moment, and does come in
the end when nobody touches the file; no deadline of a Driver is relied on.

In `VerdictGate` an orchestrator that has not died goes on (`GateStep`): its
calls are finite, and a verifier that hangs is ended by the harness; nothing is
assumed of executors, trees and watchers. Fairness does not keep two
orchestrators from taking turns in one audit for ever, hence the premise of
`RoundEnds`. In `Scheduling` a living session goes
on with its answer and asks again, because it schedules its own wake-up, and the
heartbeat of a dead one lapses (`SessionGoesOn`); for each task an executor at
work ends, a watch process ends by itself within 6 hours, and time passes for
what nobody attends to (`TaskGoesOn`). One session never dies (`Steady`): if
all do, nothing is promised.

Deadlock is checked in every run but `LeaseSuppression`, where all Drivers may
be gone after the last start that `MaxStarts` allows, and those of `VerdictGate`
and `Scheduling`, where everything may be blocked or merged.

## 4. Findings

- `StateLockLeft`: a live lock that was set aside by mistake may be put back
  after its owner released it, and stays until it is ten minutes old. The
  tests T-L1 and T-L4 state that finished callers leave none.
- `DriverTree`: a Driver that dies between `git worktree add` and
  `set-worktree` leaves a directory nobody has recorded. Its successor fails to
  add it twice, takes that for a lost race, waits for the record of a rival
  that does not exist, and exits; so does each one after it.
- `VerdictStale`: the playbook relies on exit 15 of `record-slot` when a
  verifier wrote nothing. After an interrupted attempt of the same round the
  old slot file is still there, is recorded with the new snapshot, and the
  round passes on a judgement of another tree.
- `DriverSilence`: the documents say that `set-takeover` and `clear-takeover`
  are not suppressed under a Driver's lease; `livenessAction` answers
  `driver-lease` before it looks, and the Driver defers both. An executor that
  dies silently is not replaced while the Driver lives.

Divergences met on the way that no run shows:

- A claim after a restore sets attention to auto and keeps `probe.errors` at
  the limit that latched it (`cycleResetArtifact`); `attention-set --auto`
  resets it, and its comment says why.
- `handleTakeover` does not look at the exit code of `paseo ls`; if it fails,
  the check for duplicates passes. `Driver` with `LsWorks = FALSE` violates
  `OneAgentAtWork`.
- One answer of `next` may offer two takeovers or two fix-starts to one
  orchestrator: `takeoverSlotBusy` and the finishing slot look at the state,
  not at what the same answer already offers, and an orchestrator that finds
  two orphans takes both. The skill says that `next` keeps the slots. (Three
  sessions, two of which lose their heartbeats, are enough; `SlotsHold` is
  about Drivers and about new tasks.)
- `set-executor` compares the executor and not the run. Of a run without an
  executor it cannot tell another one: a new task may be shipped and come back
  as a fix while a Driver starts an executor for it, and the Driver then has a finishing run beside another one. `SlotsHold` says what
  is left. (Two mishaps, two requests, a Driver and four executors are enough;
  the bounds of the run `Scheduling` do not reach it, the attempt to prove more
  did.)
- `driver-start.sh` passes no `--alive` and no `--dead-tasks`: a Driver takes
  every other session for dead, against the rule that runs of living sessions
  are left alone.
- Of two instances that judge one round, one with FAIL and one with PASS, both
  win, in this order; `docs/state-machine.md`, section 8, has exactly one
  winner. `PassIsEarned` holds nevertheless: the pass is one of this visit.
- A judgement may come a visit late. `advance` compares the phase only
  (state-transitions-v2.ts:346), `phase-fail` the phase and a count that starts
  at 0 in each visit (:384); `docs/state-machine.md`, section 8, and
  `state-cli-contract.md:1040` have it that the comparison suffices. It does for
  the sequence of an initial run, which is passed once (proved). It does not for
  `pr_fix` and `rebase_fix`: an orchestrator that is held up may pass, or fail,
  the next fix or resolution with what it thinks of the last one. A resolution
  of a `risk: high` task can even be passed by one late verifier: `shell-check`
  of a run that has ended fails, and the playbook then launches one.
  `PassIsEarned` and `FailIsEarned` name this exception (`MayBeLate`); without
  it TLC refutes both.
- Two orchestrators at one dual audit write one manifest without a lock
  (dual-verifier.ts:949-998): a record may be undone by the write-back of the
  other, a new `slots` takes away the records of both. A verdict may then rest
  on files of different trees (`shared`), and the round may go on for ever
  (`Contested`).
- The comment at state-ledger-v2.ts:345 and `state-cli-contract.md:553,561` take
  an equal epoch for the same process. It is the millisecond of a start: two
  Drivers started in the same one, or the second after the clock was set back,
  both believe to hold the lease. A new Driver that reads an earlier time than
  the lease exits at once, until the lease is released or cleared by force.

## 5. Proofs

Every safety property that a passing run checks, invariant or action property,
and every refinement is proved for all values of the constants; the runs check
the same formulas on small instances, with the liveness beside them. A component
has an inductive invariant (`IInv`, unless named otherwise) in its proof module;
the checked properties follow from it.

Besides the assumptions of the modules, four hypotheses occur in theorems:

- `LsWorks`: `paseo ls` answers. TLC refutes the one-agent properties without it.
- `~Twins`: no Driver is started with the epoch of one that runs. TLC refutes
  `OneAgentUnderLease` without it.
- `OneSlot`: one Driver at a time. With two of them an evicted Driver writes to
  files the other one has read; `OneAgentUnderLease` says what is left.
- `"silent" \notin Mishaps`: a verifier that ends has written its file. The run
  `VerdictStale` is the counterexample without it.

The assumptions of the modules say that limits are numbers, at least 1
where nothing would ever happen otherwise, that `None` is none of the values
it stands beside, that the processes of `StateLock` are finitely many and timely,
that one orchestrator of `VerdictGate` cannot die, and that a task declares a
class and a mode of audit the code knows.

`TaskQueueProofs`. `Invariance`, and from it `TypeCorrectness`,
`ItemsStayLegal`, `OwnersMatch`, `HumanLatchHolds`, `FixRunsPaid`. The invariant
is `TypeOK` and, per task, the checked invariants and `FollowOnlyWhenOpen`: a
follow that is not there carries no data, and one that is there belongs to an
open artifact. Without it a claim could find a follow on a withdrawn artifact,
and a ship could leave a run's asks on one. Every action changes one task, so a
lemma per action shows that its record stays good, and a frame lemma that the
others are the same.

`TaskQueueStepProofs`. What a step may do, from `StepInv` (`IInv`, and no run at
rest): `HandledByShipOnly`, `TakenFixSettled`, and the three refinements
`LifecycleImplemented`, `TaskRunImplemented` and `GateRunImplemented`, in which
a verb maps to one step or none of the abstract module. With the last two the
theorems of `Driver` and `VerdictGate` stand on the full state machine. For the
history variables, `HistoryOK` says that what a run owes lies ahead of its phase
(`OwesAheadOnly`) and that fix runs are counted by the follow as long as it is
automatic (`RunsAreCounted`); from it `FinalizeJudged` and `FixRunsLimited`.

`StateLockProofs`. `LockInvariance`, then `TypeCorrectness`, `Excludes`,
`NothingLost` and `PairExcludes`. The lock keeps no owner; what excludes is that
a directory under which a live session works is young, wherever it is. `Timely`:
no live session outstays its time, so what a recovery has judged is at the
maximal age. `YoungSinceJudged`: what it then finds under the name is what it
judged, or was made since. `Protected`: whoever is inside is covered by a young
directory, or by the recovery that has grabbed it by mistake. `WrongGrabIsAlone`:
until somebody slips into the gap there is one wrong grab at most, and the name
stays free. For two sessions `WrongGrabOfTwo` holds even when the gap is used,
until the session that made the mistake dies in it: the other one is in no
recovery, because it has made what is grabbed.

`ControllerLeaseProofs`. `LeaseTypes`, and from it `LeaseFenced`: nobody but a
starting Driver takes the lease, and it compares first. Nothing is assumed of
the epochs.

`DriverProofs`:

- `TypeInvariance`, `TypeCorrectness`: `TypeOK` is not inductive by itself; a
  step uses what an earlier one put aside. `TypeInv` adds what the locals of a
  process stand for (`Sound`) and that files name existing workspaces only.
- `LeaseImplemented`: each action is a step of `ControllerLease` or leaves its
  variables alone. `EpochsAlwaysDiffer`: if `~Twins`, the epochs of running
  Drivers differ.
- `OneAgent`: `OneAgentUnderLease` if `LsWorks` and `~Twins`. From the answer of
  `ls` to the launch the Driver that has the lease is alone: the agents under
  the lease are at most the one it is about to stop, then none (`Alone`). Its
  own steps keep that; another Driver that launches meanwhile does not have the
  lease, as epochs differ, so its agent is `late`; and the lease cannot come
  back to a Driver that lost it in the middle of an operation, since it is
  acquired before the first cycle only.
- `OneAgentOneDriver`: `OneAgentAtWork` if `LsWorks` and `OneSlot`; the same
  argument without the lease.
- `LaunchedRecorded`, `ResolvedArchived`, if `OneSlot`: what an operation has
  read of `paseo-workspace.json` is still on disk when it writes it back, and
  the sweep keeps in `todo` all that is not archived (`FilesKept`).

`VerdictGateProofs`. Nothing keeps an orchestrator from meeting a phase again,
so the visits are told apart by what the code has. Who is still told that the
visit it judges goes on is right, and nobody has decided its round unless the
count of rounds tells (`StayedThere`). An initial run is never behind what is
judged of it (`NeverBehind`), so who finds it in a phase of its sequence is in
the visit it judges (`PassedOnce`). This is `GateInvariance`, and `FailEarned`
follows: only in `pr_fix` and `rebase_fix` a FAIL may be late.

`EvidenceInvariance`, if no verifier is silent: a round has two known families
(`RoundKnown`), and in one that an orchestrator has for itself a slot recorded
with the tree of the baseline holds a verdict on that tree (`RecordedWasSeen`:
the tree only moves on, so a later record differs; another orchestrator at the
round makes it `shared`). So a PASS rests on something, and while its visit goes
on on what the task demands (`PassSuffices`); `PassEarned` follows.

`PathInvariance` counts the rounds that are over by their paths: a decided one
is past (`DecidedIsOver`), and the path an orchestrator was told is at most the
current one of its fix or resolution (`PathsStand`, `ResolutionFirst`), though
it may be judged long after it was asked for; `PathFresh` follows.
`TypeCorrectness` is the type invariant.

`SchedulingProofs`. A session acts on an old answer of `next`; `AnswersStand`
is the invariant of what is still true then, with the types (`TypeCorrectness`).
Only the session itself gives it runs, so a claim still finds no new task in
hand (`ClaimsAreFree`), and a Driver, which takes one action of an answer, still
has no other run of the kind it is about to take (`DriverSlots`). The name of an
executor stands for one run (`NamesAreNew`), so `set-executor` either meets the
run the answer was about or is refused; and the executor of a session that
attends to it is named by no other session's takeover (`ReplacedAreGone`), since
its heartbeat was seen (`BeatsSeen`). Most actions only end runs, drop plans or
stop processes: one lemma about such calm steps covers them. `SlotsKept` and
`LivingAreSafe` follow.

Only model-checked: liveness (`OneEpochRemains`, `SilenceReturns`,
`SuppressionEnds`, `NeverShutOut`, `RoundEnds`, `OrphansRecovered`, `AsksAnswered`, `PrsWatched`,
`QueueMoves`), because fairness and `ENABLED` are out of reach of the prover, and
the violations of section 4, which are counterexamples. Not proved either: that
`VerdictPathOf` and the maximum over artifacts agree with the code's loops, which
the models state by what they return.

## 6. Plan

The modules of the inventory are written and their safety is proved. What is
left, in this order:

1. Parts of liveness arguments that are safety: the steps that bring a goal
   nearer (a round that one orchestrator has for itself is decided by a step
   that only it disables; an evicted Driver's next check ends it), as action
   properties with their proofs.
2. The exceptions that properties name made explicit: what two orchestrators at
   one dual audit still guarantee each other, and what two Drivers of one epoch
   do; and the withdraw intent that outlives its attempts.
3. `SlotsHold` for orchestrators with what one answer offers made explicit.

## 7. Not modelled

- History, candidates, promoted, stalled, and `max_tasks`, retire, attention and
  stagnation in `next`: notes, or decisions on them, that the modelled state
  does not depend on. `TaskQueue` has the latch and the counters themselves.
- The watch scripts: loops around gh and paseo whose exits are inputs of the
  models. The observe mode and the process heartbeat of the Driver: reports.
- Schema checks and the migration from version 1: pure conversions that run
  once, in one process.
- Flags, dispatch, provider table, command runner, ALPS output, install scripts,
  metrics, the PHP experiment: no state of the queue.
- The skills and playbooks are prose. They are read for what the callers do,
  which the models mark as external.

------------------------------- MODULE Driver --------------------------------
(***************************************************************************)
(* Resident Drivers (pipeline-driver.ts --loop) at work on one task: the   *)
(* controller lease, the cycle next - operation - next, the takeover that  *)
(* launches an executor through paseo, and the cleanup sweep.              *)
(*                                                                         *)
(* Each call of an external program (state CLI, git, paseo) and each read  *)
(* or write of paseo-workspace.json is one step; between two steps anybody *)
(* else may act, and the process may die.  Any call of the state CLI may   *)
(* fail (conflict, lock timeout): the Driver gives its lease back and      *)
(* exits.  Everything else that happens to the task is the environment.    *)
(***************************************************************************)
EXTENDS TaskRun

CONSTANTS
  Drivers,      \* slots for Driver processes
  MaxEpoch,     \* bound: the latest reading of the clock
  MaxStarts,    \* bound: Drivers launched
  Twins,        \* may the clock read at a start what a running Driver has as its epoch
  LsWorks       \* does paseo ls always answer

\* An agent is the one started in the workspace of the same name.
Workspaces == Agents

ASSUME DriverAssumption ==
  MaxEpoch \in Nat /\ MaxStarts \in Nat /\ Twins \in BOOLEAN /\ LsWorks \in BOOLEAN

VARIABLES
  suspect,      \* the executor's takeover is due (silence, dead owner)
  lease,        \* controller_lease.epoch, NoLease for null
  starts,       \* Drivers launched so far
  driver,       \* state of each Driver process
  workspaces,   \* paseo: workspaces created
  archived,     \* paseo: workspaces archived
  live,         \* paseo: agents neither closed nor archived nor errored
  tree,         \* git: does the directory of the task's worktree exist
  file,         \* paseo-workspace.json: entry of each workspace
  replaced,     \* ghost: agents a takeover has told to stop
  late          \* ghost: agents launched by a Driver without the lease

paseo == <<workspaces, archived, live>>
ghosts == <<replaced, late>>
vars == <<task, suspect, lease, starts, driver, paseo, tree, file, ghosts>>

NoLease == 0

NoFile == [w \in Workspaces |-> "none"]

Off == [pc |-> "off", epoch |-> 0, replaces |-> None, ws |-> None,
        file |-> NoFile, todo |-> {}, marked |-> FALSE, failed |-> FALSE]

\* owned, not yet archived
PendingArchives(f) == {w \in Workspaces : f[w] = "pending"}

\* The locals of one operation are gone when it is over.
At(p, pc) == [Off EXCEPT !.pc = pc, !.epoch = driver[p].epoch]

Goto(p, pc) == driver' = [driver EXCEPT ![p].pc = pc]
Finish(p) == \E pc \in {"cycle", "sweep"} : driver' = [driver EXCEPT ![p] = At(p, pc)]
Abort(p) == driver' = [driver EXCEPT ![p] = At(p, "release")]
Exit(p) == driver' = [driver EXCEPT ![p] = Off]

OnlyDriver == UNCHANGED <<task, suspect, lease, starts, paseo, tree, file, ghosts>>

-----------------------------------------------------------------------------
(* The life of a Driver and its lease. *)

\* Those of the Drivers that run.
RunningEpochs == {driver[p].epoch : p \in {q \in Drivers : driver[q].pc # "off"}}

\* A process starts; its epoch is the time of its start, which may be that of an
\* earlier one.  Nothing in the code keeps it from that of a Driver that runs.
Launch(p) ==
  /\ driver[p].pc = "off" /\ starts < MaxStarts
  /\ starts' = starts + 1
  /\ \E now \in 1 .. MaxEpoch :
       /\ Twins \/ now \notin RunningEpochs
       /\ driver' = [driver EXCEPT ![p] = [Off EXCEPT !.pc = "acquire", !.epoch = now]]
  /\ UNCHANGED <<task, suspect, lease, paseo, tree, file, ghosts>>

\* The process dies wherever it stands and gives nothing back.
Die(p) == driver[p].pc # "off" /\ Exit(p) /\ OnlyDriver

\* A newer Driver holds the lease: exit.  An older one loses it.
Acquire(p) ==
  /\ driver[p].pc = "acquire"
  /\ IF lease > driver[p].epoch
     THEN Exit(p) /\ UNCHANGED lease
     ELSE Goto(p, "cycle") /\ lease' = driver[p].epoch
  /\ UNCHANGED <<task, suspect, starts, paseo, tree, file, ghosts>>

\* The lease is given back if it is still one's own; the process exits.
Release(p) ==
  /\ driver[p].pc = "release"
  /\ lease' = IF lease = driver[p].epoch THEN NoLease ELSE lease
  /\ Exit(p)
  /\ UNCHANGED <<task, suspect, starts, paseo, tree, file, ghosts>>

\* A person clears the lease unconditionally.
ForceClear ==
  /\ lease # NoLease /\ lease' = NoLease
  /\ UNCHANGED <<task, suspect, starts, driver, paseo, tree, file, ghosts>>

\* Where a failing call ends the process through the finally of the loop: all
\* but the stop of the old executor and the sweep's read, which are caught.
MayFail == {"cycle", "claim", "get", "add", "poll", "record", "ls", "create",
            "readNew", "writeNew", "run", "readRun", "writeRun", "install",
            "sweep", "archive", "resolve"}

\* A call fails, or the process is told to stop at the top of its loop.
Fail(p) == driver[p].pc \in MayFail /\ Abort(p) /\ OnlyDriver

-----------------------------------------------------------------------------
(* One cycle. *)

\* livenessAction: a run without an executor, or with one given up on.
TakeoverDue == stage = "running" /\ (executor = None \/ suspect)

\* Mutant: the lease of any Driver will do.
HoldsSomeLease(p) == lease # NoLease

\* stillHoldsLease: the session is the same for all Drivers, the epoch is not.
StillHoldsLease(p) == lease = driver[p].epoch

\* next: the lease is compared once, then the due operation begins.
Cycle(p) ==
  /\ driver[p].pc = "cycle"
  /\ \/ ~StillHoldsLease(p) /\ Exit(p)
     \/ StillHoldsLease(p) /\ stage = "queued" /\ Goto(p, "claim")
     \/ /\ StillHoldsLease(p) /\ TakeoverDue
        /\ driver' = [driver EXCEPT ![p].pc = "get", ![p].replaces = executor]
     \/ StillHoldsLease(p) /\ stage # "queued" /\ ~TakeoverDue /\ Finish(p)
  /\ OnlyDriver

DriverClaim(p) ==
  /\ driver[p].pc = "claim"
  /\ Claim
  /\ Finish(p)
  /\ UNCHANGED <<suspect, lease, starts, paseo, tree, file, ghosts>>

\* handleTakeover reads the item again; a recorded worktree is used as it is.
Get(p) ==
  /\ driver[p].pc = "get"
  /\ stage # "absent"
  /\ Goto(p, IF worktree THEN "ls" ELSE "add")
  /\ OnlyDriver

\* git worktree add, with and without -b: both fail if the directory exists.
AddWorktree(p) ==
  /\ driver[p].pc = "add"
  /\ tree' = TRUE
  /\ Goto(p, IF tree THEN "poll" ELSE "record")
  /\ UNCHANGED <<task, suspect, lease, starts, paseo, file, ghosts>>

\* After both have failed the item is read until its worktree is there.
Poll(p) ==
  /\ driver[p].pc = "poll"
  /\ worktree
  /\ Finish(p)
  /\ OnlyDriver

RecordWorktree(p) ==
  /\ driver[p].pc = "record"
  /\ SetWorktree
  /\ Goto(p, "ls")
  /\ UNCHANGED <<suspect, lease, starts, paseo, tree, file, ghosts>>

Duplicates(p) == live \ {driver[p].replaces}

\* Mutant: the agents of the task are not looked up.
CarelessLs(p) ==
  /\ driver[p].pc = "ls"
  /\ Goto(p, IF driver[p].replaces = None THEN "create" ELSE "stop")
  /\ OnlyDriver

\* Mutant: the old executor is stopped though there may be none.
StoppingLs(p) ==
  /\ driver[p].pc = "ls"
  /\ \/ Duplicates(p) # {} /\ Finish(p)
     \/ Duplicates(p) = {} /\ Goto(p, "stop")
  /\ OnlyDriver

\* findActiveDuplicates; an answer that cannot be parsed counts as none.
Ls(p) ==
  /\ driver[p].pc = "ls"
  /\ \/ Duplicates(p) # {} /\ Finish(p)
     \/ /\ Duplicates(p) = {} \/ ~LsWorks
        /\ Goto(p, IF driver[p].replaces = None THEN "create" ELSE "stop")
  /\ OnlyDriver

\* The old executor is told to stop, once, whatever comes of it.
StopReplaced(p) ==
  /\ driver[p].pc = "stop"
  /\ live' \in {live, live \ {driver[p].replaces}}
  /\ replaced' = replaced \cup {driver[p].replaces}
  /\ Goto(p, "create")
  /\ UNCHANGED <<task, suspect, lease, starts, workspaces, archived, tree, file, late>>

\* The id paseo gives to a new workspace.
FreshWorkspace == CHOOSE w \in Workspaces \ workspaces : TRUE

\* Mutant: the agent is launched before its workspace is recorded.
UnrecordedCreate(p) ==
  /\ driver[p].pc = "create"
  /\ Workspaces \ workspaces # {}
  /\ workspaces' = workspaces \cup {FreshWorkspace}
  /\ driver' = [driver EXCEPT ![p].pc = "run", ![p].ws = FreshWorkspace]
  /\ UNCHANGED <<task, suspect, lease, starts, archived, live, tree, file, ghosts>>

CreateWorkspace(p) ==
  /\ driver[p].pc = "create"
  /\ Workspaces \ workspaces # {}
  /\ workspaces' = workspaces \cup {FreshWorkspace}
  /\ driver' = [driver EXCEPT ![p].pc = "readNew", ![p].ws = FreshWorkspace]
  /\ UNCHANGED <<task, suspect, lease, starts, archived, live, tree, file, ghosts>>

\* recordWorkspace, called before and after the launch: read, then replace.
ReadFile(p) ==
  /\ driver[p].pc \in {"readNew", "readRun"}
  /\ driver' = [driver EXCEPT
       ![p].pc = IF driver[p].pc = "readNew" THEN "writeNew" ELSE "writeRun",
       ![p].file = file]
  /\ OnlyDriver

\* upsertWorkspaceEntry: the entry says archived_at null again.
WriteFile(p) ==
  /\ driver[p].pc \in {"writeNew", "writeRun"}
  /\ file' = [driver[p].file EXCEPT ![driver[p].ws] = "pending"]
  /\ Goto(p, IF driver[p].pc = "writeNew" THEN "run" ELSE "install")
  /\ UNCHANGED <<task, suspect, lease, starts, paseo, tree, ghosts>>

\* paseo run: the agent starts; the answer may be lost, which ends the process.
RunAgent(p) ==
  /\ driver[p].pc = "run"
  /\ live' = live \cup {driver[p].ws}
  /\ late' = IF lease = driver[p].epoch THEN late ELSE late \cup {driver[p].ws}
  /\ Goto(p, "readRun") \/ Abort(p)
  /\ UNCHANGED <<task, suspect, lease, starts, workspaces, archived, tree, file, replaced>>

\* set-executor with the executor that next named as the expected one.
Install(p) ==
  /\ driver[p].pc = "install"
  /\ SetExecutor(driver[p].ws, driver[p].replaces)
  /\ suspect' = FALSE
  /\ Finish(p)
  /\ UNCHANGED <<lease, starts, paseo, tree, file, ghosts>>

-----------------------------------------------------------------------------
(* The cleanup sweep. *)

\* runCleanupSweep reads the outbox; an exhausted intent is left alone.
Sweep(p) ==
  /\ driver[p].pc = "sweep"
  /\ IF intent # NoIntent /\ intent < CleanupMaxAttempts
     THEN Goto(p, "sweepRead")
     ELSE driver' = [driver EXCEPT ![p] = At(p, "cycle")]
  /\ OnlyDriver

\* sweepOne reads the file; an unreadable one is a failed attempt.
SweepRead(p) ==
  /\ driver[p].pc = "sweepRead"
  /\ \/ driver' = [driver EXCEPT ![p].pc = "archive", ![p].file = file,
                                 ![p].todo = PendingArchives(file)]
     \/ driver' = [driver EXCEPT ![p].pc = "resolve", ![p].failed = TRUE]
  /\ OnlyDriver

\* markArchived: the entry gets its archived_at.
Marked(f, w, ok) == IF ok THEN [f EXCEPT ![w] = "archived"] ELSE f

\* Mutant: a failed archive is not remembered.
ForgetfulArchive(p, w, ok) ==
  /\ driver[p].pc = "archive" /\ w \in driver[p].todo
  /\ driver' = [driver EXCEPT ![p] =
       [driver[p] EXCEPT !.todo = driver[p].todo \ {w},
                         !.marked = driver[p].marked \/ ok,
                         !.file = Marked(driver[p].file, w, ok)]]
  /\ archived' = IF ok THEN archived \cup {w} ELSE archived
  /\ live' = IF ok THEN live \ {w} ELSE live
  /\ UNCHANGED <<task, suspect, lease, starts, workspaces, tree, file, ghosts>>

\* paseo workspace archive ends the agent of the workspace, or fails.
Archive(p, w, ok) ==
  /\ driver[p].pc = "archive" /\ w \in driver[p].todo
  /\ driver' = [driver EXCEPT ![p] =
       [driver[p] EXCEPT !.todo = driver[p].todo \ {w},
                         !.marked = driver[p].marked \/ ok,
                         !.file = Marked(driver[p].file, w, ok),
                         !.failed = driver[p].failed \/ ~ok]]
  /\ archived' = IF ok THEN archived \cup {w} ELSE archived
  /\ live' = IF ok THEN live \ {w} ELSE live
  /\ UNCHANGED <<task, suspect, lease, starts, workspaces, tree, file, ghosts>>

\* The file is replaced by the copy read before the archiving, marked; it is
\* left alone if nothing was archived.
SweepWrite(p) ==
  /\ driver[p].pc = "archive" /\ driver[p].todo = {}
  /\ file' = IF driver[p].marked THEN driver[p].file ELSE file
  /\ Goto(p, "resolve")
  /\ UNCHANGED <<task, suspect, lease, starts, paseo, tree, ghosts>>

Resolve(p) ==
  /\ driver[p].pc = "resolve"
  /\ CleanupResolve(~driver[p].failed)
  /\ driver' = [driver EXCEPT ![p] = At(p, "cycle")]
  /\ UNCHANGED <<suspect, lease, starts, paseo, tree, file, ghosts>>

-----------------------------------------------------------------------------
(* The environment: other sessions, people, agents. *)

\* A verb of the queue that begins no run and ends none.
OtherVerb ==
  /\ Approve \/ Claim \/ StartFinishing \/ Restore \/ Withdraw
  /\ UNCHANGED <<suspect, lease, starts, driver, paseo, tree, file, ghosts>>

\* The run ends or the task leaves; the mark on its executor goes with it.
EndingVerb ==
  /\ EndRun \/ Drop \/ Retire
  /\ suspect' = FALSE
  /\ UNCHANGED <<lease, starts, driver, paseo, tree, file, ghosts>>

\* The executor falls silent or its owner dies, or it is heard of again.
Suspect ==
  /\ stage = "running" /\ executor # None
  /\ suspect' \in BOOLEAN \ {suspect}
  /\ UNCHANGED <<task, lease, starts, driver, paseo, tree, file, ghosts>>

\* The worktree of a task that left is removed.
RemoveTree ==
  /\ stage = "absent" /\ tree /\ tree' = FALSE
  /\ UNCHANGED <<task, suspect, lease, starts, driver, paseo, file, ghosts>>

\* An agent is closed, fails or is archived by people.
AgentEnds(a) ==
  /\ a \in live /\ live' = live \ {a}
  /\ UNCHANGED <<task, suspect, lease, starts, driver, workspaces, archived, tree,
                 file, ghosts>>

Environment ==
  \/ OtherVerb \/ EndingVerb \/ Suspect \/ RemoveTree \/ ForceClear
  \/ \E a \in Agents : AgentEnds(a)

-----------------------------------------------------------------------------
DriverInit ==
  /\ Init
  /\ suspect = FALSE /\ lease = NoLease /\ starts = 0
  /\ driver = [p \in Drivers |-> Off]
  /\ workspaces = {} /\ archived = {} /\ live = {}
  /\ tree = FALSE /\ file = NoFile
  /\ replaced = {} /\ late = {}

TakeoverStep(p) ==
  \/ Get(p) \/ AddWorktree(p) \/ Poll(p) \/ RecordWorktree(p) \/ Ls(p)
  \/ StopReplaced(p) \/ CreateWorkspace(p) \/ ReadFile(p) \/ WriteFile(p)
  \/ RunAgent(p) \/ Install(p)

SweepStep(p) ==
  \/ Sweep(p) \/ SweepRead(p) \/ SweepWrite(p) \/ Resolve(p)
  \/ \E w \in Workspaces, ok \in BOOLEAN : Archive(p, w, ok)

\* What a running process does by itself.
Step(p) ==
  \/ Acquire(p) \/ Cycle(p) \/ DriverClaim(p) \/ Fail(p) \/ Release(p)
  \/ TakeoverStep(p)
  \/ SweepStep(p)

DriverNext ==
  \/ Environment
  \/ \E p \in Drivers : Launch(p) \/ Die(p) \/ Step(p)

DriverSpec == DriverInit /\ [][DriverNext]_vars

-----------------------------------------------------------------------------
(* Types. *)

Pcs == MayFail \cup {"off", "acquire", "release", "stop", "sweepRead"}

EntryStates == {"none", "pending", "archived"}

DriverType == [pc : Pcs, epoch : Nat, replaces : Agents \cup {None},
               ws : Workspaces \cup {None}, file : [Workspaces -> EntryStates],
               todo : SUBSET Workspaces, marked : BOOLEAN, failed : BOOLEAN]

\* Every variable keeps its shape.
TypeOK ==
  /\ stage \in {"absent", "queued", "running", "idle"}
  /\ executor \in Agents \cup {None}
  /\ worktree \in BOOLEAN
  /\ intent \in Nat \cup {NoIntent}
  /\ suspect \in BOOLEAN
  /\ lease \in Nat
  /\ starts \in Nat
  /\ driver \in [Drivers -> DriverType]
  /\ workspaces \subseteq Workspaces
  /\ archived \subseteq workspaces
  /\ live \subseteq workspaces
  /\ tree \in BOOLEAN
  /\ file \in [Workspaces -> EntryStates]
  /\ replaced \subseteq Agents
  /\ late \subseteq Agents

-----------------------------------------------------------------------------
(* Properties. *)

AtMostOne(S) == \A a, b \in S : a = b

\* However often the Driver dies and is started again, between whichever calls,
\* no second executor works on the task: beside the agents a takeover told to
\* stop, one agent is alive.  This is for one Driver at a time; DriverPair
\* shows what two do.
OneAgentAtWork == AtMostOne(live \ replaced)

\* Two Drivers at once put a second agent to work only by one of them launching
\* its agent after it has lost the lease: those launched under the lease are
\* never two, since an evicted Driver's launch is seen by its successor's ls.
OneAgentUnderLease == AtMostOne(live \ (replaced \cup late))

\* An agent is alive only in a workspace that paseo-workspace.json knows, so
\* a later sweep finds it, whatever the takeover died of after the launch.
LaunchedIsRecorded == \A a \in live : file[a] # "none"

\* A cleanup intent disappears only when no workspace of the file is left to
\* archive; a failed archive or a crash in the sweep keeps it.
ResolvedIsArchived ==
  [][intent # NoIntent /\ intent' = NoIntent => PendingArchives(file) = {}]_vars

\* The stay between two checks of the lease is one operation.
ModeOf == [pc \in Pcs |-> CASE pc \in {"off", "acquire", "release"} -> pc
                             [] pc = "cycle" -> "check"
                             [] OTHER -> "work"]

Lease == INSTANCE ControllerLease WITH
  mode  <- [p \in Drivers |-> ModeOf[driver[p].pc]],
  epoch <- [p \in Drivers |-> driver[p].epoch]

\* The Drivers keep to the protocol of the lease: they check it once per cycle,
\* give up only what is their own, and work on between two checks.  (Most
\* steps are within an operation, so the stutter comes first.)
ImplementsLease == Lease!Init /\ [][UNCHANGED Lease!vars \/ Lease!Next]_vars

\* Both attempts to add the worktree fail only where another Driver is ahead
\* with the same takeover, or has recorded its worktree.
LosingMeansRival ==
  \A p \in Drivers : driver[p].pc = "poll" =>
    \/ worktree
    \/ \E q \in Drivers \ {p} : driver[q].pc = "record"

=============================================================================

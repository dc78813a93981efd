---------------------------- MODULE DriverProofs -----------------------------
(* Theorems of Driver, for any number of Drivers, agents, starts and epochs. *)
EXTENDS Driver, TLAPS

-----------------------------------------------------------------------------
(* Types.  TypeOK is not inductive: what an operation has put aside in the    *)
(* record of its process must be what the later steps take it for.           *)

\* Every workspace a copy of paseo-workspace.json names is one of W.
Known(f, W) == \A w \in Workspaces : f[w] # "none" => w \in W

Launching == {"readNew", "writeNew", "run", "readRun", "writeRun", "install"}

\* The locals of a process, W being the workspaces there are.
Sound(r, W) ==
  /\ r.pc = "stop" => r.replaces \in Agents
  /\ r.pc \in Launching => r.ws \in W
  /\ r.todo \subseteq W
  /\ Known(r.file, W)

LocalsSound == \A p \in Drivers : Sound(driver[p], workspaces)

TypeInv == TypeOK /\ Known(file, workspaces) /\ LocalsSound

\* The part of the type that a step of the task alone touches.
TaskType ==
  /\ stage \in {"absent", "queued", "running", "idle"}
  /\ executor \in Agents \cup {None}
  /\ worktree \in BOOLEAN
  /\ intent \in Nat \cup {NoIntent}

\* Every operation of the task keeps it.
LEMMA TaskStepType ==
  ASSUME TaskType,
         \/ Approve \/ Claim \/ StartFinishing \/ EndRun \/ Restore
         \/ Drop \/ Retire \/ Withdraw \/ SetWorktree \/ UNCHANGED task
         \/ \E a, b \in Agents \cup {None} : SetExecutor(a, b)
         \/ \E ok \in BOOLEAN : CleanupResolve(ok)
  PROVE  TaskType'
<1> USE DEF TaskType
<1>1. stage' \in {"absent", "queued", "running", "idle"}
  BY DEF Approve, Claim, StartFinishing, EndRun, Restore, Drop, Retire, Leave, Withdraw,
         SetWorktree, SetExecutor, CleanupResolve, task
<1>2. executor' \in Agents \cup {None}
  BY DEF Approve, Claim, StartFinishing, EndRun, Restore, Drop, Retire, Leave, Withdraw,
         SetWorktree, SetExecutor, CleanupResolve, task
<1>3. worktree' \in BOOLEAN
  BY DEF Approve, Claim, StartFinishing, EndRun, Restore, Drop, Retire, Leave, Withdraw,
         SetWorktree, SetExecutor, CleanupResolve, task
<1>4. intent' \in Nat \cup {NoIntent}
  BY DEF Approve, Claim, StartFinishing, EndRun, Restore, Drop, Retire, Leave, Withdraw,
         SetWorktree, SetExecutor, CleanupResolve, task, RequestedIntent, NoIntent
<1>. QED
  BY <1>1, <1>2, <1>3, <1>4

\* The rest.
OwnType ==
  /\ suspect \in BOOLEAN
  /\ lease \in Nat
  /\ starts \in Nat
  /\ driver \in [Drivers -> DriverType]
  /\ workspaces \subseteq Workspaces
  /\ archived \subseteq workspaces
  /\ live \subseteq workspaces
  /\ tree \in BOOLEAN
  /\ file \in [Workspaces -> EntryStates]
  /\ replaced \subseteq Agents
  /\ late \subseteq Agents

\* TypeOK is the two parts, now
LEMMA TypeParts == TypeOK <=> TaskType /\ OwnType
  BY DEF TypeOK, TaskType, OwnType

\* and in the next state.
LEMMA TypePartsNext == TypeOK' <=> TaskType' /\ OwnType'
  BY DEF TypeOK, TaskType, OwnType

\* The records the actions build: a process that is off, one that has
\* finished an operation, one that goes on to its next step.
LEMMA OffSound == Off \in DriverType /\ \A W : Sound(Off, W)
  BY DEF Off, DriverType, Pcs, MayFail, NoFile, EntryStates, Sound, Known, Launching

\* A process between two operations has empty locals.
LEMMA FreshSound ==
  ASSUME NEW pc \in Pcs \ (Launching \cup {"stop"}), NEW e \in Nat, NEW W
  PROVE  /\ [Off EXCEPT !.pc = pc, !.epoch = e] \in DriverType
         /\ Sound([Off EXCEPT !.pc = pc, !.epoch = e], W)
  BY DEF Off, DriverType, NoFile, EntryStates, Sound, Known

\* A process that goes on keeps its locals.
LEMMA GotoSound ==
  ASSUME NEW W, NEW r \in DriverType, Sound(r, W), NEW pc \in Pcs,
         pc = "stop" => r.replaces \in Agents,
         pc \in Launching => r.ws \in W
  PROVE  [r EXCEPT !.pc = pc] \in DriverType /\ Sound([r EXCEPT !.pc = pc], W)
  BY DEF DriverType, Sound

\* Locals stay sound when there are more workspaces.
LEMMA Grows ==
  ASSUME NEW W, NEW V, W \subseteq V, NEW r, Sound(r, W)
  PROVE  Sound(r, V)
  BY DEF Sound, Known

\* A step of one process leaves the others as they are.
LEMMA Frame ==
  ASSUME TypeInv, NEW p \in Drivers, workspaces \subseteq workspaces',
         NEW r \in DriverType, Sound(r, workspaces'), driver' = [driver EXCEPT ![p] = r]
  PROVE  driver' \in [Drivers -> DriverType] /\ LocalsSound'
  BY Grows DEF TypeInv, TypeOK, LocalsSound

\* The type invariant holds at the start.
LEMMA InitTypeInv == DriverInit => TypeInv
<1> SUFFICES ASSUME DriverInit PROVE TypeInv
  OBVIOUS
<1> USE DEF DriverInit
<1>1. driver \in [Drivers -> DriverType] /\ LocalsSound
  BY OffSound DEF LocalsSound
<1>2. file \in [Workspaces -> EntryStates] /\ Known(file, workspaces)
  BY DEF NoFile, EntryStates, Known
<1>3. TaskType
  BY DEF Init, TaskType
<1>4. suspect \in BOOLEAN /\ tree \in BOOLEAN
  OBVIOUS
<1>5. lease \in Nat /\ starts \in Nat
  BY DEF NoLease
<1>6. OwnType
  BY <1>1, <1>2, <1>4, <1>5 DEF OwnType
<1>. QED
  BY <1>1, <1>2, <1>3, <1>6, TypeParts DEF TypeInv

\* Nothing the environment does touches the locals or adds a workspace.
LEMMA EnvironmentTypeInv == TypeInv /\ Environment => TypeInv'
<1> SUFFICES ASSUME TypeInv, Environment PROVE TypeInv'
  OBVIOUS
<1>1. TaskType'
  BY TypeParts, TaskStepType
     DEF TypeInv, Environment, OtherVerb, EndingVerb, Suspect, RemoveTree, ForceClear,
         AgentEnds
<1>2. OwnType'
  <2> USE TypeParts DEF TypeInv, OwnType, paseo, ghosts
  <2>1. CASE OtherVerb
    BY <2>1 DEF OtherVerb
  <2>2. CASE EndingVerb
    BY <2>2 DEF EndingVerb
  <2>3. CASE Suspect
    BY <2>3 DEF Suspect
  <2>4. CASE RemoveTree
    BY <2>4 DEF RemoveTree
  <2>5. CASE ForceClear
    BY <2>5 DEF ForceClear, NoLease
  <2>6. ASSUME NEW a \in Agents, AgentEnds(a) PROVE OwnType'
    BY <2>6 DEF AgentEnds
  <2>. QED
    BY <2>1, <2>2, <2>3, <2>4, <2>5, <2>6 DEF Environment
<1>3. UNCHANGED <<driver, file, workspaces>>
  BY DEF Environment, OtherVerb, EndingVerb, Suspect, RemoveTree, ForceClear, AgentEnds,
         paseo
<1>. QED
  BY <1>1, <1>2, <1>3, TypePartsNext DEF TypeInv, LocalsSound

\* The actions of a process on the task.
LEMMA ProcessTaskType ==
  ASSUME TypeOK, NEW p \in Drivers, Launch(p) \/ Die(p) \/ Step(p)
  PROVE  TaskType'
<1> USE TypeParts
<1>0. driver[p] \in DriverType
  BY DEF OwnType
<1>1. CASE UNCHANGED task
  BY <1>1, TaskStepType
<1>2. CASE DriverClaim(p)
  BY <1>2, TaskStepType DEF DriverClaim
<1>3. CASE RecordWorktree(p)
  BY <1>3, TaskStepType DEF RecordWorktree
<1>4. CASE Install(p)
  <2>1. driver[p].ws \in Agents \cup {None} /\ driver[p].replaces \in Agents \cup {None}
    BY <1>0 DEF DriverType, Workspaces
  <2>. QED
    BY <1>4, <2>1, TaskStepType DEF Install
<1>5. CASE Resolve(p)
  <2>1. (~driver[p].failed) \in BOOLEAN
    OBVIOUS
  <2>. QED
    BY <1>5, <2>1, TaskStepType DEF Resolve
<1>. QED
  BY <1>1, <1>2, <1>3, <1>4, <1>5
     DEF Launch, Die, Step, OnlyDriver, Acquire, Cycle, Fail, Release, TakeoverStep,
         SweepStep, Get, AddWorktree, Poll, Ls, StopReplaced, CreateWorkspace, ReadFile,
         WriteFile, RunAgent, Sweep, SweepRead, Archive, SweepWrite

\* The ways of moving on, as records for Frame.
LEMMA GotoMoves ==
  ASSUME TypeInv, NEW p \in Drivers, UNCHANGED workspaces,
         NEW pc \in Pcs, Goto(p, pc),
         pc = "stop" => driver[p].replaces \in Agents,
         pc \in Launching => driver[p].ws \in workspaces
  PROVE  driver' \in [Drivers -> DriverType] /\ LocalsSound'
<1> DEFINE r == [driver[p] EXCEPT !.pc = pc]
<1>1. driver[p] \in DriverType /\ Sound(driver[p], workspaces)
  BY DEF TypeInv, TypeOK, LocalsSound
<1>2. r \in DriverType /\ Sound(r, workspaces')
  BY <1>1, GotoSound
<1>3. driver' = [driver EXCEPT ![p] = r]
  BY DEF Goto
<1> HIDE DEF r
<1>. QED
  BY <1>2, <1>3, Frame

\* An operation that is over, and a process that is.
LEMMA OverMoves ==
  ASSUME TypeInv, NEW p \in Drivers, UNCHANGED workspaces,
         \/ \E pc \in {"cycle", "sweep", "release"} : driver' = [driver EXCEPT ![p] = At(p, pc)]
         \/ Exit(p)
  PROVE  driver' \in [Drivers -> DriverType] /\ LocalsSound'
<1>1. ASSUME NEW pc \in {"cycle", "sweep", "release"},
             driver' = [driver EXCEPT ![p] = At(p, pc)]
      PROVE  driver' \in [Drivers -> DriverType] /\ LocalsSound'
  <2>1. driver[p].epoch \in Nat
    BY DEF TypeInv, TypeOK, DriverType
  <2>2. pc \in Pcs \ (Launching \cup {"stop"})
    BY DEF Pcs, MayFail, Launching
  <2>3. At(p, pc) \in DriverType /\ Sound(At(p, pc), workspaces')
    BY <2>1, <2>2, FreshSound DEF At
  <2>. QED
    BY <1>1, <2>3, Frame
<1>2. CASE Exit(p)
  BY <1>2, OffSound, Frame DEF Exit
<1>. QED
  BY <1>1, <1>2

\* A new workspace is one of those that are left.
LEMMA FreshWorkspaceIsOne ==
  ASSUME Workspaces \ workspaces # {}
  PROVE  FreshWorkspace \in Workspaces \ workspaces
  BY DEF FreshWorkspace

\* One step for each action of a process: the records stay sound.
LEMMA ProcessLocals ==
  ASSUME TypeInv, NEW p \in Drivers, Launch(p) \/ Die(p) \/ Step(p)
  PROVE  driver' \in [Drivers -> DriverType] /\ LocalsSound'
<1> DEFINE Goal == driver' \in [Drivers -> DriverType] /\ LocalsSound'
<1>0. driver[p] \in DriverType /\ Sound(driver[p], workspaces)
  BY DEF TypeInv, TypeOK, LocalsSound
<1>1. CASE Launch(p)
  <2>0. PICK now \in 1 .. MaxEpoch :
          driver' = [driver EXCEPT ![p] = [Off EXCEPT !.pc = "acquire", !.epoch = now]]
    BY <1>1 DEF Launch
  <2> DEFINE r == [Off EXCEPT !.pc = "acquire", !.epoch = now]
  <2>1. now \in Nat
    BY DriverAssumption
  <2>2. "acquire" \in Pcs \ (Launching \cup {"stop"})
    BY DEF Pcs, Launching
  <2>3. r \in DriverType /\ Sound(r, workspaces')
    BY <2>1, <2>2, FreshSound
  <2>4. driver' = [driver EXCEPT ![p] = r] /\ workspaces' = workspaces
    BY <1>1, <2>0 DEF Launch, paseo
  <2> HIDE DEF r
  <2>. QED
    BY <2>3, <2>4, Frame
<1>2. CASE \/ Die(p) \/ Release(p) \/ Fail(p) \/ DriverClaim(p) \/ Install(p)
           \/ Resolve(p) \/ Poll(p)
  <2>1. UNCHANGED workspaces
    BY <1>2 DEF Die, Release, Fail, DriverClaim, Install, Resolve, Poll, OnlyDriver, paseo
  <2>2. \/ \E pc \in {"cycle", "sweep", "release"} : driver' = [driver EXCEPT ![p] = At(p, pc)]
        \/ Exit(p)
    BY <1>2 DEF Die, Release, Fail, DriverClaim, Install, Resolve, Poll, Finish, Abort
  <2>. QED
    BY <2>1, <2>2, OverMoves
<1>3. CASE Acquire(p)
  <2>1. UNCHANGED workspaces
    BY <1>3 DEF Acquire, paseo
  <2>2. CASE Exit(p)
    BY <2>1, <2>2, OverMoves
  <2>3. CASE Goto(p, "cycle")
    BY <2>1, <2>3, GotoMoves DEF Pcs, MayFail, Launching
  <2>. QED
    BY <1>3, <2>2, <2>3 DEF Acquire
<1>4. CASE Cycle(p)
  <2>1. UNCHANGED workspaces
    BY <1>4 DEF Cycle, OnlyDriver, paseo
  <2>2. CASE Exit(p) \/ Finish(p)
    BY <2>1, <2>2, OverMoves DEF Finish
  <2>3. CASE Goto(p, "claim")
    BY <2>1, <2>3, GotoMoves DEF Pcs, MayFail, Launching
  <2>4. CASE driver' = [driver EXCEPT ![p].pc = "get", ![p].replaces = executor]
    <3> DEFINE r == [driver[p] EXCEPT !.pc = "get", !.replaces = executor]
    <3>1. executor \in Agents \cup {None}
      BY DEF TypeInv, TypeOK
    <3>2. r \in DriverType /\ Sound(r, workspaces')
      BY <1>0, <2>1, <3>1 DEF DriverType, Sound, Pcs, MayFail, Launching
    <3>3. driver' = [driver EXCEPT ![p] = r]
      BY <2>4
    <3> HIDE DEF r
    <3>. QED
      BY <2>1, <3>2, <3>3, Frame
  <2>. QED
    BY <1>4, <2>2, <2>3, <2>4 DEF Cycle
<1>5. CASE Get(p) \/ AddWorktree(p) \/ RecordWorktree(p)
  <2>1. UNCHANGED workspaces
    BY <1>5 DEF Get, AddWorktree, RecordWorktree, OnlyDriver, paseo
  <2>2. PICK pc \in {"ls", "add", "poll", "record"} : Goto(p, pc)
    BY <1>5 DEF Get, AddWorktree, RecordWorktree
  <2>. QED
    BY <2>1, <2>2, GotoMoves DEF Pcs, MayFail, Launching
<1>6. CASE Ls(p)
  <2>1. UNCHANGED workspaces
    BY <1>6 DEF Ls, OnlyDriver, paseo
  <2>2. CASE Finish(p)
    BY <2>1, <2>2, OverMoves DEF Finish
  <2>3. CASE Goto(p, IF driver[p].replaces = None THEN "create" ELSE "stop")
    <3>1. driver[p].replaces \in Agents \cup {None}
      BY <1>0 DEF DriverType
    <3>2. CASE driver[p].replaces = None
      BY <2>1, <2>3, <3>2, GotoMoves DEF Pcs, MayFail, Launching
    <3>3. CASE driver[p].replaces \in Agents /\ driver[p].replaces # None
      BY <2>1, <2>3, <3>3, GotoMoves DEF Pcs, MayFail, Launching
    <3>. QED
      BY <3>1, <3>2, <3>3
  <2>. QED
    BY <1>6, <2>2, <2>3 DEF Ls
<1>7. CASE StopReplaced(p)
  BY <1>7, GotoMoves DEF StopReplaced, Pcs, MayFail, Launching
<1>8. CASE CreateWorkspace(p)
  <2> DEFINE r == [driver[p] EXCEPT !.pc = "readNew", !.ws = FreshWorkspace]
  <2>1. FreshWorkspace \in Workspaces \ workspaces
    BY <1>8, FreshWorkspaceIsOne DEF CreateWorkspace
  <2>2. workspaces' = workspaces \cup {FreshWorkspace} /\ driver' = [driver EXCEPT ![p] = r]
    BY <1>8 DEF CreateWorkspace
  <2>3. Sound(driver[p], workspaces')
    BY <1>0, <2>2, Grows
  <2>4. r \in DriverType /\ Sound(r, workspaces')
    BY <1>0, <2>1, <2>2, <2>3 DEF DriverType, Sound, Pcs, MayFail, Launching
  <2> HIDE DEF r
  <2>. QED
    BY <2>2, <2>4, Frame
<1>9. CASE ReadFile(p)
  <2> DEFINE next == IF driver[p].pc = "readNew" THEN "writeNew" ELSE "writeRun"
             r == [driver[p] EXCEPT !.pc = next, !.file = file]
  <2>1. file \in [Workspaces -> EntryStates] /\ Known(file, workspaces)
    BY DEF TypeInv, TypeOK
  <2>2. driver[p].ws \in workspaces /\ next \in {"writeNew", "writeRun"}
    BY <1>0, <1>9 DEF Sound, ReadFile, Launching
  <2>3. workspaces' = workspaces /\ driver' = [driver EXCEPT ![p] = r]
    BY <1>9 DEF ReadFile, OnlyDriver, paseo
  <2> HIDE DEF next
  <2>4. r \in DriverType /\ Sound(r, workspaces')
    BY <1>0, <2>1, <2>2, <2>3 DEF DriverType, Sound, Pcs, MayFail
  <2> HIDE DEF r
  <2>. QED
    BY <2>3, <2>4, Frame
<1>10. CASE WriteFile(p)
  <2>1. driver[p].ws \in workspaces
    BY <1>0, <1>10 DEF Sound, WriteFile, Launching
  <2>2. PICK pc \in {"run", "install"} : Goto(p, pc)
    BY <1>10 DEF WriteFile
  <2>3. workspaces' = workspaces
    BY <1>10 DEF WriteFile, paseo
  <2>. QED
    BY <2>1, <2>2, <2>3, GotoMoves DEF Pcs, MayFail
<1>11. CASE RunAgent(p)
  <2>1. driver[p].ws \in workspaces
    BY <1>0, <1>11 DEF Sound, RunAgent, Launching
  <2>2. workspaces' = workspaces
    BY <1>11 DEF RunAgent
  <2>3. CASE Goto(p, "readRun")
    BY <2>1, <2>2, <2>3, GotoMoves DEF Pcs, MayFail
  <2>4. CASE Abort(p)
    BY <2>2, <2>4, OverMoves DEF Abort
  <2>. QED
    BY <1>11, <2>3, <2>4 DEF RunAgent
<1>12. CASE Sweep(p)
  <2>1. workspaces' = workspaces
    BY <1>12 DEF Sweep, OnlyDriver, paseo
  <2>2. CASE Goto(p, "sweepRead")
    BY <2>1, <2>2, GotoMoves DEF Pcs, Launching
  <2>3. CASE driver' = [driver EXCEPT ![p] = At(p, "cycle")]
    BY <2>1, <2>3, OverMoves
  <2>. QED
    BY <1>12, <2>2, <2>3 DEF Sweep
<1>13. CASE SweepRead(p)
  <2> DEFINE read == [driver[p] EXCEPT !.pc = "archive", !.file = file,
                                       !.todo = PendingArchives(file)]
             unread == [driver[p] EXCEPT !.pc = "resolve", !.failed = TRUE]
  <2>1. workspaces' = workspaces
    BY <1>13 DEF SweepRead, OnlyDriver, paseo
  <2>2. file \in [Workspaces -> EntryStates] /\ Known(file, workspaces)
    BY DEF TypeInv, TypeOK
  <2>3. PendingArchives(file) \subseteq workspaces /\ PendingArchives(file) \subseteq Workspaces
    BY <2>2 DEF PendingArchives, Known
  <2>4. read \in DriverType /\ Sound(read, workspaces')
    BY <1>0, <2>1, <2>2, <2>3 DEF DriverType, Sound, Pcs, MayFail, Launching
  <2>5. unread \in DriverType /\ Sound(unread, workspaces')
    BY <1>0, <2>1 DEF DriverType, Sound, Pcs, MayFail, Launching
  <2>6. driver' = [driver EXCEPT ![p] = read] \/ driver' = [driver EXCEPT ![p] = unread]
    BY <1>13 DEF SweepRead
  <2> HIDE DEF read, unread
  <2>. QED
    BY <2>1, <2>4, <2>5, <2>6, Frame
<1>14. ASSUME NEW w \in Workspaces, NEW ok \in BOOLEAN, Archive(p, w, ok) PROVE Goal
  <2> DEFINE f == Marked(driver[p].file, w, ok)
             r == [driver[p] EXCEPT !.todo = driver[p].todo \ {w},
                                    !.marked = driver[p].marked \/ ok,
                                    !.file = f,
                                    !.failed = driver[p].failed \/ ~ok]
  <2>1. workspaces' = workspaces /\ w \in driver[p].todo
    BY <1>14 DEF Archive
  <2>2. w \in workspaces
    BY <1>0, <2>1 DEF Sound
  <2>3. f \in [Workspaces -> EntryStates] /\ Known(f, workspaces)
    BY <1>0, <2>2 DEF DriverType, Sound, Known, EntryStates, Marked
  <2>4. driver' = [driver EXCEPT ![p] = r]
    BY <1>14 DEF Archive
  <2>5. driver[p].todo \ {w} \subseteq workspaces
    BY <1>0 DEF Sound
  <2> HIDE DEF f
  <2>6. r \in DriverType /\ Sound(r, workspaces')
    BY <1>0, <2>1, <2>3, <2>5 DEF DriverType, Sound
  <2> HIDE DEF r
  <2>. QED
    BY <2>1, <2>4, <2>6, Frame
<1>15. CASE SweepWrite(p)
  BY <1>15, GotoMoves DEF SweepWrite, paseo, Pcs, MayFail, Launching
<1>. QED
  BY <1>1, <1>2, <1>3, <1>4, <1>5, <1>6, <1>7, <1>8, <1>9, <1>10, <1>11, <1>12, <1>13,
     <1>14, <1>15
     DEF Step, TakeoverStep, SweepStep

\* The variables beside driver.
LEMMA ProcessOwnType ==
  ASSUME TypeInv, NEW p \in Drivers, Launch(p) \/ Die(p) \/ Step(p)
  PROVE  OwnType' /\ Known(file, workspaces)'
<1> DEFINE Rest ==
      /\ workspaces \subseteq Workspaces /\ archived \subseteq workspaces
      /\ live \subseteq workspaces /\ file \in [Workspaces -> EntryStates]
      /\ replaced \subseteq Agents /\ late \subseteq Agents /\ Known(file, workspaces)
<1>f. suspect' \in BOOLEAN /\ tree' \in BOOLEAN
  BY DEF TypeInv, TypeOK, Launch, Die, Step, OnlyDriver, Acquire, Cycle, DriverClaim, Fail,
         Release, TakeoverStep, SweepStep, Get, AddWorktree, Poll, RecordWorktree, Ls,
         StopReplaced, CreateWorkspace, ReadFile, WriteFile, RunAgent, Install, Sweep,
         SweepRead, Archive, SweepWrite, Resolve
<1>0. Rest /\ driver[p] \in DriverType /\ Sound(driver[p], workspaces)
  BY DEF TypeInv, TypeOK, LocalsSound
<1>e. driver[p].epoch \in Nat
  BY <1>0 DEF DriverType
<1>c. starts' \in {starts, starts + 1}
  BY DEF Launch, Die, Step, OnlyDriver, Acquire, Cycle, DriverClaim, Fail, Release,
         TakeoverStep, SweepStep, Get, AddWorktree, Poll, RecordWorktree, Ls, StopReplaced,
         CreateWorkspace, ReadFile, WriteFile, RunAgent, Install, Sweep, SweepRead, Archive,
         SweepWrite, Resolve
<1>l. lease' \in {lease, NoLease, driver[p].epoch}
  BY DEF Launch, Die, Step, OnlyDriver, Acquire, Cycle, DriverClaim, Fail, Release,
         TakeoverStep, SweepStep, Get, AddWorktree, Poll, RecordWorktree, Ls, StopReplaced,
         CreateWorkspace, ReadFile, WriteFile, RunAgent, Install, Sweep, SweepRead, Archive,
         SweepWrite, Resolve
<1>n. lease' \in Nat /\ starts' \in Nat
  BY <1>e, <1>c, <1>l DEF TypeInv, TypeOK, NoLease
<1>1. ASSUME Die(p) \/ Cycle(p) \/ Fail(p) \/ DriverClaim(p) \/ Get(p) \/ Poll(p) \/ Ls(p)
             \/ RecordWorktree(p) \/ ReadFile(p) \/ Sweep(p) \/ SweepRead(p) \/ Resolve(p)
             \/ Launch(p) \/ Acquire(p) \/ Release(p) \/ AddWorktree(p) \/ Install(p)
      PROVE  Rest'
  <2>1. UNCHANGED <<paseo, file, ghosts>>
    BY <1>1 DEF Die, Cycle, Fail, DriverClaim, Get, Poll, Ls, RecordWorktree, ReadFile,
                Sweep, SweepRead, Resolve, Launch, Acquire, Release, AddWorktree, Install,
                OnlyDriver
  <2>. QED
    BY <1>0, <2>1 DEF paseo, ghosts
<1>2. ASSUME StopReplaced(p) PROVE Rest'
  <2>1. driver[p].replaces \in Agents
    BY <1>0, <1>2 DEF StopReplaced, Sound
  <2>. QED
    BY <1>0, <1>2, <2>1 DEF StopReplaced
<1>3. ASSUME CreateWorkspace(p) PROVE Rest'
  <2>1. FreshWorkspace \in Workspaces
    BY <1>3, FreshWorkspaceIsOne DEF CreateWorkspace
  <2>. QED
    BY <1>0, <1>3, <2>1 DEF CreateWorkspace, ghosts, Known
<1>4. ASSUME WriteFile(p) PROVE Rest'
  <2>1. driver[p].ws \in workspaces
    BY <1>0, <1>4 DEF Sound, WriteFile, Launching
  <2>2. Known(driver[p].file, workspaces) /\ driver[p].file \in [Workspaces -> EntryStates]
    BY <1>0 DEF Sound, DriverType
  <2>3. file' \in [Workspaces -> EntryStates] /\ Known(file', workspaces)
    BY <1>0, <1>4, <2>1, <2>2 DEF WriteFile, Known, EntryStates
  <2>. QED
    BY <1>0, <1>4, <2>3 DEF WriteFile, paseo, ghosts
<1>5. ASSUME RunAgent(p) PROVE Rest'
  <2>1. driver[p].ws \in workspaces
    BY <1>0, <1>5 DEF Sound, RunAgent, Launching
  <2>. QED
    BY <1>0, <1>5, <2>1 DEF RunAgent, Workspaces
<1>6. ASSUME NEW w \in Workspaces, NEW ok \in BOOLEAN, Archive(p, w, ok) PROVE Rest'
  <2>1. w \in workspaces
    BY <1>0, <1>6 DEF Sound, Archive
  <2>. QED
    BY <1>0, <1>6, <2>1 DEF Archive, ghosts
<1>7. ASSUME SweepWrite(p) PROVE Rest'
  <2>1. Known(driver[p].file, workspaces) /\ driver[p].file \in [Workspaces -> EntryStates]
    BY <1>0 DEF Sound, DriverType
  <2>. QED
    BY <1>0, <1>7, <2>1 DEF SweepWrite, paseo, ghosts
<1>8. Rest'
  BY <1>1, <1>2, <1>3, <1>4, <1>5, <1>6, <1>7
     DEF Step, TakeoverStep, SweepStep
<1>. QED
  BY <1>f, <1>n, <1>8, ProcessLocals DEF OwnType

\* Every step keeps the type invariant.
LEMMA NextTypeInv == TypeInv /\ [DriverNext]_vars => TypeInv'
<1> SUFFICES ASSUME TypeInv, [DriverNext]_vars PROVE TypeInv'
  OBVIOUS
<1>1. CASE Environment
  BY <1>1, EnvironmentTypeInv
<1>2. ASSUME NEW p \in Drivers, Launch(p) \/ Die(p) \/ Step(p) PROVE TypeInv'
  BY <1>2, ProcessLocals, ProcessOwnType, ProcessTaskType, TypePartsNext DEF TypeInv
<1>3. CASE UNCHANGED vars
  BY <1>3 DEF vars, task, paseo, ghosts, TypeInv, TypeOK, LocalsSound
<1>. QED
  BY <1>1, <1>2, <1>3 DEF DriverNext

\* Every variable keeps its shape, and what an operation has put aside is what
\* its later steps take it for.
THEOREM TypeInvariance == DriverSpec => []TypeInv
<1>. QED
  BY InitTypeInv, NextTypeInv, PTL DEF DriverSpec

\* Every variable of the Drivers keeps its shape.
THEOREM TypeCorrectness == DriverSpec => []TypeOK
<1>1. TypeInv => TypeOK
  BY DEF TypeInv
<1>. QED
  BY <1>1, TypeInvariance, PTL

-----------------------------------------------------------------------------
(* The Drivers keep to the protocol of the lease.                            *)

Modes == [p \in Drivers |-> ModeOf[driver[p].pc]]
Epochs == [p \in Drivers |-> driver[p].epoch]

\* The mode of each place in the code.
LEMMA ModeValues ==
  /\ ModeOf["off"] = "off" /\ ModeOf["acquire"] = "acquire"
  /\ ModeOf["release"] = "release" /\ ModeOf["cycle"] = "check"
  /\ \A pc \in Pcs \ {"off", "acquire", "release", "cycle"} : ModeOf[pc] = "work"
  BY DEF ModeOf, Pcs, MayFail

\* What a step of process p does to modes and epochs.
LEMMA ShadowMoves ==
  ASSUME TypeInv, NEW p \in Drivers, NEW r, driver' = [driver EXCEPT ![p] = r]
  PROVE  /\ Modes' = [Modes EXCEPT ![p] = ModeOf[r.pc]]
         /\ Epochs' = [Epochs EXCEPT ![p] = r.epoch]
  BY DEF TypeInv, TypeOK, Modes, Epochs

\* A process that exits does so in ControllerLease.
LEMMA ShadowExit ==
  ASSUME TypeInv, NEW p \in Drivers, Exit(p)
  PROVE  Lease!Exit(p)
<1>1. Off.pc = "off" /\ Off.epoch = 0
  BY DEF Off
<1>2. Modes' = [Modes EXCEPT ![p] = ModeOf[Off.pc]]
      /\ Epochs' = [Epochs EXCEPT ![p] = Off.epoch]
  BY ShadowMoves DEF Exit
<1>3. ModeOf[Off.pc] = "off"
  BY <1>1, ModeValues
<1>. QED
  BY <1>1, <1>2, <1>3 DEF Lease!Exit, Modes, Epochs

\* A move within one operation is no step of the lease, any other one enters
\* another mode.
LEMMA ShadowEnter ==
  ASSUME TypeInv, NEW p \in Drivers, NEW r, driver' = [driver EXCEPT ![p] = r],
         r.epoch = driver[p].epoch
  PROVE  /\ Lease!Enter(p, ModeOf[r.pc])
         /\ ModeOf[r.pc] = ModeOf[driver[p].pc] => UNCHANGED <<Modes, Epochs>>
<1>1. Epochs' = Epochs
  BY ShadowMoves DEF Epochs
<1>2. Modes' = [Modes EXCEPT ![p] = ModeOf[r.pc]]
  BY ShadowMoves
<1>3. Lease!Enter(p, ModeOf[r.pc])
  BY <1>1, <1>2 DEF Lease!Enter, Modes, Epochs
<1>4. ModeOf[r.pc] = ModeOf[driver[p].pc] => Modes' = Modes
  BY <1>2 DEF Modes
<1>. QED
  BY <1>1, <1>3, <1>4

Working == Pcs \ {"off", "acquire", "release", "cycle"}

LeaseStep == UNCHANGED Lease!vars \/ Lease!Next

\* Whatever a step of an operation does beside the lease, it is a step of the
\* lease only if it ends the operation.
LEMMA WorkStep ==
  ASSUME TypeInv, NEW p \in Drivers, driver[p].pc \in Working, UNCHANGED <<lease, starts>>,
         NEW r, driver' = [driver EXCEPT ![p] = r], r.epoch = driver[p].epoch,
         r.pc \in Working \cup {"cycle", "release"}
  PROVE  LeaseStep
<1>1. ModeOf[driver[p].pc] = "work"
  BY ModeValues DEF Working
<1>2. Lease!Enter(p, ModeOf[r.pc])
  BY ShadowEnter
<1>3. CASE r.pc = "cycle"
  <2>1. Lease!Enter(p, "check")
    BY <1>2, <1>3, ModeValues
  <2>2. Lease!Done(p)
    BY <1>1, <2>1 DEF Lease!Done
  <2>. QED
    BY <2>2 DEF LeaseStep, Lease!Next, Lease!Step
<1>4. CASE r.pc = "release"
  <2>1. Lease!Enter(p, "release")
    BY <1>2, <1>4, ModeValues
  <2>2. Lease!GiveUp(p)
    BY <1>1, <2>1 DEF Lease!GiveUp
  <2>. QED
    BY <2>2 DEF LeaseStep, Lease!Next, Lease!Step
<1>5. CASE r.pc \in Working
  <2>1. ModeOf[r.pc] = "work"
    BY <1>5, ModeValues DEF Working
  <2>2. UNCHANGED <<Modes, Epochs>>
    BY <1>1, <2>1, ShadowEnter
  <2>. QED
    BY <2>2 DEF LeaseStep, Lease!vars, Modes, Epochs
<1>. QED
  BY <1>3, <1>4, <1>5

\* The two forms most steps of an operation have.
LEMMA WorkMoves ==
  ASSUME TypeInv, NEW p \in Drivers, driver[p].pc \in Working, UNCHANGED <<lease, starts>>,
         \/ \E pc \in Working : Goto(p, pc)
         \/ \E pc \in {"cycle", "sweep", "release"} : driver' = [driver EXCEPT ![p] = At(p, pc)]
  PROVE  LeaseStep
<1>1. driver[p] \in DriverType
  BY DEF TypeInv, TypeOK
<1>2. ASSUME NEW pc \in Working, Goto(p, pc) PROVE LeaseStep
  <2> DEFINE r == [driver[p] EXCEPT !.pc = pc]
  <2>1. driver' = [driver EXCEPT ![p] = r]
    BY <1>2 DEF Goto
  <2>2. r.pc = pc /\ r.epoch = driver[p].epoch
    BY <1>1 DEF DriverType
  <2> HIDE DEF r
  <2>. QED
    BY <2>1, <2>2, WorkStep
<1>3. ASSUME NEW pc \in {"cycle", "sweep", "release"}, driver' = [driver EXCEPT ![p] = At(p, pc)]
      PROVE  LeaseStep
  <2>1. At(p, pc).pc = pc /\ At(p, pc).epoch = driver[p].epoch
    BY DEF At, Off
  <2>2. pc \in Working \cup {"cycle", "release"}
    BY DEF Working, Pcs, MayFail
  <2>. QED
    BY <1>3, <2>1, <2>2, WorkStep
<1>. QED
  BY <1>2, <1>3

\* One step for each action of a process: what it is in ControllerLease.
LEMMA ProcessLease ==
  ASSUME TypeInv, NEW p \in Drivers, Launch(p) \/ Die(p) \/ Step(p)
  PROVE  LeaseStep
<1> USE DEF Working, Pcs, MayFail
<1>0. /\ driver[p] \in DriverType
      /\ Modes[p] = ModeOf[driver[p].pc] /\ Epochs[p] = driver[p].epoch
  BY DEF TypeInv, TypeOK, Modes, Epochs
<1>1. CASE Launch(p)
  <2>0. PICK now \in 1 .. MaxEpoch :
          driver' = [driver EXCEPT ![p] = [Off EXCEPT !.pc = "acquire", !.epoch = now]]
    BY <1>1 DEF Launch
  <2> DEFINE r == [Off EXCEPT !.pc = "acquire", !.epoch = now]
  <2>1. driver' = [driver EXCEPT ![p] = r]
    BY <2>0
  <2>2. r.pc = "acquire" /\ r.epoch = now
    BY DEF Off
  <2> HIDE DEF r
  <2>r. Modes' = [Modes EXCEPT ![p] = ModeOf[r.pc]] /\ Epochs' = [Epochs EXCEPT ![p] = r.epoch]
    BY <2>1, ShadowMoves
  <2>3. /\ Modes' = [Modes EXCEPT ![p] = "acquire"]
        /\ Epochs' = [Epochs EXCEPT ![p] = now]
    BY <2>2, <2>r, ModeValues
  <2>4. Modes[p] = "off"
    BY <1>0, <1>1, ModeValues DEF Launch
  <2>5. Lease!Launch(p)
    BY <1>1, <2>3, <2>4 DEF Launch, Lease!Launch, Modes, Epochs
  <2>. QED
    BY <2>5 DEF LeaseStep, Lease!Next
<1>2. CASE Die(p)
  <2>1. Modes[p] # "off"
    BY <1>0, <1>2, ModeValues DEF Die, DriverType
  <2>2. Lease!Die(p)
    BY <1>2, <2>1, ShadowExit DEF Die, OnlyDriver, Lease!Die, Modes
  <2>. QED
    BY <2>2 DEF LeaseStep, Lease!Next
<1>3. CASE Acquire(p)
  <2>1. Modes[p] = "acquire"
    BY <1>0, <1>3, ModeValues DEF Acquire
  <2>2. CASE lease > driver[p].epoch
    <3>1. Lease!Exit(p) /\ UNCHANGED <<lease, starts>>
      BY <1>3, <2>2, ShadowExit DEF Acquire
    <3>2. Lease!Acquire(p)
      BY <2>1, <2>2, <3>1 DEF Lease!Acquire, Modes
    <3>. QED
      BY <3>2 DEF LeaseStep, Lease!Next, Lease!Step
  <2>3. CASE ~(lease > driver[p].epoch)
    <3> DEFINE r == [driver[p] EXCEPT !.pc = "cycle"]
    <3>1. driver' = [driver EXCEPT ![p] = r] /\ lease' = driver[p].epoch /\ UNCHANGED starts
      BY <1>3, <2>3 DEF Acquire, Goto
    <3>2. r.pc = "cycle" /\ r.epoch = driver[p].epoch
      BY <1>0 DEF DriverType
    <3> HIDE DEF r
    <3>3. Lease!Enter(p, "check")
      BY <3>1, <3>2, ShadowEnter, ModeValues
    <3>4. lease <= driver[p].epoch
      BY <1>0, <2>3 DEF TypeInv, TypeOK, DriverType
    <3>5. Lease!Acquire(p)
      BY <2>1, <3>1, <3>3, <3>4 DEF Lease!Acquire, Modes
    <3>. QED
      BY <3>5 DEF LeaseStep, Lease!Next, Lease!Step
  <2>. QED
    BY <2>2, <2>3
<1>4. CASE Release(p)
  <2>1. Modes[p] = "release"
    BY <1>0, <1>4, ModeValues DEF Release
  <2>2. Lease!Release(p)
    BY <1>4, <2>1, ShadowExit DEF Release, NoLease, Lease!Release, Lease!NoLease, Modes
  <2>. QED
    BY <2>2 DEF LeaseStep, Lease!Next, Lease!Step
<1>5. CASE Fail(p) /\ driver[p].pc = "cycle"
  <2>1. Modes[p] = "check"
    BY <1>0, <1>5, ModeValues
  <2>2. At(p, "release").pc = "release" /\ At(p, "release").epoch = driver[p].epoch
    BY DEF At, Off
  <2>3. Lease!Enter(p, "release")
    BY <1>5, <2>2, ShadowEnter, ModeValues DEF Fail, Abort
  <2>4. Lease!GiveUp(p)
    BY <1>5, <2>1, <2>3 DEF Fail, OnlyDriver, Lease!GiveUp, Modes
  <2>. QED
    BY <2>4 DEF LeaseStep, Lease!Next, Lease!Step
<1>6. CASE Fail(p) /\ driver[p].pc # "cycle"
  BY <1>6, WorkMoves DEF Fail, Abort, OnlyDriver
<1>7. CASE Cycle(p)
  <2>1. Modes[p] = "check"
    BY <1>0, <1>7, ModeValues DEF Cycle
  <2>2. UNCHANGED <<lease, starts>>
    BY <1>7 DEF Cycle, OnlyDriver
  <2>3. CASE lease # driver[p].epoch
    <3>1. Lease!Exit(p)
      BY <1>7, <2>3, ShadowExit DEF Cycle, StillHoldsLease
    <3>2. Lease!Check(p)
      BY <2>1, <2>2, <2>3, <3>1 DEF Lease!Check, Modes
    <3>. QED
      BY <3>2 DEF LeaseStep, Lease!Next, Lease!Step
  <2>4. CASE lease = driver[p].epoch
    <3>1. ASSUME NEW r, driver' = [driver EXCEPT ![p] = r], r.epoch = driver[p].epoch,
                 r.pc \in {"claim", "get", "sweep"}
          PROVE  LeaseStep
      <4>1. Lease!Enter(p, "work")
        BY <3>1, ShadowEnter, ModeValues
      <4>2. Lease!Check(p)
        BY <2>1, <2>2, <2>4, <4>1 DEF Lease!Check, Modes
      <4>. QED
        BY <4>2 DEF LeaseStep, Lease!Next, Lease!Step
    <3>2. CASE Goto(p, "claim")
      <4> DEFINE r == [driver[p] EXCEPT !.pc = "claim"]
      <4>1. driver' = [driver EXCEPT ![p] = r] /\ r.pc = "claim" /\ r.epoch = driver[p].epoch
        BY <1>0, <3>2 DEF Goto, DriverType
      <4> HIDE DEF r
      <4>. QED
        BY <3>1, <4>1
    <3>3. CASE driver' = [driver EXCEPT ![p].pc = "get", ![p].replaces = executor]
      <4> DEFINE r == [driver[p] EXCEPT !.pc = "get", !.replaces = executor]
      <4>1. driver' = [driver EXCEPT ![p] = r] /\ r.pc = "get" /\ r.epoch = driver[p].epoch
        BY <1>0, <3>3 DEF DriverType
      <4> HIDE DEF r
      <4>. QED
        BY <3>1, <4>1
    <3>4. CASE driver' = [driver EXCEPT ![p] = At(p, "sweep")]
      <4>1. At(p, "sweep").pc = "sweep" /\ At(p, "sweep").epoch = driver[p].epoch
        BY DEF At, Off
      <4>. QED
        BY <3>1, <3>4, <4>1
    <3>5. CASE driver' = [driver EXCEPT ![p] = At(p, "cycle")]
      <4>1. /\ At(p, "cycle").pc = "cycle" /\ At(p, "cycle").epoch = driver[p].epoch
            /\ driver[p].pc = "cycle"
        BY <1>7 DEF At, Off, Cycle
      <4>2. UNCHANGED <<Modes, Epochs>>
        BY <3>5, <4>1, ShadowEnter
      <4>. QED
        BY <2>2, <4>2 DEF LeaseStep, Lease!vars, Modes, Epochs
    <3>. QED
      BY <1>7, <2>4, <3>2, <3>3, <3>4, <3>5 DEF Cycle, StillHoldsLease, Finish
  <2>. QED
    BY <2>3, <2>4
<1>8. CASE DriverClaim(p) \/ Poll(p) \/ Install(p) \/ Resolve(p)
  BY <1>8, WorkMoves DEF DriverClaim, Poll, Install, Resolve, Finish, OnlyDriver
<1>9. CASE Get(p) \/ AddWorktree(p) \/ RecordWorktree(p) \/ StopReplaced(p) \/ WriteFile(p)
           \/ SweepWrite(p)
  <2>1. UNCHANGED <<lease, starts>> /\ driver[p].pc \in Working
    BY <1>9 DEF Get, AddWorktree, RecordWorktree, StopReplaced, WriteFile, SweepWrite,
                OnlyDriver
  <2>2. \E pc \in Working : Goto(p, pc)
    BY <1>9 DEF Get, AddWorktree, RecordWorktree, StopReplaced, WriteFile, SweepWrite
  <2>. QED
    BY <2>1, <2>2, WorkMoves
<1>10. CASE Ls(p)
  <2>1. UNCHANGED <<lease, starts>> /\ driver[p].pc \in Working
    BY <1>10 DEF Ls, OnlyDriver
  <2>2. Finish(p) \/ \E pc \in Working : Goto(p, pc)
    BY <1>10 DEF Ls
  <2>. QED
    BY <2>1, <2>2, WorkMoves DEF Finish
<1>11. CASE RunAgent(p)
  <2>1. UNCHANGED <<lease, starts>> /\ driver[p].pc \in Working
    BY <1>11 DEF RunAgent
  <2>2. Abort(p) \/ \E pc \in Working : Goto(p, pc)
    BY <1>11 DEF RunAgent
  <2>. QED
    BY <2>1, <2>2, WorkMoves DEF Abort
<1>12. CASE Sweep(p)
  <2>1. UNCHANGED <<lease, starts>> /\ driver[p].pc \in Working
    BY <1>12 DEF Sweep, OnlyDriver
  <2>. QED
    BY <1>12, <2>1, WorkMoves DEF Sweep
<1>13. ASSUME \/ CreateWorkspace(p) \/ ReadFile(p) \/ SweepRead(p)
              \/ \E w \in Workspaces, ok \in BOOLEAN : Archive(p, w, ok)
       PROVE  \E r : /\ driver' = [driver EXCEPT ![p] = r] /\ r.epoch = driver[p].epoch
                     /\ r.pc \in Working
  <2>1. CASE CreateWorkspace(p)
    <3> DEFINE r == [driver[p] EXCEPT !.pc = "readNew", !.ws = FreshWorkspace]
    <3>1. driver' = [driver EXCEPT ![p] = r]
      BY <2>1 DEF CreateWorkspace
    <3>2. r.pc = "readNew" /\ r.epoch = driver[p].epoch
      BY <1>0 DEF DriverType
    <3> HIDE DEF r
    <3>. QED
      BY <3>1, <3>2
  <2>2. CASE ReadFile(p)
    <3> DEFINE next == IF driver[p].pc = "readNew" THEN "writeNew" ELSE "writeRun"
               r == [driver[p] EXCEPT !.pc = next, !.file = file]
    <3>1. driver' = [driver EXCEPT ![p] = r]
      BY <2>2 DEF ReadFile
    <3>2. r.pc \in {"writeNew", "writeRun"} /\ r.epoch = driver[p].epoch
      BY <1>0 DEF DriverType
    <3> HIDE DEF r
    <3>. QED
      BY <3>1, <3>2
  <2>3. CASE SweepRead(p)
    <3> DEFINE read == [driver[p] EXCEPT !.pc = "archive", !.file = file,
                                         !.todo = PendingArchives(file)]
               unread == [driver[p] EXCEPT !.pc = "resolve", !.failed = TRUE]
    <3>1. driver' = [driver EXCEPT ![p] = read] \/ driver' = [driver EXCEPT ![p] = unread]
      BY <2>3 DEF SweepRead
    <3>2. /\ read.pc = "archive" /\ read.epoch = driver[p].epoch
          /\ unread.pc = "resolve" /\ unread.epoch = driver[p].epoch
      BY <1>0 DEF DriverType
    <3> HIDE DEF read, unread
    <3>. QED
      BY <3>1, <3>2
  <2>4. ASSUME NEW w \in Workspaces, NEW ok \in BOOLEAN, Archive(p, w, ok)
        PROVE  \E r : /\ driver' = [driver EXCEPT ![p] = r] /\ r.epoch = driver[p].epoch
                      /\ r.pc \in Working
    <3> DEFINE r == [driver[p] EXCEPT !.todo = driver[p].todo \ {w},
                                      !.marked = driver[p].marked \/ ok,
                                      !.file = Marked(driver[p].file, w, ok),
                                      !.failed = driver[p].failed \/ ~ok]
    <3>1. driver' = [driver EXCEPT ![p] = r] /\ driver[p].pc = "archive"
      BY <2>4 DEF Archive
    <3>2. r.pc = driver[p].pc /\ r.epoch = driver[p].epoch
      BY <1>0 DEF DriverType
    <3> HIDE DEF r
    <3>. QED
      BY <3>1, <3>2
  <2>. QED
    BY <1>13, <2>1, <2>2, <2>3, <2>4
<1>14. CASE \/ CreateWorkspace(p) \/ ReadFile(p) \/ SweepRead(p)
            \/ \E w \in Workspaces, ok \in BOOLEAN : Archive(p, w, ok)
  <2>1. UNCHANGED <<lease, starts>> /\ driver[p].pc \in Working
    BY <1>14 DEF CreateWorkspace, ReadFile, SweepRead, Archive, OnlyDriver
  <2>. QED
    BY <1>13, <1>14, <2>1, WorkStep
<1>. QED
  BY <1>1, <1>2, <1>3, <1>4, <1>5, <1>6, <1>7, <1>8, <1>9, <1>10, <1>11, <1>12, <1>14
     DEF Step, TakeoverStep, SweepStep

\* Every step is one of the lease, or none.
LEMMA NextLease == TypeInv /\ [DriverNext]_vars => LeaseStep
<1> SUFFICES ASSUME TypeInv, [DriverNext]_vars PROVE LeaseStep
  OBVIOUS
<1>1. CASE Environment
  <2>1. CASE ForceClear
    BY <2>1 DEF ForceClear, LeaseStep, Lease!Next, Lease!ForceClear, NoLease, Lease!NoLease
  <2>2. CASE UNCHANGED <<lease, starts, driver>>
    BY <2>2 DEF LeaseStep, Lease!vars
  <2>. QED
    BY <1>1, <2>1, <2>2
       DEF Environment, OtherVerb, EndingVerb, Suspect, RemoveTree, AgentEnds
<1>2. ASSUME NEW p \in Drivers, Launch(p) \/ Die(p) \/ Step(p) PROVE LeaseStep
  BY <1>2, ProcessLease
<1>3. CASE UNCHANGED vars
  BY <1>3 DEF vars, LeaseStep, Lease!vars
<1>. QED
  BY <1>1, <1>2, <1>3 DEF DriverNext

\* The initial states are mapped to initial states.
LEMMA InitLease == DriverInit => Lease!Init
  BY ModeValues DEF DriverInit, Lease!Init, NoLease, Lease!NoLease, Off

\* The Drivers implement the protocol of the lease, whatever they are at.
THEOREM LeaseImplemented == DriverSpec => ImplementsLease
<1>1. TypeInv /\ [DriverNext]_vars => UNCHANGED Lease!vars \/ Lease!Next
  BY NextLease DEF LeaseStep
<1>. QED
  BY <1>1, InitLease, TypeInvariance, PTL DEF DriverSpec, ImplementsLease

-----------------------------------------------------------------------------
(* Epochs.  A process that runs keeps the epoch it was started with.          *)

\* Processes that run have different epochs, and none is named by no lease.
EpochsDiffer ==
  /\ \A p \in Drivers : driver[p].pc # "off" => driver[p].epoch # NoLease
  /\ \A p, q \in Drivers :
       driver[p].pc # "off" /\ driver[q].pc # "off" /\ driver[p].epoch = driver[q].epoch
         => p = q

\* The same, as ControllerLease sees it.
ShadowsDiffer ==
  /\ \A p \in Drivers : Modes[p] # "off" => Epochs[p] # NoLease
  /\ \A p, q \in Drivers :
       Modes[p] # "off" /\ Modes[q] # "off" /\ Epochs[p] = Epochs[q] => p = q

\* They say the same.
LEMMA ShadowsAgree == TypeInv => (EpochsDiffer <=> ShadowsDiffer)
<1>1. TypeInv => \A p \in Drivers : /\ Modes[p] = "off" <=> driver[p].pc = "off"
                                    /\ Epochs[p] = driver[p].epoch
  BY ModeValues DEF TypeInv, TypeOK, DriverType, Modes, Epochs
<1>. QED
  BY <1>1 DEF EpochsDiffer, ShadowsDiffer

\* A step of the lease that starts no Driver gives nobody another epoch.
LEMMA StepKeepsEpochs ==
  ASSUME ShadowsDiffer, LeaseStep, UNCHANGED starts, starts \in Nat
  PROVE  ShadowsDiffer'
<1>0. DOMAIN Modes = Drivers /\ DOMAIN Epochs = Drivers
  BY DEF Modes, Epochs
<1>1. CASE UNCHANGED <<Modes, Epochs>>
  <2>1. Modes' = Modes /\ Epochs' = Epochs
    BY <1>1
  <2>. QED
    BY <2>1 DEF ShadowsDiffer
<1>2. ASSUME NEW p \in Drivers, NEW m, NEW e, Modes' = [Modes EXCEPT ![p] = m],
             Epochs' = [Epochs EXCEPT ![p] = e],
             m = "off" \/ (Modes[p] # "off" /\ e = Epochs[p])
      PROVE  ShadowsDiffer'
  <2>1. /\ \A q \in Drivers : Modes'[q] = IF q = p THEN m ELSE Modes[q]
        /\ \A q \in Drivers : Epochs'[q] = IF q = p THEN e ELSE Epochs[q]
    BY <1>0, <1>2
  <2>. QED
    BY <1>2, <2>1 DEF ShadowsDiffer
<1>3. ASSUME NEW p \in Drivers, NEW m, Lease!Enter(p, m), Modes[p] # "off"
      PROVE  ShadowsDiffer'
  <2>1. Modes' = [Modes EXCEPT ![p] = m] /\ Epochs' = Epochs
    BY <1>3 DEF Lease!Enter, Modes, Epochs
  <2>2. Epochs' = [Epochs EXCEPT ![p] = Epochs[p]]
    BY <1>0, <2>1 DEF Epochs
  <2>. QED
    BY <1>2, <1>3, <2>1, <2>2
<1>4. ASSUME NEW p \in Drivers, Lease!Exit(p) PROVE ShadowsDiffer'
  <2>1. Modes' = [Modes EXCEPT ![p] = "off"] /\ Epochs' = [Epochs EXCEPT ![p] = 0]
    BY <1>4 DEF Lease!Exit, Modes, Epochs
  <2>. QED
    BY <1>2, <2>1
<1>5. ASSUME NEW p \in Drivers, Lease!Die(p) \/ Lease!Step(p) PROVE ShadowsDiffer'
  <2>1. Lease!Exit(p) \/ \E m : Lease!Enter(p, m) /\ Modes[p] # "off"
    BY <1>5 DEF Lease!Die, Lease!Step, Lease!Acquire, Lease!Check, Lease!Done,
                Lease!GiveUp, Lease!Release, Modes
  <2>. QED
    BY <1>3, <1>4, <2>1
<1>6. ASSUME NEW p \in Drivers, Lease!Launch(p) PROVE FALSE
  BY <1>6 DEF Lease!Launch
<1>7. UNCHANGED Lease!vars \/ Lease!ForceClear => UNCHANGED <<Modes, Epochs>>
  BY DEF Lease!vars, Lease!ForceClear, Modes, Epochs
<1>. QED
  BY <1>1, <1>5, <1>6, <1>7 DEF LeaseStep, Lease!Next

\* Every step keeps EpochsDiffer, if no Driver is started with the epoch of one
\* that runs.
LEMMA NextEpochs ==
  ASSUME TypeInv, TypeInv', EpochsDiffer, ~Twins, [DriverNext]_vars
  PROVE  EpochsDiffer'
<1>1. ASSUME NEW p \in Drivers, Launch(p) PROVE EpochsDiffer'
  <2>1. PICK now \in 1 .. MaxEpoch :
          /\ now \notin RunningEpochs
          /\ driver' = [driver EXCEPT ![p] = [Off EXCEPT !.pc = "acquire", !.epoch = now]]
    BY <1>1 DEF Launch
  <2>2. driver'[p].epoch = now /\ \A q \in Drivers \ {p} : driver'[q] = driver[q]
    BY <2>1 DEF TypeInv, TypeOK, Off
  <2>3. now # NoLease
    BY DriverAssumption DEF NoLease
  <2>4. \A q \in Drivers : driver[q].pc # "off" => driver[q].epoch # now
    BY <2>1 DEF RunningEpochs
  <2>. QED
    BY <2>2, <2>3, <2>4 DEF EpochsDiffer
<1>2. ASSUME UNCHANGED starts PROVE EpochsDiffer'
  <2>1. LeaseStep
    BY NextLease
  <2>2. ShadowsDiffer /\ starts \in Nat
    BY ShadowsAgree DEF TypeInv, TypeOK
  <2>3. ShadowsDiffer'
    BY <1>2, <2>1, <2>2, StepKeepsEpochs
  <2>4. (EpochsDiffer <=> ShadowsDiffer)'
    BY ShadowsAgree, PTL
  <2>. QED
    BY <2>3, <2>4
<1>3. (\E p \in Drivers : Launch(p)) \/ UNCHANGED starts
  BY DEF DriverNext, vars, Environment, OtherVerb, EndingVerb, Suspect, RemoveTree, ForceClear,
         AgentEnds, Die, Step, OnlyDriver, Acquire, Cycle, DriverClaim, Fail, Release,
         TakeoverStep, SweepStep, Get, AddWorktree, Poll, RecordWorktree, Ls, StopReplaced,
         CreateWorkspace, ReadFile, WriteFile, RunAgent, Install, Sweep, SweepRead, Archive,
         SweepWrite, Resolve
<1>. QED
  BY <1>1, <1>2, <1>3

\* At any time the Drivers that run have epochs of their own.
LEMMA EpochsAlwaysDiffer == ~Twins => (DriverSpec => []EpochsDiffer)
<1> SUFFICES ASSUME ~Twins PROVE DriverSpec => []EpochsDiffer
  OBVIOUS
<1>1. DriverInit => EpochsDiffer
  BY DEF DriverInit, EpochsDiffer, Off
<1>2. TypeInv /\ TypeInv' /\ EpochsDiffer /\ [DriverNext]_vars => EpochsDiffer'
  BY NextEpochs
<1>. QED
  BY <1>1, <1>2, TypeInvariance, PTL DEF DriverSpec

-----------------------------------------------------------------------------
(* One executor.  From the answer of ls to the launch, nobody works on the   *)
(* task but the agent about to be stopped: for the Driver that has the lease *)
(* nothing can spoil what it saw, since whoever else launches does so        *)
(* without the lease.                                                        *)

UnderLease == live \ (replaced \cup late)

\* Past ls and stop, before the agent runs.
Committed == {"create", "readNew", "writeNew", "run"}

\* What a Driver that holds the lease may rely on, r being its record.
Alone(r) ==
  /\ r.pc = "stop" => UnderLease \subseteq {r.replaces}
  /\ r.pc \in Committed => UnderLease = {}

AgentsInv ==
  /\ AtMostOne(UnderLease)
  /\ \A p \in Drivers : lease = driver[p].epoch => Alone(driver[p])

\* A step of a process within its operation, or a step after which the
\* agents are fewer, spoils nothing.
LEMMA FewerAgents ==
  ASSUME TypeInv, AgentsInv, UNCHANGED <<lease, driver>>, UnderLease' \subseteq UnderLease
  PROVE  AgentsInv'
  BY DEF AgentsInv, AtMostOne, Alone

\* A process that goes on, if what its next place promises is true.
LEMMA MoveAlone ==
  ASSUME TypeInv, AgentsInv, NEW p \in Drivers, UnderLease' \subseteq UnderLease,
         UNCHANGED lease, NEW r, driver' = [driver EXCEPT ![p] = r],
         r.epoch = driver[p].epoch,
         lease = driver[p].epoch /\ r.pc = "stop" => UnderLease' \subseteq {r.replaces},
         lease = driver[p].epoch /\ r.pc \in Committed => UnderLease' = {}
  PROVE  AgentsInv'
<1>1. AtMostOne(UnderLease)'
  BY DEF AgentsInv, AtMostOne
<1>2. ASSUME NEW q \in Drivers, lease' = driver'[q].epoch PROVE Alone(driver[q])'
  <2>1. CASE q = p
    <3>1. driver'[q] = r
      BY <2>1 DEF TypeInv, TypeOK
    <3>. QED
      BY <1>2, <3>1 DEF Alone
  <2>2. CASE q # p
    <3>1. driver'[q] = driver[q]
      BY <2>2 DEF TypeInv, TypeOK
    <3>. QED
      BY <1>2, <3>1 DEF Alone, AgentsInv
  <2>. QED
    BY <2>1, <2>2
<1>. QED
  BY <1>1, <1>2 DEF AgentsInv

\* A process that exits or starts, and any change of the lease.
LEMMA LeaseAlone ==
  ASSUME TypeInv, EpochsDiffer, AgentsInv, NEW p \in Drivers, UnderLease' \subseteq UnderLease,
         lease' \in {lease, NoLease, driver[p].epoch}, NEW r, driver' = [driver EXCEPT ![p] = r],
         r.pc \notin Committed \cup {"stop"},
         lease' = lease \/ driver[p].pc # "off"
  PROVE  AgentsInv'
<1>1. AtMostOne(UnderLease)'
  BY DEF AgentsInv, AtMostOne
<1>2. ASSUME NEW q \in Drivers, lease' = driver'[q].epoch PROVE Alone(driver[q])'
  <2>1. CASE q = p
    <3>1. driver'[q] = r
      BY <2>1 DEF TypeInv, TypeOK
    <3>. QED
      BY <3>1 DEF Alone
  <2>2. CASE q # p /\ driver[q].pc \in Committed \cup {"stop"}
    <3>1. driver'[q] = driver[q] /\ driver[q].pc # "off"
      BY <2>2 DEF TypeInv, TypeOK, Committed
    <3>2. lease' = lease
      BY <1>2, <2>2, <3>1 DEF EpochsDiffer
    <3>. QED
      BY <1>2, <3>1, <3>2 DEF Alone, AgentsInv
  <2>3. CASE q # p /\ driver[q].pc \notin Committed \cup {"stop"}
    <3>1. driver'[q] = driver[q]
      BY <2>3 DEF TypeInv, TypeOK
    <3>. QED
      BY <2>3, <3>1 DEF Alone
  <2>. QED
    BY <2>1, <2>2, <2>3
<1>. QED
  BY <1>1, <1>2 DEF AgentsInv

\* The environment launches no agent and gives nobody the lease.
LEMMA EnvironmentAgents ==
  ASSUME TypeInv, EpochsDiffer, AgentsInv, Environment
  PROVE  AgentsInv'
<1>1. CASE ForceClear
  <2>1. UnderLease' = UnderLease /\ driver' = driver /\ lease' = NoLease
    BY <1>1 DEF ForceClear, UnderLease, paseo, ghosts
  <2>2. ASSUME NEW q \in Drivers, lease' = driver'[q].epoch PROVE Alone(driver[q])'
    <3>1. driver[q].pc = "off"
      BY <2>1, <2>2 DEF EpochsDiffer
    <3>. QED
      BY <2>1, <3>1 DEF Alone, Committed
  <2>. QED
    BY <2>1, <2>2 DEF AgentsInv
<1>2. ASSUME NEW a \in Agents, AgentEnds(a) PROVE AgentsInv'
  BY <1>2, FewerAgents DEF AgentEnds, UnderLease, ghosts
<1>3. CASE OtherVerb \/ EndingVerb \/ Suspect \/ RemoveTree
  <2>1. UNCHANGED <<lease, driver>> /\ UnderLease' = UnderLease
    BY <1>3 DEF OtherVerb, EndingVerb, Suspect, RemoveTree, UnderLease, paseo, ghosts
  <2>. QED
    BY <2>1, FewerAgents
<1>. QED
  BY <1>1, <1>2, <1>3 DEF Environment

\* The steps after which the process is neither at stop nor committed.
Uncommitted(p) ==
  \E r : driver' = [driver EXCEPT ![p] = r] /\ r.pc \notin Committed \cup {"stop"}

\* The forms such a step may have.
LEMMA UncommittedSteps ==
  ASSUME TypeInv, NEW p \in Drivers,
         \/ \E pc \in Pcs \ (Committed \cup {"stop"}) : Goto(p, pc)
         \/ \E pc \in {"cycle", "sweep", "release"} : driver' = [driver EXCEPT ![p] = At(p, pc)]
         \/ Exit(p) \/ Launch(p) \/ Cycle(p) \/ SweepRead(p)
         \/ ReadFile(p) /\ driver[p].pc = "readRun"
         \/ \E w \in Workspaces, ok \in BOOLEAN : Archive(p, w, ok)
  PROVE  Uncommitted(p)
<1> USE DEF Committed
<1>0. driver[p] \in DriverType
  BY DEF TypeInv, TypeOK
<1>1. ASSUME NEW pc \in Pcs \ (Committed \cup {"stop"}), Goto(p, pc) PROVE Uncommitted(p)
  <2> DEFINE r == [driver[p] EXCEPT !.pc = pc]
  <2>1. driver' = [driver EXCEPT ![p] = r] /\ r.pc = pc
    BY <1>0, <1>1 DEF Goto, DriverType
  <2> HIDE DEF r
  <2>. QED
    BY <2>1 DEF Uncommitted
<1>2. ASSUME NEW pc \in {"cycle", "sweep", "release"}, driver' = [driver EXCEPT ![p] = At(p, pc)]
      PROVE  Uncommitted(p)
  <2>1. At(p, pc).pc = pc
    BY DEF At, Off
  <2>. QED
    BY <1>2, <2>1 DEF Uncommitted
<1>3. CASE Exit(p)
  <2>1. Off.pc = "off"
    BY DEF Off
  <2>. QED
    BY <1>3, <2>1 DEF Uncommitted, Exit
<1>4. CASE Launch(p)
  <2>0. PICK now \in 1 .. MaxEpoch :
          driver' = [driver EXCEPT ![p] = [Off EXCEPT !.pc = "acquire", !.epoch = now]]
    BY <1>4 DEF Launch
  <2> DEFINE r == [Off EXCEPT !.pc = "acquire", !.epoch = now]
  <2>1. driver' = [driver EXCEPT ![p] = r] /\ r.pc = "acquire"
    BY <2>0 DEF Off
  <2> HIDE DEF r
  <2>. QED
    BY <2>1 DEF Uncommitted
<1>5. CASE Cycle(p)
  <2>1. CASE driver' = [driver EXCEPT ![p].pc = "get", ![p].replaces = executor]
    <3> DEFINE r == [driver[p] EXCEPT !.pc = "get", !.replaces = executor]
    <3>1. driver' = [driver EXCEPT ![p] = r] /\ r.pc = "get"
      BY <1>0, <2>1 DEF DriverType
    <3> HIDE DEF r
    <3>. QED
      BY <3>1 DEF Uncommitted
  <2>2. "claim" \in Pcs \ (Committed \cup {"stop"})
    BY DEF Pcs, MayFail
  <2>. QED
    BY <1>1, <1>2, <1>3, <1>5, <2>1, <2>2 DEF Cycle, Finish
<1>6. CASE SweepRead(p)
  <2> DEFINE read == [driver[p] EXCEPT !.pc = "archive", !.file = file,
                                       !.todo = PendingArchives(file)]
             unread == [driver[p] EXCEPT !.pc = "resolve", !.failed = TRUE]
  <2>1. driver' = [driver EXCEPT ![p] = read] \/ driver' = [driver EXCEPT ![p] = unread]
    BY <1>6 DEF SweepRead
  <2>2. read.pc = "archive" /\ unread.pc = "resolve"
    BY <1>0 DEF DriverType
  <2> HIDE DEF read, unread
  <2>. QED
    BY <2>1, <2>2 DEF Uncommitted
<1>7. CASE ReadFile(p) /\ driver[p].pc = "readRun"
  <2> DEFINE r == [driver[p] EXCEPT !.pc = "writeRun", !.file = file]
  <2>1. driver' = [driver EXCEPT ![p] = r] /\ r.pc = "writeRun"
    BY <1>0, <1>7 DEF ReadFile, DriverType
  <2> HIDE DEF r
  <2>. QED
    BY <2>1 DEF Uncommitted
<1>8. ASSUME NEW w \in Workspaces, NEW ok \in BOOLEAN, Archive(p, w, ok) PROVE Uncommitted(p)
  <2> DEFINE r == [driver[p] EXCEPT !.todo = driver[p].todo \ {w},
                                    !.marked = driver[p].marked \/ ok,
                                    !.file = Marked(driver[p].file, w, ok),
                                    !.failed = driver[p].failed \/ ~ok]
  <2>1. driver' = [driver EXCEPT ![p] = r] /\ driver[p].pc = "archive"
    BY <1>8 DEF Archive
  <2>2. r.pc = driver[p].pc
    BY <1>0 DEF DriverType
  <2> HIDE DEF r
  <2>. QED
    BY <2>1, <2>2 DEF Uncommitted
<1>. QED
  BY <1>1, <1>2, <1>3, <1>4, <1>5, <1>6, <1>7, <1>8

\* What changes the agents, or leads to their change; everything else is as
\* harmless as the steps above.
Critical(p) ==
  \/ Ls(p) /\ ~Finish(p)
  \/ StopReplaced(p)
  \/ CreateWorkspace(p)
  \/ ReadFile(p) /\ driver[p].pc = "readNew"
  \/ WriteFile(p) /\ driver[p].pc = "writeNew"
  \/ RunAgent(p)

\* A harmless step launches nothing and takes the lease for its own process only.
LEMMA HarmlessSteps ==
  ASSUME TypeInv, NEW p \in Drivers, Launch(p) \/ Die(p) \/ Step(p), ~Critical(p)
  PROVE  /\ Uncommitted(p) /\ live' \subseteq live /\ UNCHANGED ghosts
         /\ lease' \in {lease, NoLease, driver[p].epoch}
         /\ lease' = lease \/ driver[p].pc # "off"
<1>1. Uncommitted(p)
  <2>1. \/ \E pc \in Pcs \ (Committed \cup {"stop"}) : Goto(p, pc)
        \/ \E pc \in {"cycle", "sweep", "release"} : driver' = [driver EXCEPT ![p] = At(p, pc)]
        \/ Exit(p) \/ Launch(p) \/ Cycle(p) \/ SweepRead(p)
        \/ ReadFile(p) /\ driver[p].pc = "readRun"
        \/ \E w \in Workspaces, ok \in BOOLEAN : Archive(p, w, ok)
    <3> USE DEF Pcs, MayFail, Committed
    <3>1. CASE Die(p) \/ Acquire(p) \/ Release(p) \/ DriverClaim(p) \/ Fail(p) \/ Poll(p)
               \/ Install(p) \/ Resolve(p) \/ Sweep(p) \/ SweepWrite(p)
      BY <3>1 DEF Die, Acquire, Release, DriverClaim, Fail, Poll, Install, Resolve, Sweep,
                  SweepWrite, Finish, Abort
    <3>2. CASE Get(p) \/ AddWorktree(p) \/ RecordWorktree(p)
      BY <3>2 DEF Get, AddWorktree, RecordWorktree
    <3>3. CASE Ls(p) \/ ReadFile(p) \/ WriteFile(p)
      BY <3>3 DEF Critical, Ls, ReadFile, WriteFile, Finish
    <3>. QED
      BY <3>1, <3>2, <3>3 DEF Critical, Step, TakeoverStep, SweepStep
  <2>. QED
    BY <2>1, UncommittedSteps
<1>2. live' \subseteq live /\ UNCHANGED ghosts
  BY DEF Critical, Launch, Die, Step, OnlyDriver, Acquire, Cycle, DriverClaim, Fail, Release,
         TakeoverStep, SweepStep, Get, AddWorktree, Poll, RecordWorktree, Ls, ReadFile,
         WriteFile, Install, Sweep, SweepRead, Archive, SweepWrite, Resolve, paseo
<1>3. /\ lease' \in {lease, NoLease, driver[p].epoch}
      /\ lease' = lease \/ driver[p].pc # "off"
  BY DEF Critical, Launch, Die, Step, OnlyDriver, Acquire, Cycle, DriverClaim, Fail, Release,
         TakeoverStep, SweepStep, Get, AddWorktree, Poll, RecordWorktree, Ls, ReadFile,
         WriteFile, Install, Sweep, SweepRead, Archive, SweepWrite, Resolve
<1>. QED
  BY <1>1, <1>2, <1>3

\* The records of the critical steps but the launch.
LEMMA CriticalRecords ==
  ASSUME TypeInv, NEW p \in Drivers, Critical(p), ~RunAgent(p)
  PROVE  \E r : /\ driver' = [driver EXCEPT ![p] = r] /\ r.epoch = driver[p].epoch
                /\ r.replaces = driver[p].replaces
                /\ \/ Ls(p) /\ r.pc = (IF r.replaces = None THEN "create" ELSE "stop")
                            /\ (Duplicates(p) = {} \/ ~LsWorks)
                   \/ StopReplaced(p) /\ r.pc = "create"
                   \/ driver[p].pc \in Committed /\ r.pc \in Committed
<1>0. driver[p] \in DriverType
  BY DEF TypeInv, TypeOK
<1>1. CASE Ls(p) /\ ~Finish(p)
  <2> DEFINE next == IF driver[p].replaces = None THEN "create" ELSE "stop"
             r == [driver[p] EXCEPT !.pc = next]
  <2>1. driver' = [driver EXCEPT ![p] = r] /\ (Duplicates(p) = {} \/ ~LsWorks)
    BY <1>1 DEF Ls, Goto
  <2>2. r.pc = next /\ r.epoch = driver[p].epoch /\ r.replaces = driver[p].replaces
    BY <1>0 DEF DriverType
  <2> HIDE DEF r
  <2>. QED
    BY <1>1, <2>1, <2>2
<1>2. CASE StopReplaced(p)
  <2> DEFINE r == [driver[p] EXCEPT !.pc = "create"]
  <2>1. driver' = [driver EXCEPT ![p] = r]
    BY <1>2 DEF StopReplaced, Goto
  <2>2. r.pc = "create" /\ r.epoch = driver[p].epoch /\ r.replaces = driver[p].replaces
    BY <1>0 DEF DriverType
  <2> HIDE DEF r
  <2>. QED
    BY <1>2, <2>1, <2>2
<1>3. CASE CreateWorkspace(p)
  <2> DEFINE r == [driver[p] EXCEPT !.pc = "readNew", !.ws = FreshWorkspace]
  <2>1. driver' = [driver EXCEPT ![p] = r] /\ driver[p].pc = "create"
    BY <1>3 DEF CreateWorkspace
  <2>2. r.pc = "readNew" /\ r.epoch = driver[p].epoch /\ r.replaces = driver[p].replaces
    BY <1>0 DEF DriverType
  <2> HIDE DEF r
  <2>. QED
    BY <2>1, <2>2 DEF Committed
<1>4. CASE ReadFile(p) /\ driver[p].pc = "readNew"
  <2> DEFINE r == [driver[p] EXCEPT !.pc = "writeNew", !.file = file]
  <2>1. driver' = [driver EXCEPT ![p] = r]
    BY <1>4 DEF ReadFile
  <2>2. r.pc = "writeNew" /\ r.epoch = driver[p].epoch /\ r.replaces = driver[p].replaces
    BY <1>0 DEF DriverType
  <2> HIDE DEF r
  <2>. QED
    BY <1>4, <2>1, <2>2 DEF Committed
<1>5. CASE WriteFile(p) /\ driver[p].pc = "writeNew"
  <2> DEFINE r == [driver[p] EXCEPT !.pc = "run"]
  <2>1. driver' = [driver EXCEPT ![p] = r]
    BY <1>5 DEF WriteFile, Goto
  <2>2. r.pc = "run" /\ r.epoch = driver[p].epoch /\ r.replaces = driver[p].replaces
    BY <1>0 DEF DriverType
  <2> HIDE DEF r
  <2>. QED
    BY <1>5, <2>1, <2>2 DEF Committed
<1>. QED
  BY <1>1, <1>2, <1>3, <1>4, <1>5 DEF Critical

\* The critical steps, one by one: what ls saw is what the launch relies on.
LEMMA CriticalAgents ==
  ASSUME TypeInv, EpochsDiffer, AgentsInv, LsWorks, NEW p \in Drivers, Critical(p)
  PROVE  AgentsInv'
<1>0. driver[p] \in DriverType /\ live \subseteq Agents /\ None \notin Agents
  BY TaskRunAssumption DEF TypeInv, TypeOK, Workspaces
<1>1. CASE ~RunAgent(p)
  <2>1. PICK r : /\ driver' = [driver EXCEPT ![p] = r] /\ r.epoch = driver[p].epoch
                 /\ r.replaces = driver[p].replaces
                 /\ \/ Ls(p) /\ r.pc = (IF r.replaces = None THEN "create" ELSE "stop")
                             /\ (Duplicates(p) = {} \/ ~LsWorks)
                    \/ StopReplaced(p) /\ r.pc = "create"
                    \/ driver[p].pc \in Committed /\ r.pc \in Committed
    BY <1>1, CriticalRecords
  <2>2. UNCHANGED lease /\ UnderLease' \subseteq UnderLease
    BY <1>1 DEF Critical, Ls, StopReplaced, CreateWorkspace, ReadFile, WriteFile, OnlyDriver,
                UnderLease, paseo, ghosts
  <2>3. ASSUME lease = driver[p].epoch
        PROVE  /\ r.pc = "stop" => UnderLease' \subseteq {r.replaces}
               /\ r.pc \in Committed => UnderLease' = {}
    <3>1. CASE Ls(p) /\ r.pc = (IF r.replaces = None THEN "create" ELSE "stop")
                     /\ Duplicates(p) = {}
      <4>1. UnderLease \subseteq {r.replaces}
        BY <2>1, <3>1 DEF Duplicates, UnderLease
      <4>2. r.replaces = None => UnderLease = {}
        BY <1>0, <4>1 DEF UnderLease
      <4>. QED
        BY <2>2, <3>1, <4>1, <4>2 DEF Committed
    <3>2. CASE StopReplaced(p) /\ r.pc = "create"
      <4>1. UnderLease \subseteq {driver[p].replaces}
        BY <2>3, <3>2 DEF StopReplaced, AgentsInv, Alone
      <4>2. UnderLease' = {}
        BY <2>2, <3>2, <4>1 DEF StopReplaced, UnderLease
      <4>. QED
        BY <3>2, <4>2
    <3>3. CASE driver[p].pc \in Committed /\ r.pc \in Committed
      <4>1. UnderLease = {}
        BY <2>3, <3>3 DEF AgentsInv, Alone
      <4>. QED
        BY <2>2, <3>3, <4>1 DEF Committed
    <3>. QED
      BY <2>1, <3>1, <3>2, <3>3
  <2>. QED
    BY <2>1, <2>2, <2>3, MoveAlone
<1>2. CASE RunAgent(p)
  <2>1. Uncommitted(p)
    BY <1>2, UncommittedSteps DEF RunAgent, Abort, Pcs, MayFail, Committed
  <2>2. PICK r : driver' = [driver EXCEPT ![p] = r] /\ r.pc \notin Committed \cup {"stop"}
    BY <2>1 DEF Uncommitted
  <2>3. UNCHANGED <<lease, replaced>> /\ live' = live \cup {driver[p].ws}
    BY <1>2 DEF RunAgent
  <2>4. CASE lease # driver[p].epoch
    <3>1. UnderLease' \subseteq UnderLease
      BY <1>2, <2>3, <2>4 DEF RunAgent, UnderLease
    <3>. QED
      BY <2>2, <2>3, <3>1, LeaseAlone
  <2>5. CASE lease = driver[p].epoch
    <3>1. UnderLease = {}
      BY <1>2, <2>5 DEF RunAgent, AgentsInv, Alone, Committed
    <3>2. UnderLease' \subseteq {driver[p].ws}
      BY <1>2, <2>3, <2>5, <3>1 DEF RunAgent, UnderLease
    <3>3. ASSUME NEW q \in Drivers, lease' = driver'[q].epoch PROVE Alone(driver[q])'
      <4>1. CASE q = p
        BY <2>2, <4>1 DEF Alone, TypeInv, TypeOK
      <4>2. CASE q # p
        <5>1. driver'[q] = driver[q] /\ driver[p].pc # "off"
          BY <1>2, <2>2, <4>2 DEF RunAgent, TypeInv, TypeOK
        <5>2. driver[q].pc = "off"
          BY <2>3, <2>5, <3>3, <4>2, <5>1 DEF EpochsDiffer
        <5>. QED
          BY <5>1, <5>2 DEF Alone, Committed
      <4>. QED
        BY <4>1, <4>2
    <3>4. AtMostOne(UnderLease)'
      BY <3>2 DEF AtMostOne
    <3>. QED
      BY <3>3, <3>4 DEF AgentsInv
  <2>. QED
    BY <2>4, <2>5
<1>. QED
  BY <1>1, <1>2

\* Every step keeps AgentsInv.
LEMMA NextAgents ==
  ASSUME TypeInv, EpochsDiffer, AgentsInv, LsWorks, [DriverNext]_vars
  PROVE  AgentsInv'
<1>1. CASE Environment
  BY <1>1, EnvironmentAgents
<1>2. ASSUME NEW p \in Drivers, Launch(p) \/ Die(p) \/ Step(p), ~Critical(p)
      PROVE  AgentsInv'
  <2>1. PICK r : driver' = [driver EXCEPT ![p] = r] /\ r.pc \notin Committed \cup {"stop"}
    BY <1>2, HarmlessSteps DEF Uncommitted
  <2>2. UnderLease' \subseteq UnderLease
    BY <1>2, HarmlessSteps DEF UnderLease, ghosts
  <2>. QED
    BY <1>2, <2>1, <2>2, HarmlessSteps, LeaseAlone
<1>3. ASSUME NEW p \in Drivers, Critical(p) PROVE AgentsInv'
  BY <1>3, CriticalAgents
<1>4. CASE UNCHANGED vars
  BY <1>4, FewerAgents DEF vars, UnderLease, paseo, ghosts
<1>. QED
  BY <1>1, <1>2, <1>3, <1>4 DEF DriverNext

\* At the start there are no agents.
LEMMA InitAgents == DriverInit => AgentsInv
  BY DEF DriverInit, AgentsInv, AtMostOne, UnderLease, Alone, Off, Committed

\* However many Drivers are started, killed and evicted, at whatever call, the
\* agents launched under the lease and not told to stop are never two, as long
\* as paseo ls answers and no Driver is started with the epoch of one that runs.
THEOREM OneAgent == LsWorks /\ ~Twins => (DriverSpec => []OneAgentUnderLease)
<1> SUFFICES ASSUME LsWorks, ~Twins PROVE DriverSpec => []OneAgentUnderLease
  OBVIOUS
<1>1. AgentsInv => OneAgentUnderLease
  BY DEF AgentsInv, OneAgentUnderLease, UnderLease
<1>2. TypeInv /\ EpochsDiffer /\ AgentsInv /\ [DriverNext]_vars => AgentsInv'
  BY NextAgents
<1>. QED
  BY <1>1, <1>2, InitAgents, TypeInvariance, EpochsAlwaysDiffer, PTL DEF DriverSpec

-----------------------------------------------------------------------------
(* One slot for Driver processes: the same, without regard to the lease.     *)

OneSlot == \A p, q \in Drivers : p = q

AtWork == live \ replaced

SoloAlone(r) ==
  /\ r.pc = "stop" => AtWork \subseteq {r.replaces}
  /\ r.pc \in Committed => AtWork = {}

SoloInv == AtMostOne(AtWork) /\ \A p \in Drivers : SoloAlone(driver[p])

\* Every step keeps SoloInv: with one slot whoever acts is alone.
LEMMA NextSolo ==
  ASSUME TypeInv, OneSlot, LsWorks, SoloInv, [DriverNext]_vars
  PROVE  SoloInv'
<1>1. CASE UNCHANGED driver /\ AtWork' \subseteq AtWork
  BY <1>1 DEF SoloInv, SoloAlone, AtMostOne
<1>2. CASE Environment
  BY <1>1, <1>2 DEF Environment, OtherVerb, EndingVerb, Suspect, RemoveTree, ForceClear,
                    AgentEnds, AtWork, paseo, ghosts
<1>3. CASE UNCHANGED vars
  BY <1>1, <1>3 DEF vars, AtWork, paseo, ghosts
<1>4. ASSUME NEW p \in Drivers, NEW r, driver' = [driver EXCEPT ![p] = r],
             AtMostOne(AtWork)', SoloAlone(r)'
      PROVE  SoloInv'
  <2>1. \A q \in Drivers : driver'[q] = r
    BY <1>4 DEF OneSlot, TypeInv, TypeOK
  <2>. QED
    BY <1>4, <2>1 DEF SoloInv, SoloAlone
<1>5. ASSUME NEW p \in Drivers, NEW r, driver' = [driver EXCEPT ![p] = r],
             r.pc \notin Committed \cup {"stop"}, AtMostOne(AtWork)'
      PROVE  SoloInv'
  <2>1. \A q \in Drivers : driver'[q] = r
    BY <1>5 DEF OneSlot, TypeInv, TypeOK
  <2>. QED
    BY <1>5, <2>1 DEF SoloInv, SoloAlone
<1>6. ASSUME NEW p \in Drivers, Launch(p) \/ Die(p) \/ Step(p), ~Critical(p)
      PROVE  SoloInv'
  <2>1. PICK r : driver' = [driver EXCEPT ![p] = r] /\ r.pc \notin Committed \cup {"stop"}
    BY <1>6, HarmlessSteps DEF Uncommitted
  <2>2. AtWork' \subseteq AtWork
    BY <1>6, HarmlessSteps DEF AtWork, ghosts
  <2>3. AtMostOne(AtWork)'
    BY <2>2 DEF SoloInv, AtMostOne
  <2>. QED
    BY <1>5, <2>1, <2>3
<1>7. ASSUME NEW p \in Drivers, Critical(p), ~RunAgent(p) PROVE SoloInv'
  <2>0. live \subseteq Agents /\ None \notin Agents
    BY TaskRunAssumption DEF TypeInv, TypeOK, Workspaces
  <2>1. PICK r : /\ driver' = [driver EXCEPT ![p] = r] /\ r.epoch = driver[p].epoch
                 /\ r.replaces = driver[p].replaces
                 /\ \/ Ls(p) /\ r.pc = (IF r.replaces = None THEN "create" ELSE "stop")
                             /\ (Duplicates(p) = {} \/ ~LsWorks)
                    \/ StopReplaced(p) /\ r.pc = "create"
                    \/ driver[p].pc \in Committed /\ r.pc \in Committed
    BY <1>7, CriticalRecords
  <2>2. AtWork' \subseteq AtWork
    BY <1>7 DEF Critical, Ls, StopReplaced, CreateWorkspace, ReadFile, WriteFile, OnlyDriver,
                AtWork, paseo, ghosts
  <2>3. SoloAlone(driver[p]) /\ AtMostOne(AtWork)'
    BY <2>2 DEF SoloInv, AtMostOne
  <2>4. SoloAlone(r)'
    <3>1. CASE Ls(p) /\ r.pc = (IF r.replaces = None THEN "create" ELSE "stop")
                     /\ Duplicates(p) = {}
      <4>1. AtWork \subseteq {r.replaces}
        BY <2>1, <3>1 DEF Duplicates, AtWork
      <4>2. r.replaces = None => AtWork = {}
        BY <2>0, <4>1 DEF AtWork
      <4>. QED
        BY <2>2, <3>1, <4>1, <4>2 DEF SoloAlone, Committed
    <3>2. CASE StopReplaced(p) /\ r.pc = "create"
      <4>1. AtWork \subseteq {driver[p].replaces}
        BY <2>3, <3>2 DEF StopReplaced, SoloAlone
      <4>2. AtWork' = {}
        BY <2>2, <3>2, <4>1 DEF StopReplaced, AtWork
      <4>. QED
        BY <3>2, <4>2 DEF SoloAlone
    <3>3. CASE driver[p].pc \in Committed /\ r.pc \in Committed
      <4>1. AtWork = {}
        BY <2>3, <3>3 DEF SoloAlone
      <4>. QED
        BY <2>2, <3>3, <4>1 DEF SoloAlone, Committed
    <3>. QED
      BY <2>1, <3>1, <3>2, <3>3
  <2>. QED
    BY <1>4, <2>1, <2>3, <2>4
<1>8. ASSUME NEW p \in Drivers, RunAgent(p) PROVE SoloInv'
  <2>1. PICK r : driver' = [driver EXCEPT ![p] = r] /\ r.pc \notin Committed \cup {"stop"}
    BY <1>8, UncommittedSteps DEF RunAgent, Abort, Pcs, MayFail, Committed, Uncommitted
  <2>2. AtWork = {}
    BY <1>8 DEF RunAgent, SoloInv, SoloAlone, Committed
  <2>3. AtWork' \subseteq {driver[p].ws}
    BY <1>8, <2>2 DEF RunAgent, AtWork
  <2>. QED
    BY <1>5, <2>1, <2>3 DEF AtMostOne
<1>. QED
  BY <1>2, <1>3, <1>6, <1>7, <1>8 DEF DriverNext

\* At the start there are no agents.
LEMMA InitSolo == DriverInit => SoloInv
  BY DEF DriverInit, SoloInv, AtMostOne, AtWork, SoloAlone, Off, Committed

\* One Driver at a time, killed and started again between whichever calls,
\* never has two agents at work, lease or no lease.
THEOREM OneAgentOneDriver == LsWorks /\ OneSlot => (DriverSpec => []OneAgentAtWork)
<1> SUFFICES ASSUME LsWorks, OneSlot PROVE DriverSpec => []OneAgentAtWork
  OBVIOUS
<1>1. SoloInv => OneAgentAtWork
  BY DEF SoloInv, OneAgentAtWork, AtWork
<1>2. TypeInv /\ SoloInv /\ [DriverNext]_vars => SoloInv'
  BY NextSolo
<1>. QED
  BY <1>1, <1>2, InitSolo, TypeInvariance, PTL DEF DriverSpec

-----------------------------------------------------------------------------
(* One slot for Driver processes: paseo-workspace.json.  The file is read and *)
(* replaced in two steps; with one process whatever it has read is still what *)
(* the file says when it writes.                                              *)

\* What the locals of the one process are worth: the workspace it launches in is
\* recorded, its copy of the file forgets no entry, and a sweep without a failed
\* archive has left nothing pending but what it has still to do.
FilesKept(r) ==
  /\ r.pc \in {"run", "readRun", "writeRun", "install"} => file[r.ws] # "none"
  /\ r.pc \in {"writeNew", "writeRun", "archive"} =>
       \A w \in Workspaces : file[w] # "none" => r.file[w] # "none"
  /\ r.pc = "archive" =>
       /\ ~r.failed => PendingArchives(r.file) \subseteq r.todo
       /\ ~r.marked => r.file = file
  /\ r.pc = "resolve" /\ ~r.failed => PendingArchives(file) = {}

FilesInv == LaunchedIsRecorded /\ \A p \in Drivers : FilesKept(driver[p])

\* The places where a process has nothing at stake in the file.
Idle == {"off", "acquire", "cycle", "release", "claim", "get", "add", "poll", "record",
         "ls", "stop", "create", "readNew", "sweep", "sweepRead"}

\* A process that goes on keeps its locals.
LEMMA GotoRecord ==
  ASSUME TypeInv, NEW p \in Drivers, NEW pc, Goto(p, pc)
  PROVE  \E r : /\ driver' = [driver EXCEPT ![p] = r] /\ r.pc = pc
                /\ r.ws = driver[p].ws /\ r.file = driver[p].file
                /\ r.todo = driver[p].todo /\ r.failed = driver[p].failed
<1> DEFINE r == [driver[p] EXCEPT !.pc = pc]
<1>1. driver[p] \in DriverType
  BY DEF TypeInv, TypeOK
<1>2. /\ driver' = [driver EXCEPT ![p] = r] /\ r.pc = pc
      /\ r.ws = driver[p].ws /\ r.file = driver[p].file
      /\ r.todo = driver[p].todo /\ r.failed = driver[p].failed
  BY <1>1 DEF Goto, DriverType
<1> HIDE DEF r
<1>. QED
  BY <1>2

\* The steps that neither write the file nor launch, and do not depend on it.
IdleStep(p) ==
  \/ Launch(p) \/ Die(p) \/ Acquire(p) \/ Cycle(p) \/ DriverClaim(p) \/ Fail(p)
  \/ Release(p) \/ Get(p) \/ AddWorktree(p) \/ Poll(p) \/ RecordWorktree(p) \/ Ls(p)
  \/ StopReplaced(p) \/ CreateWorkspace(p) \/ Install(p) \/ Sweep(p) \/ Resolve(p)

\* A Driver between its calls touches no task file and launches nothing.
LEMMA IdleSteps ==
  ASSUME TypeInv, NEW p \in Drivers, IdleStep(p)
  PROVE  /\ \E r : driver' = [driver EXCEPT ![p] = r] /\ r.pc \in Idle
         /\ file' = file /\ live' \subseteq live
<1>1. file' = file /\ live' \subseteq live
  BY DEF IdleStep, Launch, Die, OnlyDriver, Acquire, Cycle, DriverClaim, Fail, Release, Get,
         AddWorktree, Poll, RecordWorktree, Ls, StopReplaced, CreateWorkspace, Install, Sweep,
         Resolve, paseo
<1>2. driver[p] \in DriverType
  BY DEF TypeInv, TypeOK
<1>3. ASSUME NEW pc \in Idle, Goto(p, pc)
      PROVE  \E r : driver' = [driver EXCEPT ![p] = r] /\ r.pc \in Idle
  BY <1>3, GotoRecord
<1>4. ASSUME NEW pc \in {"cycle", "sweep", "release"}, driver' = [driver EXCEPT ![p] = At(p, pc)]
      PROVE  \E r : driver' = [driver EXCEPT ![p] = r] /\ r.pc \in Idle
  <2>1. At(p, pc).pc \in Idle
    BY DEF At, Off, Idle
  <2>. QED
    BY <1>4, <2>1
<1>5. ASSUME Exit(p) PROVE \E r : driver' = [driver EXCEPT ![p] = r] /\ r.pc \in Idle
  <2>1. Off.pc \in Idle
    BY DEF Off, Idle
  <2>. QED
    BY <1>5, <2>1 DEF Exit
<1>6. CASE Launch(p)
  <2>0. PICK now \in 1 .. MaxEpoch :
          driver' = [driver EXCEPT ![p] = [Off EXCEPT !.pc = "acquire", !.epoch = now]]
    BY <1>6 DEF Launch
  <2> DEFINE r == [Off EXCEPT !.pc = "acquire", !.epoch = now]
  <2>1. driver' = [driver EXCEPT ![p] = r] /\ r.pc \in Idle
    BY <2>0 DEF Off, Idle
  <2> HIDE DEF r
  <2>. QED
    BY <1>1, <2>1
<1>7. CASE CreateWorkspace(p)
  <2> DEFINE r == [driver[p] EXCEPT !.pc = "readNew", !.ws = FreshWorkspace]
  <2>1. driver' = [driver EXCEPT ![p] = r] /\ r.pc \in Idle
    BY <1>2, <1>7 DEF CreateWorkspace, DriverType, Idle
  <2> HIDE DEF r
  <2>. QED
    BY <1>1, <2>1
<1>8. CASE Cycle(p)
  <2>1. CASE driver' = [driver EXCEPT ![p].pc = "get", ![p].replaces = executor]
    <3> DEFINE r == [driver[p] EXCEPT !.pc = "get", !.replaces = executor]
    <3>1. driver' = [driver EXCEPT ![p] = r] /\ r.pc \in Idle
      BY <1>2, <2>1 DEF DriverType, Idle
    <3> HIDE DEF r
    <3>. QED
      BY <1>1, <3>1
  <2>2. "claim" \in Idle
    BY DEF Idle
  <2>. QED
    BY <1>1, <1>3, <1>4, <1>5, <1>8, <2>1, <2>2 DEF Cycle, Finish
<1>9. CASE \/ Die(p) \/ Acquire(p) \/ DriverClaim(p) \/ Fail(p) \/ Release(p) \/ Poll(p)
           \/ Install(p) \/ Resolve(p)
  <2>1. "cycle" \in Idle
    BY DEF Idle
  <2>. QED
    BY <1>1, <1>3, <1>4, <1>5, <1>9, <2>1 DEF Die, Acquire, DriverClaim, Fail, Release, Poll,
       Install, Resolve, Finish, Abort
<1>10. CASE \/ Get(p) \/ AddWorktree(p) \/ RecordWorktree(p) \/ StopReplaced(p)
  <2>1. {"ls", "add", "poll", "record", "create"} \subseteq Idle
    BY DEF Idle
  <2>. QED
    BY <1>1, <1>3, <1>10, <2>1 DEF Get, AddWorktree, RecordWorktree, StopReplaced
<1>11. CASE Ls(p) \/ Sweep(p)
  <2>1. {"create", "stop", "sweepRead"} \subseteq Idle
    BY DEF Idle
  <2>. QED
    BY <1>1, <1>3, <1>4, <1>11, <2>1 DEF Ls, Sweep, Finish
<1>. QED
  BY <1>6, <1>7, <1>8, <1>9, <1>10, <1>11 DEF IdleStep

\* Every step keeps FilesInv: with one slot nobody else writes the file.
LEMMA NextFiles ==
  ASSUME TypeInv, OneSlot, FilesInv, [DriverNext]_vars
  PROVE  FilesInv'
<1>1. ASSUME UNCHANGED <<driver, file>>, live' \subseteq live PROVE FilesInv'
  BY <1>1 DEF FilesInv, LaunchedIsRecorded, FilesKept, PendingArchives
<1>2. CASE Environment
  BY <1>1, <1>2 DEF Environment, OtherVerb, EndingVerb, Suspect, RemoveTree, ForceClear,
     AgentEnds, paseo
<1>3. CASE UNCHANGED vars
  BY <1>1, <1>3 DEF vars, paseo
<1>4. ASSUME NEW p \in Drivers, NEW r, driver' = [driver EXCEPT ![p] = r],
             LaunchedIsRecorded', FilesKept(r)'
      PROVE  FilesInv'
  <2>1. \A q \in Drivers : driver'[q] = r
    BY <1>4 DEF OneSlot, TypeInv, TypeOK
  <2>. QED
    BY <1>4, <2>1 DEF FilesInv, FilesKept
<1>5. ASSUME NEW p \in Drivers, Launch(p) \/ Die(p) \/ Step(p) PROVE FilesInv'
  <2>1. /\ driver[p] \in DriverType /\ FilesKept(driver[p]) /\ LaunchedIsRecorded
        /\ Sound(driver[p], workspaces) /\ live \subseteq Workspaces
        /\ file \in [Workspaces -> EntryStates]
        /\ workspaces \subseteq Workspaces /\ Workspaces = Agents
    BY DEF TypeInv, TypeOK, LocalsSound, FilesInv, Workspaces
  <2>2. CASE IdleStep(p)
    <3>1. PICK r : driver' = [driver EXCEPT ![p] = r] /\ r.pc \in Idle
      BY <2>2, IdleSteps
    <3>2. file' = file /\ live' \subseteq live
      BY <2>2, IdleSteps
    <3>3. FilesKept(r)'
      BY <3>1 DEF FilesKept, Idle
    <3>. QED
      BY <1>4, <2>1, <3>1, <3>2, <3>3 DEF LaunchedIsRecorded
  <2>3. CASE ReadFile(p)
    <3> DEFINE pc == IF driver[p].pc = "readNew" THEN "writeNew" ELSE "writeRun"
               s == [driver[p] EXCEPT !.pc = pc, !.file = file]
    <3>1. driver' = [driver EXCEPT ![p] = s] /\ driver[p].pc \in {"readNew", "readRun"}
      BY <2>3 DEF ReadFile
    <3>2. s.pc = pc /\ s.file = file /\ s.ws = driver[p].ws
      BY <2>1 DEF DriverType
    <3> HIDE DEF s
    <3>3. PICK r : /\ driver' = [driver EXCEPT ![p] = r] /\ r.pc = pc /\ r.file = file
                   /\ r.ws = driver[p].ws
      BY <3>1, <3>2
    <3>4. UNCHANGED <<file, live>>
      BY <2>3 DEF ReadFile, OnlyDriver, paseo
    <3>5. FilesKept(r)'
      BY <2>1, <3>1, <3>3, <3>4 DEF FilesKept
    <3>. QED
      BY <1>4, <2>1, <3>3, <3>4, <3>5 DEF LaunchedIsRecorded
  <2>4. CASE WriteFile(p)
    <3>1. /\ driver[p].pc \in {"writeNew", "writeRun"}
          /\ file' = [driver[p].file EXCEPT ![driver[p].ws] = "pending"]
          /\ UNCHANGED live
      BY <2>4 DEF WriteFile, paseo
    <3>2. PICK r : /\ driver' = [driver EXCEPT ![p] = r] /\ r.pc \in {"run", "install"}
                   /\ r.ws = driver[p].ws
      BY <2>4, GotoRecord DEF WriteFile
    <3>3. driver[p].ws \in Workspaces /\ driver[p].file \in [Workspaces -> EntryStates]
      BY <2>1, <3>1 DEF Sound, Launching, DriverType
    <3>4. \A w \in Workspaces : file[w] # "none" => file'[w] # "none"
      BY <2>1, <3>1, <3>3 DEF FilesKept
    <3>5. FilesKept(r)' /\ LaunchedIsRecorded'
      BY <2>1, <3>1, <3>2, <3>3, <3>4 DEF FilesKept, LaunchedIsRecorded
    <3>. QED
      BY <1>4, <3>2, <3>5
  <2>5. CASE RunAgent(p)
    <3>1. /\ driver[p].pc = "run" /\ live' = live \cup {driver[p].ws} /\ UNCHANGED file
      BY <2>5 DEF RunAgent
    <3>2. PICK r : /\ driver' = [driver EXCEPT ![p] = r] /\ r.pc \in {"readRun", "release"}
                   /\ r.pc = "readRun" => r.ws = driver[p].ws
      <4>1. At(p, "release").pc = "release"
        BY DEF At, Off
      <4>. QED
        BY <2>5, <4>1, GotoRecord DEF RunAgent, Abort
    <3>. QED
      BY <1>4, <2>1, <3>1, <3>2 DEF FilesKept, LaunchedIsRecorded
  <2>6. CASE SweepRead(p)
    <3> DEFINE read == [driver[p] EXCEPT !.pc = "archive", !.file = file,
                                         !.todo = PendingArchives(file)]
               unread == [driver[p] EXCEPT !.pc = "resolve", !.failed = TRUE]
    <3>1. driver' = [driver EXCEPT ![p] = read] \/ driver' = [driver EXCEPT ![p] = unread]
      BY <2>6 DEF SweepRead
    <3>2. /\ read.pc = "archive" /\ read.file = file /\ read.todo = PendingArchives(file)
          /\ unread.pc = "resolve" /\ unread.failed
      BY <2>1 DEF DriverType
    <3> HIDE DEF read, unread
    <3>3. PICK r : /\ driver' = [driver EXCEPT ![p] = r]
                   /\ \/ r.pc = "archive" /\ r.file = file /\ r.todo = PendingArchives(file)
                      \/ r.pc = "resolve" /\ r.failed
      BY <3>1, <3>2
    <3>4. UNCHANGED <<file, live>>
      BY <2>6 DEF SweepRead, OnlyDriver, paseo
    <3>5. FilesKept(r)'
      BY <3>3, <3>4 DEF FilesKept, PendingArchives
    <3>. QED
      BY <1>4, <2>1, <3>3, <3>4, <3>5 DEF LaunchedIsRecorded
  <2>7. ASSUME NEW w \in Workspaces, NEW ok \in BOOLEAN, Archive(p, w, ok) PROVE FilesInv'
    <3> DEFINE s == [driver[p] EXCEPT !.todo = driver[p].todo \ {w},
                                      !.marked = driver[p].marked \/ ok,
                                      !.file = Marked(driver[p].file, w, ok),
                                      !.failed = driver[p].failed \/ ~ok]
    <3>1. /\ driver' = [driver EXCEPT ![p] = s] /\ driver[p].pc = "archive"
          /\ w \in driver[p].todo /\ UNCHANGED file /\ live' \subseteq live
      BY <2>7 DEF Archive
    <3>2. /\ s.pc = "archive" /\ s.todo = driver[p].todo \ {w}
          /\ s.marked = (driver[p].marked \/ ok) /\ s.file = Marked(driver[p].file, w, ok)
          /\ s.failed = (driver[p].failed \/ ~ok)
      BY <2>1, <3>1 DEF DriverType
    <3> HIDE DEF s
    <3>3. PICK r : /\ driver' = [driver EXCEPT ![p] = r]
                   /\ r.pc = "archive" /\ r.todo = driver[p].todo \ {w}
                   /\ r.marked = (driver[p].marked \/ ok)
                   /\ r.file = Marked(driver[p].file, w, ok)
                   /\ r.failed = (driver[p].failed \/ ~ok)
      BY <3>1, <3>2
    <3>4. /\ \A v \in Workspaces : driver[p].file[v] # "none" => r.file[v] # "none"
          /\ ok => PendingArchives(r.file) \subseteq PendingArchives(driver[p].file) \ {w}
          /\ ~ok => r.file = driver[p].file
      BY <2>1, <3>3 DEF Marked, PendingArchives, DriverType
    <3>5. FilesKept(r)'
      BY <2>1, <3>1, <3>3, <3>4 DEF FilesKept
    <3>. QED
      BY <1>4, <2>1, <3>1, <3>3, <3>5 DEF LaunchedIsRecorded
  <2>8. CASE SweepWrite(p)
    <3>1. /\ driver[p].pc = "archive" /\ driver[p].todo = {} /\ UNCHANGED live
          /\ file' = IF driver[p].marked THEN driver[p].file ELSE file
      BY <2>8 DEF SweepWrite, paseo
    <3>2. PICK r : /\ driver' = [driver EXCEPT ![p] = r] /\ r.pc = "resolve"
                   /\ r.failed = driver[p].failed
      BY <2>8, GotoRecord DEF SweepWrite
    <3>3. file' = driver[p].file
      BY <2>1, <3>1 DEF FilesKept
    <3>4. FilesKept(r)'
      BY <2>1, <3>1, <3>2, <3>3 DEF FilesKept, PendingArchives
    <3>5. LaunchedIsRecorded'
      BY <2>1, <3>1, <3>3 DEF FilesKept, LaunchedIsRecorded
    <3>. QED
      BY <1>4, <3>2, <3>4, <3>5
  <2>. QED
    BY <1>5, <2>2, <2>3, <2>4, <2>5, <2>6, <2>7, <2>8 DEF IdleStep, Step, TakeoverStep, SweepStep
<1>. QED
  BY <1>2, <1>3, <1>5 DEF DriverNext

\* At the start nothing is launched.
LEMMA InitFiles == DriverInit => FilesInv
  BY DEF DriverInit, FilesInv, LaunchedIsRecorded, FilesKept, Off

\* With one Driver at a time FilesInv holds however often it is killed.
LEMMA FilesAlwaysKept == OneSlot => (DriverSpec => []FilesInv)
<1> SUFFICES ASSUME OneSlot PROVE DriverSpec => []FilesInv
  OBVIOUS
<1>1. TypeInv /\ FilesInv /\ [DriverNext]_vars => FilesInv'
  BY NextFiles
<1>. QED
  BY <1>1, InitFiles, TypeInvariance, PTL DEF DriverSpec

\* One Driver at a time leaves no agent alive that a later sweep would not find,
\* whatever the takeover died of.
THEOREM LaunchedRecorded == OneSlot => (DriverSpec => []LaunchedIsRecorded)
<1> SUFFICES ASSUME OneSlot PROVE DriverSpec => []LaunchedIsRecorded
  OBVIOUS
<1>1. FilesInv => LaunchedIsRecorded
  BY DEF FilesInv
<1>. QED
  BY <1>1, FilesAlwaysKept, PTL

\* A cleanup intent disappears by a resolve only.
LEMMA IntentStays ==
  ASSUME TypeInv, [DriverNext]_vars, intent # NoIntent, intent' = NoIntent
  PROVE  \E p \in Drivers : Resolve(p) /\ ~driver[p].failed
<1>1. intent \in Nat
  BY DEF TypeInv, TypeOK
<1>2. ~UNCHANGED intent
  OBVIOUS
<1>3. ~Environment /\ ~UNCHANGED vars
  BY <1>2 DEF Environment, OtherVerb, EndingVerb, Suspect, RemoveTree, ForceClear, AgentEnds,
     Approve, Claim, StartFinishing, Restore, Withdraw, EndRun, Drop, Retire, Leave,
     RequestedIntent, task, vars
<1>4. PICK p \in Drivers : Launch(p) \/ Die(p) \/ Step(p)
  BY <1>3 DEF DriverNext
<1>5. Resolve(p)
  BY <1>2, <1>4 DEF Launch, Die, Step, OnlyDriver, Acquire, Cycle, DriverClaim, Claim, Fail,
     Release, TakeoverStep, SweepStep, Get, AddWorktree, Poll, RecordWorktree, SetWorktree, Ls,
     StopReplaced, CreateWorkspace, ReadFile, WriteFile, RunAgent, Install, SetExecutor, Sweep,
     SweepRead, Archive, SweepWrite, task
<1>6. ~driver[p].failed
  BY <1>1, <1>5 DEF Resolve, CleanupResolve, NoIntent
<1>. QED
  BY <1>5, <1>6

\* One Driver at a time forgets a cleanup only when nothing is left to archive.
THEOREM ResolvedArchived == OneSlot => (DriverSpec => ResolvedIsArchived)
<1> SUFFICES ASSUME OneSlot PROVE DriverSpec => ResolvedIsArchived
  OBVIOUS
<1>1. TypeInv /\ FilesInv /\ [DriverNext]_vars =>
        (intent # NoIntent /\ intent' = NoIntent => PendingArchives(file) = {})
  BY IntentStays DEF Resolve, FilesInv, FilesKept
<1>. QED
  BY <1>1, FilesAlwaysKept, TypeInvariance, PTL DEF DriverSpec, ResolvedIsArchived
=============================================================================

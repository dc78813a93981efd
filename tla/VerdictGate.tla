------------------------------ MODULE VerdictGate ------------------------------
(***************************************************************************)
(* The verification gate of one task: orchestrators that find the executor *)
(* at the end of a phase have the phase judged, by the shell, one verifier *)
(* or two of them, and move the run (GateRun) accordingly.  Every call of  *)
(* a program is a step of its own, and the working tree may change between *)
(* any two of them.                                                        *)
(*                                                                         *)
(* Several orchestrators are instances of one session (a wake-up beside a  *)
(* user's turn): next offers the task to each of them.                     *)
(***************************************************************************)
EXTENDS GateRun, VerdictPath, DualVerifier

CONSTANTS
  Orchs,         \* instances of the session that owns the task
  Mortal,        \* those of them that may die
  Tasks,         \* declarations of the task file: class, audit_mode and scope
  Paths,         \* paths of the repository
  AuditConfigs,  \* pairs of launch arguments and preferences for a dual audit
  RetryLimit,    \* judgements of one phase before the task is blocked (3)
  Mishaps,       \* "silent": a verifier may end without writing over an old file
  Meetings,      \* bound: rounds <<phase, attempts>> of a dual audit that
                 \* several orchestrators may be at
  MaxAtWork,     \* bound: orchestrators at work when the tree changes
  MaxTree,       \* bound: changes of the working tree
  MaxRuns        \* bound: runs of the task after the first one

ASSUME GateAssumption ==
  /\ RetryLimit \in Nat \ {0}
  /\ Mortal \subseteq Orchs /\ Mortal # Orchs
  /\ MaxTree \in Nat /\ MaxRuns \in Nat /\ MaxAtWork \in Nat
  /\ \A t \in Tasks : t.class \in TaskClasses /\ t.declared \in AuditModes \cup {Undeclared}

VARIABLES
  task,       \* what the task file declares
  done,       \* has the executor reported the end of the phase
  resolved,   \* has it written an artifact in this visit to rebase_fix
  fixSeq,     \* the number of asks.fix.findings, NoSeq without an ask
  watched,    \* number of findings files written so far
  artifacts,  \* numbered artifacts in the run dir
  open,       \* does the task rest with an open pull request between its runs
  tree,       \* version of artifacts and working tree
  orch,       \* each orchestrator: the call it makes next, and its locals
  files,      \* the files of the dual audits, by the path of their round
  decided,    \* ghost: the paths whose round was decided (see Lasting)
  runs

asks == <<fixSeq, watched, artifacts, runs>>
run == <<node, done, resolved, open, asks>>
vars == <<task, run, tree, orch, decided, files>>

NoPath == [phase |-> "none", seq |-> NoSeq, attempt |-> 0]

\* phase and attempts are those next reported; tries counts verifiers that
\* wrote nothing, redo holds the slots to be judged again, seen is the manifest
\* record-slot has read.  The rest are ghosts: saw is the tree when the verifier
\* started, shared whether somebody else was at the same round of a dual audit
\* since its manifest was written, evidence what the verdict rests on, inPhase
\* and inRound whether visit and round are still those judged.
Idle == [pc |-> "idle", phase |-> "none", attempts |-> 0, path |-> NoPath,
         verdict |-> "none", slot |-> "none", tries |-> 0, redo |-> {},
         seen |-> NoManifest, saw |-> NoSnapshot, shared |-> FALSE,
         evidence |-> "none", inPhase |-> FALSE, inRound |-> FALSE]

Mode == ResolveAuditMode(task.class, task.declared, node.phase)

\* cmdVerdictPath.
CurrentPath == VerdictPathOf(node.phase, node.attempts, fixSeq, artifacts)

\* The orchestrators after the run has moved, within its phase or out of it.
Moved(os, samePhase) ==
  [o \in Orchs |-> [os[o] EXCEPT !.inPhase = @ /\ samePhase, !.inRound = FALSE]]

\* The files of the round at path p, and a write of them.
FilesAt(p) == IF p \in DOMAIN files THEN files[p] ELSE NoFiles
Write(p, f) ==
  files' = [q \in DOMAIN files \cup {p} |-> IF q = p THEN f ELSE files[q]]

\* The files of rounds that are over and that nobody is at are left out: no round
\* that begins later has their path (PathIsFresh).
ForgetRounds ==
  files' = [p \in {q \in DOMAIN files :
                     q = CurrentPath' \/ \E o \in Orchs : orch'[o].path = q} |-> files[p]]

\* A phase that no edge leads back to needs its paths no longer when it is left.
Lasting(paths) == {p \in paths : p.phase \in SequencedPhases}

\* The path on which o decides its round, unless the run had moved on before it
\* asked, and it was told a path of another phase.
DecidedBy(o) == {p \in {orch[o].path} : p.phase = orch[o].phase}

Init ==
  /\ task \in Tasks
  /\ node = NoRun /\ done = FALSE /\ resolved = FALSE /\ open = FALSE
  /\ fixSeq = NoSeq /\ watched = 0 /\ artifacts = {} /\ runs = 0
  /\ tree = 0
  /\ orch = [o \in Orchs |-> Idle]
  /\ decided = {} /\ files = [p \in {} |-> NoFiles]

-----------------------------------------------------------------------------
(* The gate, one action per call. *)

\* The bound Meetings: next would offer the task to everybody at any time.
MayMeet(o) ==
  \/ Mode # "dual" \/ <<node.phase, node.attempts>> \in Meetings
  \/ \A p \in Orchs \ {o} : orch[p].pc \in {"idle", "dead"}

\* The iteration begins: next reports the phase and the round of the gate.
Iterate(o) ==
  /\ orch[o].pc = "idle" /\ done /\ MayMeet(o)
  /\ orch' = [orch EXCEPT ![o] = [Idle EXCEPT
                !.pc = "path", !.phase = node.phase, !.attempts = node.attempts,
                !.inPhase = TRUE, !.inRound = TRUE]]
  /\ UNCHANGED <<task, run, tree, decided, files>>

\* verdict-path; without a run or a gate it fails and the iteration is over.
AskPath(o) ==
  /\ orch[o].pc = "path"
  /\ orch' = IF node.phase \in VerifiedPhases
             THEN [orch EXCEPT ![o].pc = "shell", ![o].path = CurrentPath]
             ELSE [orch EXCEPT ![o] = Idle]
  /\ UNCHANGED <<task, run, tree, decided, files>>

\* shell-check leaves it to verifiers: the mode asks for them, or the checks are
\* not declared at the base of the task.
Escalate(o) ==
  /\ orch[o].pc = "shell"
  /\ node.phase \in VerifiedPhases
  /\ orch' = [orch EXCEPT ![o].pc = IF Mode = "dual" THEN "slots" ELSE "launch"]
  /\ UNCHANGED <<task, run, tree, decided, files>>

Decide(o, verdict, evidence) ==
  [orch EXCEPT ![o].pc = "decide", ![o].verdict = verdict, ![o].evidence = evidence,
               ![o].shared = FALSE]

\* runCheck: the outcomes of the declared checks, of which there is at least one.
CheckRuns == SUBSET CheckOutcomes \ {{}}

\* runScopeGuard: what git says of the changed paths, if it can be asked.
ScopeGuards == [infraError : BOOLEAN, changed : SUBSET Paths]

\* The paths the checks allow, and those the task file does if it declares any.
AllowLists(allow) == {allow} \cup (IF task.scope = {} THEN {} ELSE {task.scope})

\* shell-check judges; without the changed paths no check is run.
ShellCheck(o) ==
  /\ orch[o].pc = "shell"
  /\ node.phase \in VerifiedPhases /\ Mode = "shell"
  /\ \E guard \in ScopeGuards, outcomes \in CheckRuns \cup {{}}, allow \in SUBSET Paths :
       LET lists == AllowLists(allow)
           verdict == ClassifyVerdict(guard.infraError, outcomes,
                                      Violations(guard.changed, lists))
           sound == ~guard.infraError /\ outcomes = {"passed"}
                    /\ \A l \in lists : guard.changed \subseteq l
       IN  /\ guard.infraError <=> outcomes = {}
           /\ orch' = Decide(o, verdict, IF sound \/ verdict # "PASS" THEN "shell" ELSE "none")
  /\ UNCHANGED <<task, run, tree, decided, files>>

\* shell-check fails (the run has ended or stands at finalize): as if there were
\* no shell check; the verifier is launched.
ShellCheckFails(o) ==
  /\ orch[o].pc = "shell"
  /\ node.phase \notin VerifiedPhases
  /\ orch' = [orch EXCEPT ![o].pc = "launch"]
  /\ UNCHANGED <<task, run, tree, decided, files>>

\* One verifier, fresh or resumed, from its launch to its answer.
Judge(o) ==
  /\ orch[o].pc = "launch"
  /\ \E verdict \in {"PASS", "FAIL"} : orch' = Decide(o, verdict, "single")
  /\ UNCHANGED <<task, run, tree, decided, files>>

\* The task cannot be judged: block, which names no phase, and a human is told.
BlockTask(o) ==
  /\ IF node # NoRun
     THEN /\ EndRun
          /\ done' = FALSE /\ open' = FALSE
          /\ orch' = Moved([orch EXCEPT ![o] = Idle], FALSE)
     ELSE orch' = [orch EXCEPT ![o] = Idle] /\ UNCHANGED <<node, done, open>>
  /\ UNCHANGED <<task, resolved, asks, tree, decided>>
  /\ ForgetRounds

-----------------------------------------------------------------------------
(* The dual audit (playbooks/dual-verifier.md). *)

\* computeSnapshot: a digest of the artifacts of the run and of the working tree.
Snapshot == tree

\* Between slots and the verdict of synthesize.
InAudit == {"next", "judging", "record", "write", "synthesize"}

\* Who else is at the round of o: nothing keeps two sessions from it.
Partners(o) ==
  {p \in Orchs \ {o} : orch[p].pc \in InAudit /\ orch[p].path = orch[o].path}

\* The files of the round o is at.
Round(o) == FilesAt(orch[o].path)

\* slots: a pair of verifiers and a new manifest, or the task is blocked.
AskSlots(o) ==
  /\ orch[o].pc = "slots"
  /\ \E c \in AuditConfigs :
       LET specs == ChosenSpecs(c.launch, c.prefs) IN
       \/ /\ DualSlotsValid(specs)
          /\ Write(orch[o].path, [Round(o) EXCEPT !.manifest = NewManifest(specs, Snapshot)])
          /\ orch' = [p \in Orchs |->
               IF p = o THEN [orch[o] EXCEPT !.pc = "next", !.redo = {},
                                             !.shared = Partners(o) # {}]
               ELSE [orch[p] EXCEPT !.shared = @ \/ p \in Partners(o)]]
          /\ UNCHANGED <<task, run, tree, decided>>
       \/ ~DualSlotsValid(specs) /\ BlockTask(o)

\* next-slot, or a slot an incomplete synthesis named: its verifier starts.
LaunchSlot(o) ==
  /\ orch[o].pc = "next"
  /\ IF orch[o].redo # {}
     THEN \E s \in orch[o].redo :
            orch' = [orch EXCEPT ![o].pc = "judging", ![o].slot = s, ![o].saw = tree]
     ELSE IF NextSlot(Round(o)) = "ready"
     THEN orch' = [orch EXCEPT ![o].pc = "synthesize"]
     ELSE orch' = [orch EXCEPT ![o].pc = "judging", ![o].slot = NextSlot(Round(o)),
                               ![o].saw = tree]
  /\ UNCHANGED <<task, run, tree, decided, files>>

\* What a verifier writes; the second time it is readable.
Docs(o) ==
  LET on == IF orch[o].saw = tree THEN tree ELSE NoSnapshot
      doc(v, p) == [verdict |-> v, phase |-> p, on |-> on]
  IN  {doc("PASS", orch[o].phase), doc("FAIL", orch[o].phase)}
      \cup (IF orch[o].redo = {} THEN {doc("malformed", "none"), doc("PASS", "other")}
            ELSE {})

JudgeSlot(o) ==
  /\ orch[o].pc = "judging"
  /\ \E doc \in Docs(o) : Write(orch[o].path, [Round(o) EXCEPT !.doc[orch[o].slot] = doc])
  /\ orch' = [orch EXCEPT ![o].pc = "record", ![o].saw = NoSnapshot]
  /\ UNCHANGED <<task, run, tree, decided>>

\* The verifier ends without writing its file.
JudgeSilently(o) ==
  /\ orch[o].pc = "judging"
  /\ ~Recordable(Round(o), orch[o].slot) \/ "silent" \in Mishaps
  /\ orch' = [orch EXCEPT ![o].pc = "record", ![o].saw = NoSnapshot]
  /\ UNCHANGED <<task, run, tree, decided, files>>

\* record-slot reads the manifest, or its exit 15, after which the slot is judged
\* again twice.
Record(o) ==
  /\ orch[o].pc = "record"
  /\ \/ /\ Recordable(Round(o), orch[o].slot)
        /\ orch' = [orch EXCEPT ![o].pc = "write", ![o].seen = Round(o).manifest]
        /\ UNCHANGED <<task, run, tree, decided, files>>
     \/ /\ ~Recordable(Round(o), orch[o].slot)
        /\ IF orch[o].tries + 1 < RetryLimit
           THEN /\ orch' = [orch EXCEPT ![o].pc = "next", ![o].tries = @ + 1,
                                        ![o].slot = "none"]
                /\ UNCHANGED <<task, run, tree, decided, files>>
           ELSE BlockTask(o)

\* It takes the snapshot and writes back what it has read.
WriteRecord(o) ==
  /\ orch[o].pc = "write"
  /\ Write(orch[o].path,
           [Round(o) EXCEPT !.manifest = Recorded(orch[o].seen, orch[o].slot, Snapshot)])
  /\ orch' = [orch EXCEPT ![o].pc = "next", ![o].tries = 0, ![o].slot = "none",
                          ![o].redo = @ \ {orch[o].slot}, ![o].seen = NoManifest]
  /\ UNCHANGED <<task, run, tree, decided>>

\* Two files of two families, both written by a verifier that saw nothing but
\* the tree the round began with.
DualEvidence(f) ==
  /\ \A s \in Slots : f.doc[s].on = f.manifest.baseline /\ f.manifest.family[s] # Unknown
  /\ f.manifest.family["a"] # f.manifest.family["b"]

\* What a verdict of synthesize rests on.
EvidenceOf(o) ==
  IF DualEvidence(Round(o)) THEN "dual" ELSE IF orch[o].shared THEN "shared" ELSE "none"

\* Mutant: after an incomplete synthesis next-slot is asked again, which takes a
\* recorded but unreadable slot for done.
AskingSynthesize(o) ==
  LET outcome == Synthesis(Round(o)) IN
  /\ orch[o].pc = "synthesize"
  /\ orch' = CASE outcome = "incomplete" -> [orch EXCEPT ![o].pc = "next", ![o].redo = {}]
               [] outcome = "discarded" -> [orch EXCEPT ![o].pc = "slots"]
               [] OTHER -> Decide(o, outcome, EvidenceOf(o))
  /\ UNCHANGED <<task, run, tree, decided, files>>

\* synthesize, and what the playbook does with each outcome.
Synthesize(o) ==
  LET outcome == Synthesis(Round(o)) IN
  /\ orch[o].pc = "synthesize"
  /\ orch' = CASE outcome = "incomplete" ->
                    [orch EXCEPT ![o].pc = "next", ![o].redo = IncompleteSlots(Round(o))]
               [] outcome = "discarded" -> [orch EXCEPT ![o].pc = "slots"]
               [] OTHER -> Decide(o, outcome, EvidenceOf(o))
  /\ UNCHANGED <<task, run, tree, decided, files>>

-----------------------------------------------------------------------------
(* The decision. *)

\* Mutant: the round is compared with the limit before it is counted.
LastRoundTooLate(o) == orch[o].attempts >= RetryLimit

\* Would one more FAIL use up the rounds of the phase?
LastRound(o) == orch[o].attempts + 1 >= RetryLimit

\* PASS: advance along the edge; a conflict ends the iteration.
Pass(o) ==
  /\ orch[o].pc = "decide" /\ orch[o].verdict = "PASS"
  /\ \/ /\ \E to \in AllPhases : Advance(orch[o].phase, to)
        /\ done' = FALSE
        /\ decided' = Lasting(decided \cup DecidedBy(o))
        /\ orch' = Moved([orch EXCEPT ![o] = Idle], FALSE)
     \/ /\ node.phase # orch[o].phase
        /\ orch' = [orch EXCEPT ![o] = Idle]
        /\ UNCHANGED <<node, done, decided>>
  /\ UNCHANGED <<task, resolved, open, asks, tree>>
  /\ ForgetRounds

\* FAIL: phase-fail with the round next reported; a conflict ends the iteration.
Fail(o) ==
  /\ orch[o].pc = "decide" /\ orch[o].verdict = "FAIL"
  /\ ~LastRound(o)
  /\ \/ /\ PhaseFail(orch[o].phase, orch[o].attempts)
        /\ done' = FALSE
        /\ decided' = decided \cup DecidedBy(o)
        /\ orch' = Moved([orch EXCEPT ![o] = Idle], TRUE)
     \/ /\ <<node.phase, node.attempts>> # <<orch[o].phase, orch[o].attempts>>
        /\ orch' = [orch EXCEPT ![o] = Idle]
        /\ UNCHANGED <<node, done, decided>>
  /\ UNCHANGED <<task, resolved, open, asks, tree>>
  /\ ForgetRounds

\* The last FAIL, or checks that could not be run.
GiveUp(o) ==
  /\ orch[o].pc = "decide"
  /\ \/ orch[o].verdict = "UNAVAILABLE"
     \/ orch[o].verdict = "FAIL" /\ LastRound(o)
  /\ BlockTask(o)

GateStep(o) ==
  \/ Iterate(o) \/ AskPath(o) \/ Escalate(o) \/ ShellCheck(o) \/ ShellCheckFails(o)
  \/ Judge(o) \/ AskSlots(o) \/ LaunchSlot(o) \/ JudgeSlot(o) \/ JudgeSilently(o)
  \/ Record(o) \/ WriteRecord(o) \/ Synthesize(o) \/ Pass(o) \/ Fail(o) \/ GiveUp(o)

-----------------------------------------------------------------------------
(* Everybody else. *)

\* An orchestrator dies; the verifier it waits for ends with it.
Crash(o) ==
  /\ orch[o].pc \notin {"idle", "dead"}
  /\ orch' = [orch EXCEPT ![o] = [Idle EXCEPT !.pc = "dead"]]
  /\ UNCHANGED <<task, run, tree, decided>>
  /\ ForgetRounds

\* Someone changes the tree or an artifact; only a dual audit looks.
TreeMoves ==
  /\ node # NoRun /\ Mode = "dual"
  /\ tree < MaxTree
  /\ Cardinality({o \in Orchs : orch[o].pc \notin {"idle", "dead"}}) <= MaxAtWork
  /\ tree' = tree + 1
  /\ UNCHANGED <<task, run, orch, decided, files>>

\* The executor ends the phase.  The artifact of a fix has the number of its
\* findings, that of a resolution the next one, which it keeps while it is judged.
ExecutorDone ==
  /\ node.phase \in VerifiedPhases /\ ~done
  /\ done' = TRUE
  /\ artifacts' = artifacts \cup
       (CASE node.phase = "pr_fix" -> {[artifact |-> "pr_fix", n |-> fixSeq]}
          [] node.phase = "rebase_fix" /\ ~resolved ->
               {[artifact |-> "rebase_fix", n |-> MaxArtifactSeq(artifacts, "rebase_fix") + 1]}
          [] OTHER -> {})
  /\ resolved' = (node.phase = "rebase_fix")
  /\ UNCHANGED <<task, node, open, fixSeq, watched, runs, tree, orch, decided, files>>

\* A phase is entered.  Whoever is at work on an earlier visit to it stays there.
Enter == resolved' = FALSE /\ UNCHANGED <<task, done, tree, orch, decided, files>>

\* claim.
Start ==
  /\ runs = 0
  /\ StartRun("initial", "full") /\ Enter
  /\ runs' = 1
  /\ UNCHANGED <<open, fixSeq, watched, artifacts>>

\* set-gate, before the executor is launched.
SetGate ==
  /\ ShortenGate /\ Enter
  /\ ~done /\ node.attempts = 0
  /\ UNCHANGED <<open, asks>>

\* The watcher writes a findings file and asks for a fix.
RequestFix ==
  /\ open /\ node = NoRun /\ fixSeq = NoSeq /\ runs <= MaxRuns
  /\ watched' = watched + 1 /\ fixSeq' = watched + 1
  /\ UNCHANGED <<task, node, done, resolved, open, artifacts, runs, tree, orch, decided, files>>

\* fix-start and rebase-start; a pending fix may wait for a resolution.
StartAgain ==
  /\ open /\ runs <= MaxRuns
  /\ \/ fixSeq # NoSeq /\ StartRun("pr_fix", "none")
     \/ StartRun("rebase_fix", "none")
  /\ Enter
  /\ runs' = runs + 1
  /\ UNCHANGED <<open, fixSeq, watched, artifacts>>

\* The push of finalize met a conflict.
TakeDetour ==
  /\ Cardinality({a \in artifacts : a.artifact = "rebase_fix"}) < MaxRuns
  /\ Detour /\ Enter
  /\ UNCHANGED <<open, asks>>

\* rebase-forgo and rebase-give-up: the executor could not resolve it.
GiveUpRebase ==
  /\ node.phase = "rebase_fix" /\ ~done
  /\ Forgo \/ (node.kind = "rebase_fix" /\ EndRun)
  /\ orch' = Moved(orch, FALSE)
  /\ UNCHANGED <<task, done, resolved, open, asks, tree, decided, files>>

\* ship settles the fix of a pr_fix run and keeps one that came meanwhile.
Ship ==
  /\ node.phase = "finalize"
  /\ fixSeq' = IF node.kind = "pr_fix" THEN NoSeq ELSE fixSeq
  /\ EndRun
  /\ open' = TRUE
  /\ UNCHANGED <<task, done, resolved, watched, artifacts, runs, tree, orch, decided, files>>

Others ==
  \/ TreeMoves \/ ExecutorDone \/ Start \/ SetGate \/ RequestFix
  \/ StartAgain \/ TakeDetour \/ GiveUpRebase \/ Ship

Next == Others \/ (\E o \in Orchs : GateStep(o)) \/ (\E o \in Mortal : Crash(o))

Spec == Init /\ [][Next]_vars

\* A session that has not died goes on, and so does its verifier.
FairSpec == Spec /\ \A o \in Orchs : WF_vars(GateStep(o))

-----------------------------------------------------------------------------
(* Properties. *)

TypeOK ==
  /\ task \in Tasks
  /\ node \in [kind : Kinds \cup {"none"}, gate : Gates, phase : AllPhases \cup {"none"},
               attempts : 0 .. RetryLimit - 1]
  /\ done \in BOOLEAN /\ resolved \in BOOLEAN /\ open \in BOOLEAN
  /\ fixSeq \in 0 .. watched /\ tree \in 0 .. MaxTree
  /\ \A p \in DOMAIN files : files[p].manifest.baseline \in 0 .. MaxTree
  /\ \A o \in Orchs :
       orch[o].pc \in {"idle", "path", "shell", "launch", "slots", "next", "judging",
                       "record", "write", "synthesize", "decide", "dead"}
  /\ done => node.phase \in VerifiedPhases

\* Is o the one whose decision moves the run in this step?
Moves(o) == orch[o].pc = "decide" /\ orch'[o].pc = "idle" /\ node' # node /\ node' # NoRun

\* What the task file asks for: risk: high and a declared dual audit need two
\* verifiers, and the shell may judge the implementation of a trivial task only.
Suffices(evidence) ==
  /\ evidence # "none"
  /\ task.class = "high" \/ task.declared = "dual" => evidence \in {"dual", "shared"}
  /\ evidence = "shell" =>
       node.phase = "implement" /\ task.class = "trivial" /\ task.declared # "single"

\* May the verdict of o be one on an earlier visit to the phase?  The sequence of
\* an initial run is passed once; advance and phase-fail cannot tell one fix or
\* one resolution from the next one.
MayBeLate(o) == ~orch[o].inPhase /\ orch[o].phase \in SequencedPhases

\* A phase is passed only on a judgement of this visit to it, and one as strong as
\* the task demands: all checks run and passed within the scope, a verifier that
\* said so, or two of different families that saw the same unchanged tree (unless
\* a second orchestrator was at the same round).  What passes pr_fix or rebase_fix
\* may be late, a judgement of an earlier visit, and then only be a judgement.
PassIsEarned ==
  [][\A o \in Orchs : Moves(o) /\ orch[o].verdict = "PASS" =>
       \/ orch[o].inPhase /\ Suffices(orch[o].evidence)
       \/ MayBeLate(o) /\ orch[o].evidence # "none"]_vars

\* However many orchestrators judge a visit to a phase, a FAIL counts against the
\* round it judged and no other one of the visit.  One of an earlier visit counts
\* in pr_fix and rebase_fix only.
FailIsEarned ==
  [][\A o \in Orchs : Moves(o) /\ orch[o].verdict = "FAIL" =>
       orch[o].inRound \/ MayBeLate(o)]_vars

\* The file of a round is a new one: over all fixes, resolutions and detours of a
\* task verdict-path never names a file on which a round was decided before.
PathIsFresh == done => CurrentPath \notin decided

\* Is one round of a dual audit in the hands of two orchestrators?
Contested == \E o \in Orchs : orch[o].pc \in InAudit /\ Partners(o) # {}

\* A phase the executor has ended is judged in the end: it is passed, failed or
\* the task is blocked, whatever the verifiers do and whoever dies; only two
\* orchestrators at one dual audit can keep each other from ending it for ever.
RoundEnds == <>[]~Contested => []<>~done
===============================================================================

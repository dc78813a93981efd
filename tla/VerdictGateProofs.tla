--------------------------- MODULE VerdictGateProofs ---------------------------
(***************************************************************************)
(* The inductive invariant of VerdictGate, and what follows from it for    *)
(* every number of orchestrators, every set of task declarations, paths    *)
(* and audit configurations, and every limit.                              *)
(*                                                                         *)
(* The heart of it is what the run knows of an orchestrator that judges an *)
(* earlier visit: no phase of an initial run is entered twice, so only the *)
(* judge of a fix or of a resolution may find the run there again, and     *)
(* does not know; and its path, once told, is that of a round which is     *)
(* over or the one the run stands at.                                      *)
(***************************************************************************)
EXTENDS VerdictGate, TLAPS

Busy(o) == orch[o].pc \notin {"idle", "dead"}

\* Is o at work on the visit to the phase in which it found the run?
Here(o) == Busy(o) /\ orch[o].inPhase

\* How far a phase is along the sequence of an initial run.
Rank(phase) ==
  CASE phase = "none" -> 0
    [] phase = "research" -> 1
    [] phase \in {"plan", "research+plan"} -> 2
    [] phase = "implement" -> 3
    [] phase = "report" -> 4
    [] OTHER -> 5

\* The task was blocked: nobody starts it again.
Over == node = NoRun /\ ~open /\ runs # 0

-----------------------------------------------------------------------------
(* Types, and the parts of the state that belong together. *)

PCs == {"idle", "path", "shell", "launch", "slots", "next", "judging", "record",
        "write", "synthesize", "decide", "dead"}

PathSet == [phase : AllPhases \cup {"none"}, seq : Nat, attempt : Nat]

\* The families of the models a dual audit may be configured with.
Families ==
  {Unknown} \cup {ModelFamilyOf(ChosenSpecs(c.launch, c.prefs)[i]) :
                    c \in {d \in AuditConfigs : DualSlotsValid(ChosenSpecs(d.launch, d.prefs))},
                    i \in {1, 2}}

ManifestSet == [baseline : NoSnapshot .. MaxTree, snapshot : [Slots -> NoSnapshot .. MaxTree],
                family : [Slots -> Families]]

DocSet == [verdict : {"none", "PASS", "FAIL", "malformed"},
           phase : AllPhases \cup {"none", "other"}, on : NoSnapshot .. MaxTree]

FileSet == [manifest : ManifestSet, doc : [Slots -> DocSet]]

OrchSet ==
  [pc : PCs, phase : VerifiedPhases \cup {"none"}, attempts : 0 .. RetryLimit - 1,
   path : PathSet, verdict : {"none", "PASS", "FAIL", "UNAVAILABLE"},
   slot : Slots \cup {"none"}, tries : Nat, redo : SUBSET Slots, seen : ManifestSet,
   saw : NoSnapshot .. MaxTree, shared : BOOLEAN,
   evidence : {"none", "shell", "single", "dual", "shared"},
   inPhase : BOOLEAN, inRound : BOOLEAN]

NodeType ==
  /\ node \in [kind : Kinds \cup {"none"}, gate : Gates, phase : AllPhases \cup {"none"},
               attempts : 0 .. RetryLimit - 1]
  /\ \/ node = NoRun
     \/ /\ node.kind = "initial" /\ node.gate = "full"
        /\ node.phase \in {"research", "plan", "implement", "report", "finalize", "rebase_fix"}
     \/ /\ node.kind = "initial" /\ node.gate = "light"
        /\ node.phase \in {"research+plan", "implement", "report", "finalize", "rebase_fix"}
     \/ node.kind = "pr_fix" /\ node.phase \in {"pr_fix", "finalize", "rebase_fix"}
     \/ node.kind = "rebase_fix" /\ node.phase \in {"rebase_fix", "finalize"}

\* Before the first run nothing has happened.
Untouched ==
  runs = 0 => node = NoRun /\ ~open /\ decided = {} /\ \A o \in Orchs : ~Busy(o)

\* A run on fixes has the newest findings.
FixIsAsked ==
  /\ watched \in Nat /\ fixSeq \in {NoSeq, watched}
  /\ node.kind = "pr_fix" => fixSeq # NoSeq

\* The number of the newest resolution, and the numbers it is the maximum of.
Resolution == MaxArtifactSeq(artifacts, "rebase_fix")
Resolutions ==
  {NoSeq} \cup {ParseSeq(e.n) : e \in {x \in artifacts : x.artifact = "rebase_fix"}}

ArtifactsNumbered ==
  /\ artifacts \subseteq [artifact : {"pr_fix", "rebase_fix"}, n : Nat]
  /\ Resolution \in Nat /\ Resolution \in Resolutions
  /\ \A n \in Resolutions : n <= Resolution

OrchType ==
  /\ orch \in [Orchs -> OrchSet]
  /\ \A o \in Orchs : Busy(o) <=> orch[o].phase # "none"
  /\ \A o \in Orchs : orch[o].pc \in {"judging", "record", "write"} => orch[o].slot \in Slots

\* A manifest with a baseline, the tree of its time.
Based(m) == 0 <= m.baseline /\ m.baseline <= tree

\* Whoever is at a dual audit finds its manifest.
FilesType ==
  /\ tree \in 0 .. MaxTree
  /\ files \in [DOMAIN files -> FileSet]
  /\ \A p \in DOMAIN files : Based(files[p].manifest)
  /\ \A o \in Orchs : orch[o].pc \in InAudit => orch[o].path \in DOMAIN files
  /\ \A o \in Orchs : orch[o].pc = "write" => Based(orch[o].seen)

GateType ==
  /\ task \in Tasks
  /\ NodeType
  /\ done \in BOOLEAN /\ resolved \in BOOLEAN /\ open \in BOOLEAN /\ runs \in Nat
  /\ done => node.phase \in VerifiedPhases
  /\ Untouched /\ FixIsAsked /\ ArtifactsNumbered /\ OrchType /\ FilesType
  /\ decided \subseteq PathSet

-----------------------------------------------------------------------------
(* Visits and rounds. *)

\* An initial run is never behind what is judged of it.
NeverBehind ==
  node.kind = "initial" => \A o \in Orchs : Rank(orch[o].phase) <= Rank(node.phase)

\* Who is told that it is still in the visit it judges is: the run stands at that
\* phase, and nobody has decided the round unless the count of rounds tells.
StayedThere ==
  \A o \in Orchs : Here(o) =>
    /\ orch[o].phase = node.phase
    /\ orch[o].attempts <= node.attempts
    /\ orch[o].attempts = node.attempts => orch[o].inRound
    /\ done \/ node.attempts > 0

\* Who judges a phase of the sequence of an initial run and finds the run there is
\* in the visit it judges: the sequence is passed once.
PassedOnce ==
  \A o \in Orchs :
    Busy(o) /\ orch[o].phase = node.phase /\ node.phase \notin SequencedPhases => Here(o)

GateInv == GateType /\ NeverBehind /\ StayedThere /\ PassedOnce

-----------------------------------------------------------------------------
(* What a verdict rests on. *)

DualTask == task.class = "high" \/ task.declared = "dual"

\* A task is judged by as many verifiers as it asks for.
AuditAsDeclared ==
  \A o \in Orchs :
    /\ orch[o].pc \in {"slots"} \cup InAudit => DualTask
    /\ Here(o) /\ orch[o].pc = "launch" => ~DualTask

\* Two known families.
TwoFamilies(m) ==
  /\ \A s \in Slots : m.family[s] # Unknown
  /\ m.family["a"] # m.family["b"]

\* A round has two families, and no manifest of it records a slot without a file.
RoundKnown ==
  /\ \A p \in DOMAIN files :
       /\ TwoFamilies(files[p].manifest)
       /\ \A s \in Slots : files[p].manifest.snapshot[s] # NoSnapshot => files[p].doc[s] # NoDoc
  /\ \A o \in Orchs : orch[o].pc = "write" =>
       /\ TwoFamilies(orch[o].seen) /\ Recordable(Round(o), orch[o].slot)
       /\ \A s \in Slots : orch[o].seen.snapshot[s] # NoSnapshot => Round(o).doc[s] # NoDoc

Recording(o) == orch[o].pc \in {"record", "write"}

\* Of a round that o has for itself: a slot recorded with the tree of the baseline
\* holds a verdict on it; only the slot that is being judged again may have a file
\* newer than its record.
RecordedWasSeen(o) ==
  orch[o].pc \in InAudit /\ ~orch[o].shared =>
    LET f == Round(o)
        base == f.manifest.baseline
    IN  /\ Partners(o) = {}
        /\ \A s \in Slots : ~(Recording(o) /\ orch[o].slot = s) =>
             (f.manifest.snapshot[s] = base => f.doc[s].on = base)
        /\ orch[o].pc = "judging" => base <= orch[o].saw /\ orch[o].saw <= tree
        /\ Recording(o) =>
             \/ f.doc[orch[o].slot] = NoDoc
             \/ f.doc[orch[o].slot].on = base
             \/ base < tree
        /\ orch[o].pc = "write" => orch[o].seen = f.manifest

\* The verdict PASS an orchestrator holds rests on something, and while the visit it
\* judged goes on it is worth what the task demands.
PassSuffices ==
  \A o \in Orchs : orch[o].pc = "decide" /\ orch[o].verdict = "PASS" =>
    /\ orch[o].evidence # "none"
    /\ Here(o) => Suffices(orch[o].evidence)

EvidenceInv ==
  /\ AuditAsDeclared /\ RoundKnown /\ PassSuffices
  /\ \A o \in Orchs : RecordedWasSeen(o)

-----------------------------------------------------------------------------
(* Which paths are used up. *)

\* Of the path p of a round: k or more rounds of its visit are over.
FixStands(p, k) ==
  p.phase = "pr_fix" =>
    /\ p.seq \in 1 .. watched
    /\ p.seq = fixSeq =>
         \/ Over
         \/ node.kind = "pr_fix" /\ (node.phase = "pr_fix" => k <= node.attempts)

ResolutionStands(p, k) ==
  p.phase = "rebase_fix" =>
    /\ p.seq <= Resolution
    /\ node.phase = "rebase_fix" /\ resolved /\ p.seq = Resolution => k <= node.attempts

SequencedStands(p, k) == FixStands(p, k) /\ ResolutionStands(p, k)

\* What o was told when it asked for the path of the phase it judges.
Told(o) == Busy(o) /\ orch[o].pc # "path" /\ orch[o].path.phase = orch[o].phase

PathsStand ==
  \A o \in Orchs : Told(o) =>
    /\ SequencedStands(orch[o].path, orch[o].path.attempt)
    /\ orch[o].phase \notin SequencedPhases /\ orch[o].phase = node.phase =>
         orch[o].path.attempt <= node.attempts

\* A decided round is one of those that are over.
DecidedIsOver ==
  \A p \in decided :
    /\ p.phase \in VerifiedPhases
    /\ SequencedStands(p, p.attempt + 1)
    /\ p.phase \notin SequencedPhases =>
         Over \/ (p.phase = node.phase /\ p.attempt < node.attempts)

\* A resolution takes a number of its own before it is judged.
ResolutionFirst ==
  /\ done /\ node.phase = "rebase_fix" => resolved
  /\ resolved /\ node.phase = "rebase_fix" => Resolution > 0
  /\ \A o \in Orchs : orch[o].phase = "rebase_fix" => Resolution > 0

PathInv == PathsStand /\ DecidedIsOver /\ ResolutionFirst

-----------------------------------------------------------------------------
(* What a step of an orchestrator may do to the others, and to the run. *)

RunStays == UNCHANGED <<task, node, done, resolved, open, asks, decided, tree>>

\* What o was told and has found out is what it was.
Keeps(o) ==
  /\ orch'[o].pc = orch[o].pc /\ orch'[o].phase = orch[o].phase
  /\ orch'[o].attempts = orch[o].attempts /\ orch'[o].path = orch[o].path
  /\ orch'[o].verdict = orch[o].verdict /\ orch'[o].evidence = orch[o].evidence
  /\ orch'[o].slot = orch[o].slot /\ orch'[o].saw = orch[o].saw
  /\ orch'[o].seen = orch[o].seen /\ (orch[o].shared => orch'[o].shared)

\* The others go on with what they have, in the visit and the round they are in.
OnlyMoves(o) ==
  \A p \in Orchs \ {o} :
    Keeps(p) /\ orch'[p].inPhase = orch[p].inPhase /\ orch'[p].inRound = orch[p].inRound

\* The gate goes on, the run untouched: o has the round it had, and its path.
GoesOn(o) ==
  /\ RunStays /\ OnlyMoves(o)
  /\ Busy(o) /\ orch'[o].pc \notin {"idle", "dead", "path"}
  /\ orch'[o].phase = orch[o].phase /\ orch'[o].attempts = orch[o].attempts
  /\ orch'[o].inPhase = orch[o].inPhase /\ orch'[o].inRound = orch[o].inRound
  /\ IF orch[o].pc = "path"
     THEN node.phase \in VerifiedPhases /\ orch'[o].path = CurrentPath
     ELSE orch'[o].path = orch[o].path

\* The iteration is over and has decided nothing.
Leaves(o) ==
  /\ RunStays /\ OnlyMoves(o) /\ (UNCHANGED files \/ ForgetRounds)
  /\ Busy(o) /\ orch'[o] \in {Idle, [Idle EXCEPT !.pc = "dead"]}

Blocks(o) ==
  /\ Busy(o) /\ node # NoRun
  /\ node' = NoRun /\ done' = FALSE /\ open' = FALSE /\ ForgetRounds
  /\ orch' = Moved([orch EXCEPT ![o] = Idle], FALSE)
  /\ UNCHANGED <<task, resolved, asks, decided, tree>>

Passes(o) ==
  /\ orch[o].pc = "decide" /\ orch[o].verdict = "PASS"
  /\ \E to \in AllPhases : Advance(orch[o].phase, to)
  /\ done' = FALSE /\ ForgetRounds
  /\ decided' = Lasting(decided \cup DecidedBy(o))
  /\ orch' = Moved([orch EXCEPT ![o] = Idle], FALSE)
  /\ UNCHANGED <<task, resolved, open, asks, tree>>

Fails(o) ==
  /\ orch[o].pc = "decide" /\ orch[o].verdict = "FAIL" /\ ~LastRound(o)
  /\ PhaseFail(orch[o].phase, orch[o].attempts)
  /\ done' = FALSE /\ ForgetRounds
  /\ decided' = decided \cup DecidedBy(o)
  /\ orch' = Moved([orch EXCEPT ![o] = Idle], TRUE)
  /\ UNCHANGED <<task, resolved, open, asks, tree>>

Decides(o) == Iterate(o) \/ Leaves(o) \/ Blocks(o) \/ Passes(o) \/ Fails(o)

-----------------------------------------------------------------------------
(* Facts about the operators of the model. *)

\* The nodes of the axes, one by one: an edge leads ahead or to finalize.
LEMMA Edges ==
  ASSUME NodeType, NEW to, node.phase \in VerifiedPhases,
         IsAdvanceEdge(node.kind, node.gate, node.phase, to)
  PROVE  /\ to \in {"plan", "implement", "report", "finalize"}
         /\ to # "finalize" => node.kind = "initial" /\ Rank(node.phase) < Rank(to)
         /\ Rank(node.phase) <= Rank(to)
         /\ to = "plan" => node.gate = "full"
<1>. USE DEF IsAdvanceEdge, MainSequence, MainSequences, Rank, NodeType
<1>1. node # NoRun
  BY DEF NoRun, VerifiedPhases, AllPhases
<1>2. CASE node.kind = "initial" /\ node.gate = "full" /\ node # NoRun
  BY <1>2
<1>3. CASE node.kind = "initial" /\ node.gate = "light" /\ node # NoRun
  BY <1>3
<1>4. CASE node.kind = "pr_fix" /\ node # NoRun
  BY <1>4
<1>5. CASE node.kind = "rebase_fix" /\ node # NoRun
  BY <1>5
<1>. QED BY <1>1, <1>2, <1>3, <1>4, <1>5

\* A set of numbers with a greatest one has it for its maximum.
LEMMA MaxIs ==
  ASSUME NEW S \in SUBSET Nat, NEW m \in S, \A n \in S : n <= m
  PROVE  Max(S) = m
<1>1. \A x \in S : (\A y \in S : x >= y) => x = m
  OBVIOUS
<1>2. \A y \in S : m >= y
  OBVIOUS
<1>. QED BY <1>1, <1>2 DEF Max

\* What verdict-path names.
LEMMA PathNamed ==
  ASSUME GateType, node.phase \in VerifiedPhases
  PROVE  /\ CurrentPath \in PathSet
         /\ CurrentPath.phase = node.phase /\ CurrentPath.attempt = node.attempts
         /\ node.phase = "pr_fix" => CurrentPath.seq = fixSeq /\ fixSeq # NoSeq
         /\ node.phase = "rebase_fix" =>
              CurrentPath.seq = IF Resolution # NoSeq THEN Resolution ELSE FirstSeq
         /\ node.phase \notin SequencedPhases => CurrentPath.seq = NoSeq
<1>. USE DEF GateType, FixIsAsked, NodeType, ArtifactsNumbered, NoRun
<1>1. CurrentPath = [phase |-> node.phase,
                     seq |-> IF node.phase \in SequencedPhases
                             THEN SeqOf(node.phase, fixSeq, artifacts) ELSE NoSeq,
                     attempt |-> node.attempts]
  BY DEF CurrentPath, VerdictPathOf
<1>2. node.phase = "pr_fix" =>
        SeqOf(node.phase, fixSeq, artifacts) = fixSeq /\ fixSeq # NoSeq /\ fixSeq \in Nat
  BY DEF SeqOf, ParseSeq, FirstSeq, NoSeq
<1>3. node.phase = "rebase_fix" =>
        SeqOf(node.phase, fixSeq, artifacts)
          = IF Resolution # NoSeq THEN Resolution ELSE FirstSeq
  BY DEF SeqOf, Resolution
<1>4. node.attempts \in Nat /\ node.phase \in AllPhases
  BY GateAssumption DEF VerifiedPhases
<1>5. /\ CurrentPath.phase = node.phase /\ CurrentPath.attempt = node.attempts
      /\ CurrentPath.seq = IF node.phase \in SequencedPhases
                           THEN SeqOf(node.phase, fixSeq, artifacts) ELSE NoSeq
  BY <1>1
<1>6. CurrentPath.seq \in Nat
  BY <1>2, <1>3, <1>5 DEF SequencedPhases, NoSeq, FirstSeq
<1>7. CurrentPath \in PathSet
  BY <1>1, <1>4, <1>6, <1>5 DEF PathSet
<1>. QED BY <1>2, <1>3, <1>5, <1>7 DEF SequencedPhases

-----------------------------------------------------------------------------
(* Records of the model: what an edit of one field leaves and keeps typed. *)

\* A phase is entered with a legal count of rounds.
LEMMA Rounds == 0 \in 0 .. RetryLimit - 1
BY GateAssumption

\* Before anything is judged there is a manifest of nothing, and no verdict.
LEMMA NothingTyped ==
  /\ NoSnapshot \in NoSnapshot .. MaxTree
  /\ NoManifest \in ManifestSet /\ NoFiles \in FileSet /\ NoDoc \in DocSet
<1>1. NoSnapshot \in NoSnapshot .. MaxTree
  BY GateAssumption DEF NoSnapshot
<1>2. NoManifest \in ManifestSet
  BY <1>1 DEF NoManifest, ManifestSet, Families
<1>3. NoDoc \in DocSet
  BY <1>1 DEF NoDoc, DocSet
<1>. QED BY <1>1, <1>2, <1>3 DEF NoFiles, FileSet

\* A new manifest: the tree of now for its baseline, nothing recorded, two families.
LEMMA ManifestBegun ==
  ASSUME NEW c \in AuditConfigs, DualSlotsValid(ChosenSpecs(c.launch, c.prefs)),
         NEW t \in 0 .. MaxTree
  PROVE  LET m == NewManifest(ChosenSpecs(c.launch, c.prefs), t) IN
         /\ m \in ManifestSet /\ m.baseline = t /\ TwoFamilies(m)
         /\ \A s \in Slots : m.snapshot[s] = NoSnapshot
<1>. DEFINE specs == ChosenSpecs(c.launch, c.prefs)
            n == [s \in Slots |-> NoSnapshot]
            f == [a |-> ModelFamilyOf(specs[1]), b |-> ModelFamilyOf(specs[2])]
            m == NewManifest(specs, t)
<1>1. m = [baseline |-> t, snapshot |-> n, family |-> f]
  BY DEF NewManifest
<1>2. ModelFamilyOf(specs[1]) \in Families /\ ModelFamilyOf(specs[2]) \in Families
  BY DEF Families
<1>3. f \in [Slots -> Families] /\ f["a"] = ModelFamilyOf(specs[1])
      /\ f["b"] = ModelFamilyOf(specs[2])
  BY <1>2 DEF Slots
<1>4. n \in [Slots -> NoSnapshot .. MaxTree] /\ t \in NoSnapshot .. MaxTree
  BY NothingTyped DEF NoSnapshot
<1>. HIDE DEF n, f
<1>5. m \in ManifestSet /\ m.baseline = t /\ m.family = f /\ m.snapshot = n
  BY <1>1, <1>3, <1>4 DEF ManifestSet
<1>6. TwoFamilies(m)
  BY <1>3, <1>5 DEF TwoFamilies, DualSlotsValid, Slots
<1>. QED BY <1>5, <1>6 DEF n

\* record-slot touches its slot only.
LEMMA ManifestRecorded ==
  ASSUME NEW m \in ManifestSet, NEW s \in Slots, NEW t \in 0 .. MaxTree
  PROVE  /\ Recorded(m, s, t) \in ManifestSet
         /\ Recorded(m, s, t).baseline = m.baseline
         /\ Recorded(m, s, t).family = m.family
         /\ Recorded(m, s, t).snapshot = [m.snapshot EXCEPT ![s] = t]
<1>1. t \in NoSnapshot .. MaxTree
  BY DEF NoSnapshot
<1>. QED BY <1>1 DEF Recorded, ManifestSet

\* The files of a round with another manifest, or another verdict file.
LEMMA FileEdits ==
  ASSUME NEW f \in FileSet
  PROVE  /\ \A m \in ManifestSet :
              /\ [f EXCEPT !.manifest = m] \in FileSet
              /\ [f EXCEPT !.manifest = m].manifest = m
              /\ [f EXCEPT !.manifest = m].doc = f.doc
         /\ \A s \in Slots, d \in DocSet :
              /\ [f EXCEPT !.doc[s] = d] \in FileSet
              /\ [f EXCEPT !.doc[s] = d].manifest = f.manifest
              /\ [f EXCEPT !.doc[s] = d].doc = [f.doc EXCEPT ![s] = d]
<1>1. ASSUME NEW m \in ManifestSet
      PROVE  /\ [f EXCEPT !.manifest = m] \in FileSet
             /\ [f EXCEPT !.manifest = m].manifest = m
             /\ [f EXCEPT !.manifest = m].doc = f.doc
  BY DEF FileSet
<1>2. ASSUME NEW s \in Slots, NEW d \in DocSet
      PROVE  /\ [f EXCEPT !.doc[s] = d] \in FileSet
             /\ [f EXCEPT !.doc[s] = d].manifest = f.manifest
             /\ [f EXCEPT !.doc[s] = d].doc = [f.doc EXCEPT ![s] = d]
  BY DEF FileSet
<1>. QED BY <1>1, <1>2

\* Fresh locals, and those of the dead.
LEMMA IdleTyped ==
  /\ Idle \in OrchSet /\ [Idle EXCEPT !.pc = "dead"] \in OrchSet
  /\ Idle.pc = "idle" /\ Idle.phase = "none"
  /\ [Idle EXCEPT !.pc = "dead"].pc = "dead" /\ [Idle EXCEPT !.pc = "dead"].phase = "none"
<1>1. NoPath \in PathSet /\ 0 \in 0 .. RetryLimit - 1
  BY GateAssumption DEF PathSet, NoPath, NoSeq
<1>2. Idle \in OrchSet /\ Idle.pc = "idle" /\ Idle.phase = "none"
  BY <1>1, NothingTyped DEF Idle, OrchSet, PCs
<1>3. /\ [Idle EXCEPT !.pc = "dead"] \in OrchSet
      /\ [Idle EXCEPT !.pc = "dead"].pc = "dead" /\ [Idle EXCEPT !.pc = "dead"].phase = "none"
  BY <1>2 DEF OrchSet, PCs
<1>. QED BY <1>2, <1>3

\* What the steps write into the locals of an orchestrator.
LEMMA EditsTyped ==
  ASSUME NEW r \in OrchSet
  PROVE  /\ \A c \in PCs : [r EXCEPT !.pc = c] \in OrchSet
         /\ \A p \in PathSet : [r EXCEPT !.pc = "shell", !.path = p] \in OrchSet
         /\ \A b \in BOOLEAN : [r EXCEPT !.shared = b] \in OrchSet
         /\ \A v \in {"PASS", "FAIL", "UNAVAILABLE"},
               e \in {"none", "shell", "single", "dual", "shared"} :
              [r EXCEPT !.pc = "decide", !.verdict = v, !.evidence = e, !.shared = FALSE]
                \in OrchSet
<1>. USE DEF OrchSet, PCs
<1>1. ASSUME NEW c \in PCs PROVE [r EXCEPT !.pc = c] \in OrchSet
  OBVIOUS
<1>2. ASSUME NEW p \in PathSet PROVE [r EXCEPT !.pc = "shell", !.path = p] \in OrchSet
  OBVIOUS
<1>3. ASSUME NEW b \in BOOLEAN PROVE [r EXCEPT !.shared = b] \in OrchSet
  OBVIOUS
<1>4. ASSUME NEW v \in {"PASS", "FAIL", "UNAVAILABLE"},
             NEW e \in {"none", "shell", "single", "dual", "shared"}
      PROVE  [r EXCEPT !.pc = "decide", !.verdict = v, !.evidence = e, !.shared = FALSE]
               \in OrchSet
  OBVIOUS
<1>. HIDE DEF OrchSet, PCs
<1>. QED BY <1>1, <1>2, <1>3, <1>4

\* What the calls of a dual audit make of the locals of an orchestrator.
LEMMA SlotEditsTyped ==
  ASSUME NEW r \in OrchSet, tree \in 0 .. MaxTree
  PROVE  /\ \A x \in SUBSET Slots, b \in BOOLEAN :
              [r EXCEPT !.pc = "next", !.redo = x, !.shared = b] \in OrchSet
         /\ \A x \in SUBSET Slots : [r EXCEPT !.pc = "next", !.redo = x] \in OrchSet
         /\ \A s \in Slots :
              [r EXCEPT !.pc = "judging", !.slot = s, !.saw = tree] \in OrchSet
         /\ [r EXCEPT !.pc = "record", !.saw = NoSnapshot] \in OrchSet
         /\ \A m \in ManifestSet : [r EXCEPT !.pc = "write", !.seen = m] \in OrchSet
         /\ \A x \in SUBSET Slots :
              [r EXCEPT !.pc = "next", !.tries = 0, !.slot = "none", !.redo = x,
                        !.seen = NoManifest] \in OrchSet
         /\ [r EXCEPT !.pc = "next", !.tries = r.tries + 1, !.slot = "none"] \in OrchSet
<1>. USE DEF OrchSet, PCs
<1>1. tree \in NoSnapshot .. MaxTree /\ NoSnapshot \in NoSnapshot .. MaxTree
      /\ NoManifest \in ManifestSet
  BY NothingTyped DEF NoSnapshot
<1>2. ASSUME NEW x \in SUBSET Slots, NEW b \in BOOLEAN
      PROVE  [r EXCEPT !.pc = "next", !.redo = x, !.shared = b] \in OrchSet
  OBVIOUS
<1>3. ASSUME NEW x \in SUBSET Slots PROVE [r EXCEPT !.pc = "next", !.redo = x] \in OrchSet
  OBVIOUS
<1>4. ASSUME NEW s \in Slots
      PROVE  [r EXCEPT !.pc = "judging", !.slot = s, !.saw = tree] \in OrchSet
  BY <1>1
<1>5. [r EXCEPT !.pc = "record", !.saw = NoSnapshot] \in OrchSet
  BY <1>1
<1>6. ASSUME NEW m \in ManifestSet PROVE [r EXCEPT !.pc = "write", !.seen = m] \in OrchSet
  OBVIOUS
<1>7. ASSUME NEW x \in SUBSET Slots
      PROVE  [r EXCEPT !.pc = "next", !.tries = 0, !.slot = "none", !.redo = x,
                       !.seen = NoManifest] \in OrchSet
  BY <1>1
<1>8. ASSUME NEW t \in Nat
      PROVE  [r EXCEPT !.pc = "next", !.tries = t, !.slot = "none"] \in OrchSet
  OBVIOUS
<1>9. r.tries + 1 \in Nat
  OBVIOUS
<1>. HIDE DEF OrchSet, PCs
<1>. QED BY <1>2, <1>3, <1>4, <1>5, <1>6, <1>7, <1>8, <1>9

\* The files of any round, those of a round without files included.
LEMMA RoundTyped ==
  ASSUME FilesType, NEW o \in Orchs
  PROVE  /\ Round(o) \in FileSet
         /\ orch[o].path \in DOMAIN files =>
              Based(Round(o).manifest) /\ Round(o) = files[orch[o].path]
BY NothingTyped DEF FilesType, Round, FilesAt

\* A write of the files of one round.
LEMMA Written ==
  ASSUME FilesType, NEW q, NEW f \in FileSet, Based(f.manifest), Write(q, f), tree' = tree,
         \A p \in Orchs : orch'[p].pc \in InAudit =>
           orch'[p].path = q \/ (orch[p].pc \in InAudit /\ orch'[p].path = orch[p].path),
         \A p \in Orchs : orch'[p].pc = "write" => Based(orch'[p].seen)
  PROVE  /\ FilesType'
         /\ DOMAIN files' = DOMAIN files \cup {q}
         /\ \A r \in DOMAIN files' : files'[r] = IF r = q THEN f ELSE files[r]
<1>1. files' = [r \in DOMAIN files \cup {q} |-> IF r = q THEN f ELSE files[r]]
  BY DEF Write
<1>2. DOMAIN files' = DOMAIN files \cup {q}
  BY <1>1
<1>3. \A r \in DOMAIN files' : files'[r] = IF r = q THEN f ELSE files[r]
  BY <1>1
<1>4. \A r \in DOMAIN files' : files'[r] \in FileSet /\ Based(files'[r].manifest)
  BY <1>2, <1>3 DEF FilesType
<1>5. files' \in [DOMAIN files' -> FileSet]
  BY <1>1, <1>2, <1>4
<1>. QED BY <1>2, <1>3, <1>4, <1>5 DEF FilesType, Based

\* What nobody is at any more is forgotten, the rest is as it was.
LEMMA Forgotten ==
  ASSUME FilesType, ForgetRounds, tree' = tree,
         \A p \in Orchs : orch'[p].pc \in InAudit =>
           /\ orch'[p].pc = orch[p].pc /\ orch'[p].path = orch[p].path
           /\ orch'[p].seen = orch[p].seen
  PROVE  /\ FilesType'
         /\ DOMAIN files' \subseteq DOMAIN files
         /\ \A r \in DOMAIN files' : files'[r] = files[r]
<1>. DEFINE kept == {q \in DOMAIN files : q = CurrentPath' \/ \E o \in Orchs : orch'[o].path = q}
<1>1. files' = [r \in kept |-> files[r]]
  BY DEF ForgetRounds
<1>2. DOMAIN files' = kept /\ kept \subseteq DOMAIN files
  BY <1>1
<1>3. \A r \in DOMAIN files' : files'[r] = files[r]
  BY <1>1
<1>4. files' \in [DOMAIN files' -> FileSet]
  BY <1>1, <1>2, <1>3 DEF FilesType
<1>5. \A o \in Orchs : orch'[o].pc \in InAudit => orch'[o].path \in kept
  BY DEF FilesType
<1>6. \A o \in Orchs : orch'[o].pc = "write" => Based(orch[o].seen) /\ orch'[o].seen = orch[o].seen
  BY DEF FilesType, InAudit
<1>. HIDE DEF kept
<1>. QED BY <1>2, <1>3, <1>4, <1>5, <1>6 DEF FilesType, Based

-----------------------------------------------------------------------------
(* Every step of an orchestrator has one of these shapes. *)

\* A step that gives o the locals r and leaves the run alone.
BecomesOf(o, r) ==
  /\ orch' = [p \in Orchs |-> IF p = o THEN r ELSE orch[p]]
  /\ RunStays

\* The locals of the others are not touched.
LEMMA Becomes ==
  ASSUME GateType, NEW o \in Orchs, NEW r \in OrchSet, BecomesOf(o, r)
  PROVE  /\ orch' \in [Orchs -> OrchSet] /\ orch'[o] = r /\ OnlyMoves(o)
         /\ \A p \in Orchs \ {o} : orch'[p] = orch[p]
BY DEF BecomesOf, GateType, OrchType, OnlyMoves, Keeps

\* A step to another call, with the fields of the round as they were.
LEMMA GoesOnTo ==
  ASSUME GateType, NEW o \in Orchs, NEW r \in OrchSet, BecomesOf(o, r),
         Busy(o), r.pc \notin {"idle", "dead", "path"},
         r.phase = orch[o].phase, r.attempts = orch[o].attempts,
         r.inPhase = orch[o].inPhase, r.inRound = orch[o].inRound,
         IF orch[o].pc = "path"
         THEN node.phase \in VerifiedPhases /\ r.path = CurrentPath
         ELSE r.path = orch[o].path
  PROVE  GoesOn(o) /\ orch' \in [Orchs -> OrchSet]
BY Becomes DEF GoesOn, BecomesOf

\* No file is touched and nobody goes to a file.
LEMMA FilesStay ==
  ASSUME FilesType, UNCHANGED <<tree, files>>,
         \A p \in Orchs : orch'[p].pc \in InAudit =>
           /\ orch[p].pc \in InAudit /\ orch'[p].path = orch[p].path
           /\ orch'[p].pc = "write" => Based(orch'[p].seen)
  PROVE  FilesType'
<1>1. \A p \in Orchs : orch'[p].pc = "write" => Based(orch'[p].seen)
  BY DEF InAudit
<1>. QED BY <1>1 DEF FilesType, Based

\* A block ends the run, or the iteration if there is none.
LEMMA BlockShape ==
  ASSUME GateType, NEW o \in Orchs, Busy(o), BlockTask(o)
  PROVE  Blocks(o) \/ (Leaves(o) /\ orch' = [orch EXCEPT ![o] = Idle])
<1>. USE DEF GateType, OrchType
<1>1. CASE node # NoRun
  BY <1>1 DEF BlockTask, Blocks, EndRun
<1>2. CASE node = NoRun
  BY <1>2 DEF BlockTask, Leaves, RunStays, OnlyMoves, Keeps, run
<1>. QED BY <1>1, <1>2

\* The steps before a verifier or the shell is asked.
LEMMA FirstSteps ==
  ASSUME GateType, NEW o \in Orchs,
         AskPath(o) \/ Escalate(o) \/ ShellCheck(o) \/ ShellCheckFails(o) \/ Judge(o)
  PROVE  /\ GoesOn(o) \/ Leaves(o)
         /\ orch' \in [Orchs -> OrchSet]
         /\ UNCHANGED files /\ orch'[o].pc \notin InAudit
         /\ \A p \in Orchs \ {o} : orch'[p] = orch[p]
<1>. DEFINE r == orch[o]
<1>0. r \in OrchSet /\ orch \in [Orchs -> OrchSet]
  BY DEF GateType, OrchType
<1>1. CASE AskPath(o)
  <2>0. RunStays /\ Busy(o) /\ UNCHANGED files /\ r.pc = "path"
    BY <1>1 DEF AskPath, RunStays, Busy, run
  <2>1. CASE node.phase \in VerifiedPhases
    <3>1. CurrentPath \in PathSet
      BY <2>1, PathNamed
    <3>2. [r EXCEPT !.pc = "shell", !.path = CurrentPath] \in OrchSet
      BY <3>1, <1>0, EditsTyped
    <3>3. BecomesOf(o, [r EXCEPT !.pc = "shell", !.path = CurrentPath])
      BY <1>1, <2>1, <2>0, <1>0 DEF AskPath, BecomesOf
    <3>. DEFINE d == [r EXCEPT !.pc = "shell", !.path = CurrentPath]
    <3>4. /\ d.pc = "shell" /\ d.path = CurrentPath
          /\ d.phase = r.phase /\ d.attempts = r.attempts
          /\ d.inPhase = r.inPhase /\ d.inRound = r.inRound
      BY <1>0 DEF OrchSet
    <3>. HIDE DEF d
    <3>5. GoesOn(o) /\ orch' \in [Orchs -> OrchSet]
      BY <2>0, <2>1, <3>2, <3>3, <3>4, GoesOnTo DEF d
    <3>6. orch'[o] = d /\ \A p \in Orchs \ {o} : orch'[p] = orch[p]
      BY <3>2, <3>3, Becomes DEF d
    <3>. QED BY <2>0, <3>4, <3>5, <3>6 DEF InAudit
  <2>2. CASE node.phase \notin VerifiedPhases
    <3>1. BecomesOf(o, Idle)
      BY <1>1, <2>2, <2>0, <1>0 DEF AskPath, BecomesOf
    <3>. QED BY <3>1, <2>0, Becomes, IdleTyped DEF InAudit, Leaves
  <2>. QED BY <2>1, <2>2
<1>2. CASE Escalate(o) \/ ShellCheckFails(o)
  <2>1. PICK c \in {"slots", "launch"} : orch' = [orch EXCEPT ![o].pc = c]
    BY <1>2 DEF Escalate, ShellCheckFails
  <2>2. BecomesOf(o, [r EXCEPT !.pc = c]) /\ Busy(o) /\ UNCHANGED files /\ r.pc = "shell"
    BY <1>2, <2>1, <1>0 DEF Escalate, ShellCheckFails, BecomesOf, RunStays, Busy, run
  <2>3. [r EXCEPT !.pc = c] \in OrchSet
    BY <1>0, EditsTyped DEF PCs
  <2>. QED BY <2>2, <2>3, <1>0, GoesOnTo, Becomes DEF OrchSet, InAudit
<1>3. CASE ShellCheck(o) \/ Judge(o)
  <2>1. PICK v \in {"PASS", "FAIL", "UNAVAILABLE"}, e \in {"shell", "none", "single"} :
          orch' = Decide(o, v, e)
    BY <1>3 DEF ShellCheck, ClassifyVerdict, Judge
  <2>. DEFINE d == [r EXCEPT !.pc = "decide", !.verdict = v, !.evidence = e, !.shared = FALSE]
  <2>2. d \in OrchSet
    BY <1>0, EditsTyped
  <2>3. /\ d.pc = "decide" /\ d.path = r.path
        /\ d.phase = r.phase /\ d.attempts = r.attempts
        /\ d.inPhase = r.inPhase /\ d.inRound = r.inRound
    BY <1>0 DEF OrchSet
  <2>4. orch' = [p \in Orchs |-> IF p = o THEN d ELSE orch[p]]
    BY <1>0, <2>1 DEF Decide
  <2>5. RunStays /\ Busy(o) /\ UNCHANGED files /\ r.pc # "path"
    BY <1>3 DEF ShellCheck, Judge, Busy, RunStays, run
  <2>. HIDE DEF d
  <2>6. BecomesOf(o, d)
    BY <2>4, <2>5 DEF BecomesOf
  <2>7. GoesOn(o) /\ orch' \in [Orchs -> OrchSet]
    BY <2>2, <2>3, <2>5, <2>6, GoesOnTo
  <2>8. orch'[o] = d /\ \A p \in Orchs \ {o} : orch'[p] = orch[p]
    BY <2>2, <2>6, Becomes
  <2>. QED BY <2>3, <2>5, <2>7, <2>8 DEF InAudit
<1>. QED BY <1>1, <1>2, <1>3

\* slots, when it does not block the task: o is at a round of its own, unless
\* somebody else is at it, and then both are known to share it.
LEMMA SlotsAsked ==
  ASSUME GateType, NEW o \in Orchs, AskSlots(o), ~BlockTask(o)
  PROVE  \E m \in ManifestSet :
           /\ GoesOn(o) /\ orch' \in [Orchs -> OrchSet] /\ orch[o].pc = "slots"
           /\ orch'[o].pc = "next" /\ (orch'[o].shared <=> Partners(o) # {})
           /\ \A p \in Partners(o) : orch'[p].shared
           /\ Write(orch[o].path, [Round(o) EXCEPT !.manifest = m])
           /\ m.baseline = tree /\ TwoFamilies(m)
           /\ \A s \in Slots : m.snapshot[s] = NoSnapshot
<1>0. /\ orch[o] \in OrchSet /\ orch \in [Orchs -> OrchSet] /\ tree \in 0 .. MaxTree
      /\ orch[o].pc = "slots" /\ Busy(o)
  BY DEF GateType, OrchType, FilesType, AskSlots, Busy
<1>1. PICK c \in AuditConfigs :
        LET specs == ChosenSpecs(c.launch, c.prefs) IN
        /\ DualSlotsValid(specs)
        /\ Write(orch[o].path, [Round(o) EXCEPT !.manifest = NewManifest(specs, Snapshot)])
        /\ orch' = [p \in Orchs |->
             IF p = o THEN [orch[o] EXCEPT !.pc = "next", !.redo = {},
                                           !.shared = Partners(o) # {}]
             ELSE [orch[p] EXCEPT !.shared = @ \/ p \in Partners(o)]]
        /\ UNCHANGED <<task, run, tree, decided>>
  BY DEF AskSlots
<1>. DEFINE m == NewManifest(ChosenSpecs(c.launch, c.prefs), tree)
            b == Partners(o) # {}
            d == [orch[o] EXCEPT !.pc = "next", !.redo = {}, !.shared = b]
            e(p) == [orch[p] EXCEPT !.shared = orch[p].shared \/ p \in Partners(o)]
<1>2. /\ m \in ManifestSet /\ m.baseline = tree /\ TwoFamilies(m)
      /\ \A s \in Slots : m.snapshot[s] = NoSnapshot
  BY <1>0, <1>1, ManifestBegun
<1>3. Write(orch[o].path, [Round(o) EXCEPT !.manifest = m])
  BY <1>1 DEF Snapshot
<1>4. orch' = [p \in Orchs |-> IF p = o THEN d ELSE e(p)]
  BY <1>1
<1>5. /\ d \in OrchSet /\ d.pc = "next" /\ d.shared = b
      /\ d.phase = orch[o].phase /\ d.attempts = orch[o].attempts /\ d.path = orch[o].path
      /\ d.inPhase = orch[o].inPhase /\ d.inRound = orch[o].inRound
  <2>1. PICK x \in BOOLEAN : x = b
    OBVIOUS
  <2>2. d = [orch[o] EXCEPT !.pc = "next", !.redo = {}, !.shared = x]
    BY <2>1
  <2>3. d \in OrchSet
    BY <1>0, <2>2, SlotEditsTyped
  <2>4. /\ d.pc = "next" /\ d.shared = x
        /\ d.phase = orch[o].phase /\ d.attempts = orch[o].attempts /\ d.path = orch[o].path
        /\ d.inPhase = orch[o].inPhase /\ d.inRound = orch[o].inRound
    BY <1>0, <2>2 DEF OrchSet
  <2>. QED BY <2>1, <2>3, <2>4
<1>6. ASSUME NEW p \in Orchs
      PROVE  /\ e(p) \in OrchSet
             /\ e(p).shared = (orch[p].shared \/ p \in Partners(o))
             /\ e(p).pc = orch[p].pc /\ e(p).phase = orch[p].phase
             /\ e(p).attempts = orch[p].attempts /\ e(p).path = orch[p].path
             /\ e(p).verdict = orch[p].verdict /\ e(p).evidence = orch[p].evidence
             /\ e(p).slot = orch[p].slot /\ e(p).saw = orch[p].saw
             /\ e(p).seen = orch[p].seen
             /\ e(p).inPhase = orch[p].inPhase /\ e(p).inRound = orch[p].inRound
  <2>1. PICK x \in BOOLEAN : x = (orch[p].shared \/ p \in Partners(o))
    OBVIOUS
  <2>2. e(p) = [orch[p] EXCEPT !.shared = x] /\ orch[p] \in OrchSet
    BY <1>0, <2>1
  <2>3. e(p) \in OrchSet
    BY <2>2, EditsTyped
  <2>4. /\ e(p).shared = x
        /\ e(p).pc = orch[p].pc /\ e(p).phase = orch[p].phase
        /\ e(p).attempts = orch[p].attempts /\ e(p).path = orch[p].path
        /\ e(p).verdict = orch[p].verdict /\ e(p).evidence = orch[p].evidence
        /\ e(p).slot = orch[p].slot /\ e(p).saw = orch[p].saw
        /\ e(p).seen = orch[p].seen
        /\ e(p).inPhase = orch[p].inPhase /\ e(p).inRound = orch[p].inRound
    BY <2>2 DEF OrchSet
  <2>. QED BY <2>1, <2>3, <2>4
<1>. HIDE DEF d, e, m
<1>7. orch' \in [Orchs -> OrchSet] /\ orch'[o] = d /\ \A p \in Orchs \ {o} : orch'[p] = e(p)
  BY <1>4, <1>5, <1>6
<1>8. OnlyMoves(o) /\ RunStays
  <2>1. RunStays
    BY <1>1 DEF RunStays, run
  <2>2. ASSUME NEW p \in Orchs \ {o}
        PROVE  Keeps(p) /\ orch'[p].inPhase = orch[p].inPhase
               /\ orch'[p].inRound = orch[p].inRound
    <3>1. orch'[p] = e(p)
      BY <1>7
    <3>2. orch[p].shared => orch'[p].shared
      BY <1>6, <3>1
    <3>. QED BY <1>6, <3>1, <3>2 DEF Keeps
  <2>. QED BY <2>1, <2>2 DEF OnlyMoves
<1>9. \A p \in Partners(o) : orch'[p].shared
  BY <1>6, <1>7 DEF Partners
<1>10. GoesOn(o)
  BY <1>0, <1>5, <1>7, <1>8 DEF GoesOn
<1>. QED BY <1>0, <1>2, <1>3, <1>5, <1>7, <1>9, <1>10

-----------------------------------------------------------------------------
(* The calls of a dual audit, one by one. *)

SameRound(r, q) ==
  /\ r.phase = q.phase /\ r.attempts = q.attempts /\ r.path = q.path
  /\ r.inPhase = q.inPhase /\ r.inRound = q.inRound

\* A step within the round o is at.
LEMMA StepTo ==
  ASSUME GateType, NEW o \in Orchs, NEW r \in OrchSet, BecomesOf(o, r),
         Busy(o), orch[o].pc # "path", r.pc \notin {"idle", "dead", "path"},
         SameRound(r, orch[o])
  PROVE  /\ GoesOn(o) /\ orch' \in [Orchs -> OrchSet] /\ orch'[o] = r
         /\ \A p \in Orchs \ {o} : orch'[p] = orch[p]
BY GoesOnTo, Becomes DEF SameRound

\* next-slot and the launch: the verifier starts on the tree of now.
LEMMA SlotLaunched ==
  ASSUME GateType, NEW o \in Orchs, LaunchSlot(o)
  PROVE  /\ GoesOn(o) /\ orch' \in [Orchs -> OrchSet] /\ UNCHANGED files
         /\ \A p \in Orchs \ {o} : orch'[p] = orch[p]
         /\ orch[o].pc = "next" /\ orch'[o].shared = orch[o].shared
         /\ \/ orch'[o].pc = "synthesize"
            \/ orch'[o].pc = "judging" /\ orch'[o].slot \in Slots /\ orch'[o].saw = tree
<1>. DEFINE r == orch[o]
<1>0. r \in OrchSet /\ orch \in [Orchs -> OrchSet] /\ tree \in 0 .. MaxTree
  BY DEF GateType, OrchType, FilesType
<1>1. Busy(o) /\ r.pc = "next" /\ UNCHANGED files /\ RunStays
  BY DEF LaunchSlot, Busy, RunStays, run
<1>2. CASE orch' = [orch EXCEPT ![o].pc = "synthesize"]
  <2>. DEFINE d == [r EXCEPT !.pc = "synthesize"]
  <2>1. d \in OrchSet
    BY <1>0, EditsTyped DEF PCs
  <2>2. BecomesOf(o, d)
    BY <1>0, <1>1, <1>2 DEF BecomesOf
  <2>3. SameRound(d, r) /\ d.pc = "synthesize" /\ d.shared = r.shared
    BY <1>0 DEF OrchSet, SameRound
  <2>. HIDE DEF d
  <2>. QED BY <1>1, <2>1, <2>2, <2>3, StepTo
<1>3. ASSUME NEW s \in Slots,
             orch' = [orch EXCEPT ![o].pc = "judging", ![o].slot = s, ![o].saw = tree]
      PROVE  /\ GoesOn(o) /\ orch' \in [Orchs -> OrchSet] /\ orch'[o].shared = orch[o].shared
             /\ \A p \in Orchs \ {o} : orch'[p] = orch[p]
             /\ orch'[o].pc = "judging" /\ orch'[o].slot \in Slots /\ orch'[o].saw = tree
  <2>. DEFINE d == [r EXCEPT !.pc = "judging", !.slot = s, !.saw = tree]
  <2>1. d \in OrchSet
    BY <1>0, SlotEditsTyped
  <2>2. BecomesOf(o, d)
    BY <1>0, <1>1, <1>3 DEF BecomesOf
  <2>3. /\ SameRound(d, r) /\ d.pc = "judging" /\ d.shared = r.shared
        /\ d.slot = s /\ d.saw = tree
    BY <1>0 DEF OrchSet, SameRound
  <2>. HIDE DEF d
  <2>. QED BY <1>1, <2>1, <2>2, <2>3, StepTo
<1>4. r.redo \subseteq Slots /\ NextSlot(Round(o)) \in Slots \cup {"ready"}
  BY <1>0 DEF OrchSet, NextSlot, Slots
<1>. QED BY <1>1, <1>2, <1>3, <1>4 DEF LaunchSlot

\* The verifier ends: it has written the file of its slot or nothing.
LEMMA SlotJudged ==
  ASSUME GateType, NEW o \in Orchs, JudgeSlot(o) \/ JudgeSilently(o)
  PROVE  /\ GoesOn(o) /\ orch' \in [Orchs -> OrchSet]
         /\ \A p \in Orchs \ {o} : orch'[p] = orch[p]
         /\ orch[o].pc = "judging" /\ orch'[o].shared = orch[o].shared
         /\ orch'[o].pc = "record" /\ orch'[o].slot = orch[o].slot
         /\ \/ UNCHANGED files /\ (~Recordable(Round(o), orch[o].slot) \/ "silent" \in Mishaps)
            \/ \E d \in DocSet :
                 /\ d.on = (IF orch[o].saw = tree THEN tree ELSE NoSnapshot) /\ d # NoDoc
                 /\ Write(orch[o].path, [Round(o) EXCEPT !.doc[orch[o].slot] = d])
<1>. DEFINE r == orch[o]
            d == [r EXCEPT !.pc = "record", !.saw = NoSnapshot]
<1>0. r \in OrchSet /\ orch \in [Orchs -> OrchSet] /\ tree \in 0 .. MaxTree
  BY DEF GateType, OrchType, FilesType
<1>1. Busy(o) /\ r.pc = "judging" /\ RunStays
  BY DEF JudgeSlot, JudgeSilently, Busy, RunStays, run
<1>2. d \in OrchSet
  BY <1>0, SlotEditsTyped
<1>3. BecomesOf(o, d)
  BY <1>0, <1>1 DEF JudgeSlot, JudgeSilently, BecomesOf
<1>4. SameRound(d, r) /\ d.pc = "record" /\ d.shared = r.shared /\ d.slot = r.slot
  BY <1>0 DEF OrchSet, SameRound
<1>. HIDE DEF d
<1>5. /\ GoesOn(o) /\ orch' \in [Orchs -> OrchSet] /\ orch'[o] = d
      /\ \A p \in Orchs \ {o} : orch'[p] = orch[p]
  BY <1>1, <1>2, <1>3, <1>4, StepTo
<1>6. CASE JudgeSilently(o)
  BY <1>1, <1>4, <1>5, <1>6 DEF JudgeSilently
<1>7. CASE JudgeSlot(o)
  <2>1. PICK c \in Docs(o) : Write(r.path, [Round(o) EXCEPT !.doc[r.slot] = c])
    BY <1>7 DEF JudgeSlot
  <2>2. r.phase \in AllPhases \cup {"none"}
    BY <1>0 DEF OrchSet, VerifiedPhases
  <2>3. {tree, NoSnapshot} \subseteq NoSnapshot .. MaxTree
    BY <1>0, NothingTyped DEF NoSnapshot
  <2>4. /\ c \in DocSet /\ c # NoDoc
        /\ c.on = (IF r.saw = tree THEN tree ELSE NoSnapshot)
    BY <2>2, <2>3 DEF Docs, DocSet, NoDoc
  <2>. QED BY <1>1, <1>4, <1>5, <2>1, <2>4
<1>. QED BY <1>6, <1>7

\* The first half of record-slot reads the manifest, or the slot is tried again.
LEMMA SlotRecorded ==
  ASSUME GateType, NEW o \in Orchs, Record(o), ~BlockTask(o)
  PROVE  /\ GoesOn(o) /\ orch' \in [Orchs -> OrchSet] /\ UNCHANGED files
         /\ \A p \in Orchs \ {o} : orch'[p] = orch[p]
         /\ orch[o].pc = "record" /\ orch'[o].shared = orch[o].shared
         /\ \/ /\ orch'[o].pc = "write" /\ orch'[o].slot = orch[o].slot
               /\ orch'[o].seen = Round(o).manifest /\ Recordable(Round(o), orch[o].slot)
            \/ orch'[o].pc = "next" /\ ~Recordable(Round(o), orch[o].slot)
<1>. DEFINE r == orch[o]
<1>0. /\ r \in OrchSet /\ orch \in [Orchs -> OrchSet] /\ tree \in 0 .. MaxTree
      /\ Round(o).manifest \in ManifestSet
  BY RoundTyped DEF GateType, OrchType, FilesType, FileSet
<1>1. Busy(o) /\ r.pc = "record" /\ RunStays /\ UNCHANGED files
  BY DEF Record, Busy, RunStays, run
<1>2. CASE Recordable(Round(o), r.slot)
  <2>. DEFINE d == [r EXCEPT !.pc = "write", !.seen = Round(o).manifest]
  <2>1. d \in OrchSet
    BY <1>0, SlotEditsTyped
  <2>2. BecomesOf(o, d)
    BY <1>0, <1>1, <1>2 DEF Record, BecomesOf
  <2>3. /\ SameRound(d, r) /\ d.pc = "write" /\ d.shared = r.shared
        /\ d.slot = r.slot /\ d.seen = Round(o).manifest
    BY <1>0 DEF OrchSet, SameRound
  <2>. HIDE DEF d
  <2>. QED BY <1>1, <1>2, <2>1, <2>2, <2>3, StepTo
<1>3. CASE ~Recordable(Round(o), r.slot)
  <2>. DEFINE d == [r EXCEPT !.pc = "next", !.tries = r.tries + 1, !.slot = "none"]
  <2>1. d \in OrchSet
    BY <1>0, SlotEditsTyped
  <2>2. BecomesOf(o, d)
    BY <1>0, <1>1, <1>3 DEF Record, BecomesOf
  <2>3. SameRound(d, r) /\ d.pc = "next" /\ d.shared = r.shared
    BY <1>0 DEF OrchSet, SameRound
  <2>. HIDE DEF d
  <2>. QED BY <1>1, <1>3, <2>1, <2>2, <2>3, StepTo
<1>. QED BY <1>2, <1>3

\* The second half writes back what was read, with the snapshot of now.
LEMMA RecordWritten ==
  ASSUME GateType, NEW o \in Orchs, WriteRecord(o)
  PROVE  /\ GoesOn(o) /\ orch' \in [Orchs -> OrchSet]
         /\ \A p \in Orchs \ {o} : orch'[p] = orch[p]
         /\ orch[o].pc = "write" /\ orch'[o].shared = orch[o].shared /\ orch'[o].pc = "next"
         /\ Write(orch[o].path,
                  [Round(o) EXCEPT !.manifest = Recorded(orch[o].seen, orch[o].slot, tree)])
<1>. DEFINE r == orch[o]
            d == [r EXCEPT !.pc = "next", !.tries = 0, !.slot = "none",
                           !.redo = r.redo \ {r.slot}, !.seen = NoManifest]
<1>0. r \in OrchSet /\ orch \in [Orchs -> OrchSet] /\ tree \in 0 .. MaxTree
  BY DEF GateType, OrchType, FilesType
<1>1. Busy(o) /\ r.pc = "write" /\ RunStays
  BY DEF WriteRecord, Busy, RunStays, run
<1>2. r.redo \ {r.slot} \in SUBSET Slots
  BY <1>0 DEF OrchSet
<1>3. d \in OrchSet
  BY <1>0, <1>2, SlotEditsTyped
<1>4. BecomesOf(o, d)
  BY <1>0, <1>1 DEF WriteRecord, BecomesOf
<1>5. SameRound(d, r) /\ d.pc = "next" /\ d.shared = r.shared
  BY <1>0 DEF OrchSet, SameRound
<1>. HIDE DEF d
<1>6. /\ GoesOn(o) /\ orch' \in [Orchs -> OrchSet] /\ orch'[o] = d
      /\ \A p \in Orchs \ {o} : orch'[p] = orch[p]
  BY <1>1, <1>3, <1>4, <1>5, StepTo
<1>. QED BY <1>1, <1>5, <1>6 DEF WriteRecord, Snapshot

\* synthesize: a verdict, slots to be judged again, or a new round of slots.
LEMMA Synthesized ==
  ASSUME GateType, NEW o \in Orchs, Synthesize(o)
  PROVE  /\ GoesOn(o) /\ orch' \in [Orchs -> OrchSet] /\ UNCHANGED files
         /\ \A p \in Orchs \ {o} : orch'[p] = orch[p]
         /\ orch[o].pc = "synthesize"
         /\ \/ orch'[o].pc \in {"next", "slots"} /\ orch'[o].shared = orch[o].shared
            \/ /\ orch'[o].pc = "decide" /\ orch'[o].verdict = Synthesis(Round(o))
               /\ orch'[o].evidence = EvidenceOf(o)
<1>. DEFINE r == orch[o]
            f == Round(o)
<1>0. r \in OrchSet /\ orch \in [Orchs -> OrchSet] /\ tree \in 0 .. MaxTree
  BY DEF GateType, OrchType, FilesType
<1>1. Busy(o) /\ r.pc = "synthesize" /\ RunStays /\ UNCHANGED files
  BY DEF Synthesize, Busy, RunStays, run
<1>2. CASE Synthesis(f) = "incomplete"
  <2>. DEFINE d == [r EXCEPT !.pc = "next", !.redo = IncompleteSlots(f)]
  <2>1. IncompleteSlots(f) \in SUBSET Slots
    BY DEF IncompleteSlots, MissingSlots, MalformedSlots, UnrecordedSlots
  <2>2. d \in OrchSet
    BY <1>0, <2>1, SlotEditsTyped
  <2>3. BecomesOf(o, d)
    BY <1>0, <1>1, <1>2 DEF Synthesize, BecomesOf
  <2>4. SameRound(d, r) /\ d.pc = "next" /\ d.shared = r.shared
    BY <1>0 DEF OrchSet, SameRound
  <2>. HIDE DEF d
  <2>. QED BY <1>1, <2>2, <2>3, <2>4, StepTo
<1>3. CASE Synthesis(f) = "discarded"
  <2>. DEFINE d == [r EXCEPT !.pc = "slots"]
  <2>1. d \in OrchSet
    BY <1>0, EditsTyped DEF PCs
  <2>2. BecomesOf(o, d)
    BY <1>0, <1>1, <1>3 DEF Synthesize, BecomesOf
  <2>3. SameRound(d, r) /\ d.pc = "slots" /\ d.shared = r.shared
    BY <1>0 DEF OrchSet, SameRound
  <2>. HIDE DEF d
  <2>. QED BY <1>1, <2>1, <2>2, <2>3, StepTo
<1>4. CASE Synthesis(f) \in {"PASS", "FAIL"}
  <2>1. PICK v \in {"PASS", "FAIL"} : v = Synthesis(f)
    BY <1>4
  <2>2. PICK e \in {"dual", "shared", "none"} : e = EvidenceOf(o)
    BY DEF EvidenceOf
  <2>. DEFINE d == [r EXCEPT !.pc = "decide", !.verdict = v, !.evidence = e, !.shared = FALSE]
  <2>3. d \in OrchSet
    BY <1>0, EditsTyped
  <2>4. orch' = Decide(o, v, e)
    BY <1>4, <2>1, <2>2 DEF Synthesize
  <2>5. BecomesOf(o, d)
    BY <1>0, <1>1, <2>4 DEF Decide, BecomesOf
  <2>6. SameRound(d, r) /\ d.pc = "decide" /\ d.verdict = v /\ d.evidence = e
    BY <1>0 DEF OrchSet, SameRound
  <2>. HIDE DEF d
  <2>. QED BY <1>1, <2>1, <2>2, <2>3, <2>5, <2>6, StepTo
<1>5. Synthesis(f) \in {"incomplete", "discarded", "PASS", "FAIL"}
  BY DEF Synthesis
<1>. QED BY <1>2, <1>3, <1>4, <1>5

\* The calls of a dual audit leave its files well-formed.
LEMMA RoundSteps ==
  ASSUME GateType, NEW o \in Orchs,
         \/ AskSlots(o) \/ LaunchSlot(o) \/ JudgeSlot(o) \/ JudgeSilently(o)
         \/ Record(o) \/ WriteRecord(o) \/ Synthesize(o)
  PROVE  \/ /\ GoesOn(o) /\ orch' \in [Orchs -> OrchSet] /\ FilesType'
            /\ orch'[o].pc \in {"judging", "record", "write"} => orch'[o].slot \in Slots
         \/ Busy(o) /\ BlockTask(o)
<1>. DEFINE q == orch[o].path
            f == Round(o)
<1>0. /\ FilesType /\ tree \in 0 .. MaxTree /\ f \in FileSet
      /\ orch[o].pc \in {"judging", "record", "write"} => orch[o].slot \in Slots
      /\ orch[o].pc \in InAudit => q \in DOMAIN files /\ Based(f.manifest)
  BY RoundTyped DEF GateType, OrchType, FilesType
<1>1. ASSUME GoesOn(o), orch'[o].path = q, NEW g \in FileSet, Based(g.manifest), Write(q, g),
             orch'[o].pc # "write"
      PROVE  FilesType'
  <2>1. tree' = tree
    BY <1>1 DEF GoesOn, RunStays
  <2>2. \A p \in Orchs : orch'[p].pc \in InAudit =>
          orch'[p].path = q \/ (orch[p].pc \in InAudit /\ orch'[p].path = orch[p].path)
    BY <1>1 DEF GoesOn, OnlyMoves, Keeps
  <2>3. \A p \in Orchs : orch'[p].pc = "write" => Based(orch'[p].seen)
    BY <1>0, <1>1 DEF GoesOn, OnlyMoves, Keeps, FilesType
  <2>. QED BY <1>0, <1>1, <2>1, <2>2, <2>3, Written
<1>2. ASSUME GoesOn(o), UNCHANGED files, orch'[o].path = q,
             orch'[o].pc \in InAudit => orch[o].pc \in InAudit,
             orch'[o].pc = "write" => Based(orch'[o].seen)
      PROVE  FilesType'
  <2>1. UNCHANGED <<tree, files>>
    BY <1>2 DEF GoesOn, RunStays
  <2>2. \A p \in Orchs : orch'[p].pc \in InAudit =>
          /\ orch[p].pc \in InAudit /\ orch'[p].path = orch[p].path
          /\ orch'[p].pc = "write" => Based(orch'[p].seen)
    BY <1>0, <1>2 DEF GoesOn, OnlyMoves, Keeps, FilesType
  <2>. QED BY <1>0, <2>1, <2>2, FilesStay
<1>3. GoesOn(o) /\ orch[o].pc # "path" => orch'[o].path = q
  BY DEF GoesOn
<1>4. CASE AskSlots(o) /\ ~BlockTask(o)
  <2>1. PICK m \in ManifestSet :
          /\ GoesOn(o) /\ orch' \in [Orchs -> OrchSet] /\ orch[o].pc = "slots"
          /\ orch'[o].pc = "next"
          /\ Write(q, [f EXCEPT !.manifest = m]) /\ m.baseline = tree
    BY <1>4, SlotsAsked
  <2>2. Based(m)
    BY <1>0, <2>1 DEF Based
  <2>3. [f EXCEPT !.manifest = m] \in FileSet /\ [f EXCEPT !.manifest = m].manifest = m
    BY <1>0, FileEdits
  <2>4. PICK g \in FileSet : g = [f EXCEPT !.manifest = m]
    BY <2>3
  <2>. QED BY <1>1, <1>3, <2>1, <2>2, <2>3, <2>4
<1>5. CASE LaunchSlot(o)
  BY <1>2, <1>3, <1>5, SlotLaunched DEF InAudit
<1>6. CASE JudgeSlot(o) \/ JudgeSilently(o)
  <2>1. /\ GoesOn(o) /\ orch' \in [Orchs -> OrchSet] /\ orch[o].pc = "judging"
        /\ orch'[o].pc = "record" /\ orch'[o].slot = orch[o].slot /\ orch[o].slot \in Slots
    BY <1>0, <1>6, SlotJudged
  <2>2. CASE UNCHANGED files
    BY <1>2, <1>3, <2>1, <2>2 DEF InAudit
  <2>3. ASSUME NEW d \in DocSet, Write(q, [f EXCEPT !.doc[orch[o].slot] = d])
        PROVE  FilesType'
    <3>1. PICK s \in Slots : s = orch[o].slot
      BY <2>1
    <3>2. [f EXCEPT !.doc[s] = d] \in FileSet /\ [f EXCEPT !.doc[s] = d].manifest = f.manifest
      BY <1>0, FileEdits
    <3>3. PICK g \in FileSet : g = [f EXCEPT !.doc[s] = d]
      BY <3>2
    <3>4. Based(g.manifest)
      BY <1>0, <2>1, <3>2, <3>3 DEF InAudit
    <3>. QED BY <1>1, <1>3, <2>1, <2>3, <3>1, <3>3, <3>4
  <2>. QED BY <1>6, <2>1, <2>2, <2>3, SlotJudged
<1>7. CASE Record(o) /\ ~BlockTask(o)
  <2>1. /\ GoesOn(o) /\ orch' \in [Orchs -> OrchSet] /\ UNCHANGED files
        /\ orch[o].pc = "record"
        /\ \/ orch'[o].pc = "write" /\ orch'[o].slot = orch[o].slot
              /\ orch'[o].seen = f.manifest
           \/ orch'[o].pc = "next"
    BY <1>7, SlotRecorded
  <2>2. orch'[o].pc = "write" => Based(orch'[o].seen)
    <3>1. orch'[o].pc = "write" => orch'[o].seen = f.manifest
      BY <2>1
    <3>. QED BY <1>0, <2>1, <3>1 DEF InAudit
  <2>. QED BY <1>0, <1>2, <1>3, <2>1, <2>2 DEF InAudit
<1>8. CASE WriteRecord(o)
  <2>1. /\ GoesOn(o) /\ orch' \in [Orchs -> OrchSet] /\ orch[o].pc = "write"
        /\ orch'[o].pc = "next"
        /\ Write(q, [f EXCEPT !.manifest = Recorded(orch[o].seen, orch[o].slot, tree)])
    BY <1>8, RecordWritten
  <2>2. PICK m \in ManifestSet : m = orch[o].seen
    BY DEF GateType, OrchType, OrchSet
  <2>3. PICK s \in Slots : s = orch[o].slot
    BY <1>0, <2>1
  <2>4. PICK n \in ManifestSet : n = Recorded(m, s, tree)
    BY <1>0, ManifestRecorded
  <2>5. Based(n)
    <3>1. n.baseline = m.baseline
      BY <1>0, <2>4, ManifestRecorded
    <3>2. Based(m)
      BY <1>0, <2>1, <2>2 DEF FilesType
    <3>. QED BY <3>1, <3>2 DEF Based
  <2>6. [f EXCEPT !.manifest = n] \in FileSet /\ [f EXCEPT !.manifest = n].manifest = n
    BY <1>0, FileEdits
  <2>7. PICK g \in FileSet : g = [f EXCEPT !.manifest = n]
    BY <2>6
  <2>. QED BY <1>1, <1>3, <2>1, <2>2, <2>3, <2>4, <2>5, <2>6, <2>7
<1>9. CASE Synthesize(o)
  BY <1>2, <1>3, <1>9, Synthesized DEF InAudit
<1>10. AskSlots(o) \/ Record(o) => Busy(o)
  BY DEF AskSlots, Record, Busy
<1>. QED BY <1>4, <1>5, <1>6, <1>7, <1>8, <1>9, <1>10

-----------------------------------------------------------------------------
(* The calls that decide, and the ends of an iteration. *)

\* The run moves: the others go on with what they have, and know no better.
LEMMA MovedOn ==
  ASSUME NEW os \in [Orchs -> OrchSet], NEW same \in BOOLEAN, NEW p \in Orchs
  PROVE  LET n == Moved(os, same)[p] IN
         /\ n \in OrchSet
         /\ n.inPhase = (os[p].inPhase /\ same)
         /\ n.pc = os[p].pc /\ n.phase = os[p].phase /\ n.attempts = os[p].attempts
         /\ n.path = os[p].path /\ n.verdict = os[p].verdict
         /\ n.evidence = os[p].evidence /\ n.slot = os[p].slot /\ n.saw = os[p].saw
         /\ n.seen = os[p].seen /\ n.shared = os[p].shared
<1>. DEFINE b == os[p].inPhase /\ same
<1>1. Moved(os, same)[p] = [os[p] EXCEPT !.inPhase = b, !.inRound = FALSE]
  BY DEF Moved
<1>2. b \in BOOLEAN
  OBVIOUS
<1>. HIDE DEF b
<1>3. PICK r \in OrchSet : r = os[p]
  OBVIOUS
<1>4. PICK c \in BOOLEAN : c = b
  BY <1>2
<1>5. Moved(os, same)[p] = [r EXCEPT !.inPhase = c, !.inRound = FALSE]
  BY <1>1, <1>3, <1>4
<1>6. LET n == Moved(os, same)[p] IN
      /\ n \in OrchSet /\ n.inPhase = c
      /\ n.pc = r.pc /\ n.phase = r.phase /\ n.attempts = r.attempts
      /\ n.path = r.path /\ n.verdict = r.verdict /\ n.evidence = r.evidence
      /\ n.slot = r.slot /\ n.saw = r.saw /\ n.seen = r.seen /\ n.shared = r.shared
  BY <1>5 DEF OrchSet
<1>. QED BY <1>3, <1>4, <1>6 DEF b

\* The run moves: the others keep what they have, and their visit if it is the same.
LEMMA OthersKeep ==
  ASSUME OrchType, NEW o \in Orchs, NEW same \in BOOLEAN,
         orch' = Moved([orch EXCEPT ![o] = Idle], same)
  PROVE  /\ orch' \in [Orchs -> OrchSet]
         /\ orch'[o].pc = "idle" /\ orch'[o].phase = "none"
         /\ \A p \in Orchs \ {o} :
              Keeps(p) /\ orch'[p].inPhase = (orch[p].inPhase /\ same)
<1>. DEFINE os == [orch EXCEPT ![o] = Idle]
<1>1. os \in [Orchs -> OrchSet]
  BY IdleTyped DEF OrchType
<1>2. os[o] = Idle /\ \A p \in Orchs \ {o} : os[p] = orch[p]
  BY DEF OrchType
<1>3. orch' = Moved(os, same)
  OBVIOUS
<1>. HIDE DEF os
<1>4. \A p \in Orchs : orch'[p] \in OrchSet
  BY <1>1, <1>3, MovedOn
<1>5. orch' = [p \in Orchs |-> orch'[p]]
  BY <1>3 DEF Moved
<1>6. orch'[o].pc = "idle" /\ orch'[o].phase = "none"
  BY <1>1, <1>2, <1>3, MovedOn, IdleTyped
<1>7. ASSUME NEW p \in Orchs \ {o}
      PROVE  Keeps(p) /\ orch'[p].inPhase = (orch[p].inPhase /\ same)
  BY <1>1, <1>2, <1>3, MovedOn DEF Keeps
<1>. QED BY <1>4, <1>5, <1>6, <1>7

\* What ends an iteration, or begins one.
LEMMA DecidingSteps ==
  ASSUME GateType, NEW o \in Orchs,
         Iterate(o) \/ Pass(o) \/ Fail(o) \/ GiveUp(o) \/ Crash(o) \/ (Busy(o) /\ BlockTask(o))
  PROVE  Decides(o) /\ orch' \in [Orchs -> OrchSet]
<1>0. orch \in [Orchs -> OrchSet] /\ OrchType
  BY DEF GateType, OrchType
<1>1. CASE Iterate(o)
  <2>1. node.phase \in VerifiedPhases /\ node.attempts \in 0 .. RetryLimit - 1
    BY <1>1 DEF Iterate, GateType, NodeType
  <2>. DEFINE d == [Idle EXCEPT !.pc = "path", !.phase = node.phase,
                                !.attempts = node.attempts, !.inPhase = TRUE, !.inRound = TRUE]
  <2>2. d \in OrchSet
    BY <2>1, IdleTyped DEF OrchSet, PCs
  <2>3. orch' = [orch EXCEPT ![o] = d]
    BY <1>1 DEF Iterate
  <2>. HIDE DEF d
  <2>4. orch' \in [Orchs -> OrchSet]
    BY <2>2, <2>3, <1>0
  <2>. QED BY <1>1, <2>4 DEF Decides
<1>2. ASSUME Busy(o), RunStays, ForgetRounds, NEW d \in {Idle, [Idle EXCEPT !.pc = "dead"]},
             orch' = [orch EXCEPT ![o] = d]
      PROVE  Leaves(o) /\ orch' \in [Orchs -> OrchSet]
  BY <1>2, <1>0, IdleTyped DEF Leaves, OnlyMoves, Keeps
<1>3. CASE Crash(o)
  BY <1>3, <1>2 DEF Crash, Busy, RunStays, run, Decides
<1>4. CASE Pass(o)
  <2>1. CASE orch' = [orch EXCEPT ![o] = Idle] /\ UNCHANGED <<node, done, decided>>
    BY <1>4, <2>1, <1>2 DEF Pass, Busy, RunStays, Decides
  <2>2. CASE Passes(o)
    BY <2>2, <1>0, OthersKeep DEF Passes, Decides
  <2>. QED BY <1>4, <2>1, <2>2 DEF Pass, Passes
<1>5. CASE Fail(o)
  <2>1. CASE orch' = [orch EXCEPT ![o] = Idle] /\ UNCHANGED <<node, done, decided>>
    BY <1>5, <2>1, <1>2 DEF Fail, Busy, RunStays, Decides
  <2>2. CASE Fails(o)
    BY <2>2, <1>0, OthersKeep DEF Fails, Decides
  <2>. QED BY <1>5, <2>1, <2>2 DEF Fail, Fails
<1>6. CASE Busy(o) /\ BlockTask(o)
  <2>1. CASE Blocks(o)
    BY <2>1, <1>0, OthersKeep DEF Blocks, Decides
  <2>2. CASE Leaves(o) /\ orch' = [orch EXCEPT ![o] = Idle]
    BY <1>0, <2>2, IdleTyped DEF Decides
  <2>. QED BY <1>6, <2>1, <2>2, BlockShape
<1>7. CASE GiveUp(o)
  <2>1. Busy(o) /\ BlockTask(o)
    BY <1>7 DEF GiveUp, Busy
  <2>. QED BY <1>6, <2>1
<1>. QED BY <1>1, <1>3, <1>4, <1>5, <1>6, <1>7

-----------------------------------------------------------------------------
(* Types are kept. *)

\* Decisions, and what begins or ends an iteration, leave the files well-formed.
LEMMA FilesDecided ==
  ASSUME GateType, NEW o \in Orchs, Decides(o)
  PROVE  FilesType'
<1>0. FilesType /\ OrchType
  BY DEF GateType
<1>1. ASSUME tree' = tree, UNCHANGED files \/ ForgetRounds, orch'[o].pc \notin InAudit,
             \A p \in Orchs \ {o} : Keeps(p)
      PROVE  FilesType'
  <2>1. \A p \in Orchs : orch'[p].pc \in InAudit =>
          /\ orch'[p].pc = orch[p].pc /\ orch'[p].path = orch[p].path
          /\ orch'[p].seen = orch[p].seen
    BY <1>1 DEF Keeps
  <2>2. CASE ForgetRounds
    BY <1>0, <1>1, <2>1, <2>2, Forgotten
  <2>3. CASE UNCHANGED files
    BY <1>0, <1>1, <2>1, <2>3, FilesStay DEF FilesType
  <2>. QED BY <1>1, <2>2, <2>3
<1>2. CASE Iterate(o)
  <2>1. orch'[o].pc = "path"
    <3>1. orch \in [Orchs -> OrchSet] /\ Idle \in OrchSet
      BY <1>0, IdleTyped DEF OrchType
    <3>2. PICK i \in OrchSet : i = Idle
      BY <3>1
    <3>. QED BY <1>2, <3>1, <3>2 DEF Iterate, OrchSet
  <2>2. \A p \in Orchs \ {o} : orch'[p] = orch[p]
    BY <1>0, <1>2 DEF Iterate, OrchType
  <2>3. \A p \in Orchs \ {o} : Keeps(p)
    BY <2>2 DEF Keeps
  <2>. QED BY <1>1, <1>2, <2>1, <2>3 DEF Iterate, InAudit
<1>3. CASE Leaves(o)
  <2>1. orch'[o].pc \in {"idle", "dead"}
    BY <1>3, IdleTyped DEF Leaves
  <2>. QED BY <1>1, <1>3, <2>1 DEF Leaves, RunStays, OnlyMoves, InAudit
<1>4. CASE Blocks(o) \/ Passes(o) \/ Fails(o)
  <2>1. PICK same \in BOOLEAN : orch' = Moved([orch EXCEPT ![o] = Idle], same)
    BY <1>4 DEF Blocks, Passes, Fails
  <2>2. orch'[o].pc = "idle" /\ \A p \in Orchs \ {o} : Keeps(p)
    BY <1>0, <2>1, OthersKeep
  <2>. QED BY <1>1, <1>4, <2>2 DEF Blocks, Passes, Fails, InAudit
<1>. QED BY <1>2, <1>3, <1>4 DEF Decides

\* A step of an orchestrator, its own locals apart.
LEMMA GateStepShape ==
  ASSUME GateType, NEW o \in Orchs, GateStep(o) \/ Crash(o)
  PROVE  /\ orch' \in [Orchs -> OrchSet] /\ FilesType'
         /\ \/ /\ GoesOn(o)
               /\ orch'[o].pc \in {"judging", "record", "write"} => orch'[o].slot \in Slots
            \/ Decides(o)
<1>1. CASE AskPath(o) \/ Escalate(o) \/ ShellCheck(o) \/ ShellCheckFails(o) \/ Judge(o)
  <2>1. /\ GoesOn(o) \/ Leaves(o)
        /\ orch' \in [Orchs -> OrchSet]
        /\ UNCHANGED files /\ orch'[o].pc \notin InAudit
        /\ \A p \in Orchs \ {o} : orch'[p] = orch[p]
    BY <1>1, FirstSteps
  <2>2. tree' = tree
    BY <2>1 DEF GoesOn, Leaves, RunStays
  <2>3. \A p \in Orchs : orch'[p].pc = "write" => Based(orch'[p].seen)
    BY <2>1 DEF GateType, FilesType, InAudit
  <2>4. FilesType'
    BY <2>1, <2>2, <2>3, FilesStay DEF GateType
  <2>. QED BY <2>1, <2>4 DEF Decides, InAudit
<1>2. CASE \/ AskSlots(o) \/ LaunchSlot(o) \/ JudgeSlot(o) \/ JudgeSilently(o)
           \/ Record(o) \/ WriteRecord(o) \/ Synthesize(o)
  BY <1>2, RoundSteps, DecidingSteps, FilesDecided
<1>3. CASE Iterate(o) \/ Pass(o) \/ Fail(o) \/ GiveUp(o) \/ Crash(o)
  BY <1>3, DecidingSteps, FilesDecided
<1>. QED BY <1>1, <1>2, <1>3 DEF GateStep

\* The types hold before the first claim.
LEMMA TypeInit == Init => GateType
<1>. SUFFICES ASSUME Init PROVE GateType
  OBVIOUS
<1>. USE GateAssumption DEF Init
<1>1. NodeType /\ node.kind = "none"
  BY DEF NodeType, NoRun, Kinds, Gates, AllPhases
<1>2. FixIsAsked
  BY <1>1 DEF FixIsAsked, NoSeq
<1>3. ArtifactsNumbered
  <2>1. Resolutions = {0}
    BY DEF Resolutions, NoSeq
  <2>2. Resolution = 0
    BY <2>1, MaxIs DEF Resolution, Resolutions, MaxArtifactSeq
  <2>. QED BY <2>1, <2>2 DEF ArtifactsNumbered
<1>4. orch \in [Orchs -> OrchSet] /\ \A o \in Orchs : orch[o].pc = "idle" /\ orch[o].phase = "none"
  BY IdleTyped
<1>5. OrchType
  BY <1>4 DEF OrchType, Busy
<1>6. FilesType
  BY <1>4 DEF FilesType, InAudit
<1>7. Untouched
  BY <1>4 DEF Untouched, Busy
<1>. QED BY <1>1, <1>2, <1>3, <1>5, <1>6, <1>7 DEF GateType

\* The orchestrators step.
LEMMA GateStepTypes ==
  ASSUME GateType, NEW o \in Orchs, GateStep(o) \/ Crash(o)
  PROVE  GateType'
<1>0. /\ OrchType /\ NodeType /\ FixIsAsked /\ ArtifactsNumbered /\ Untouched
      /\ orch' \in [Orchs -> OrchSet] /\ runs \in Nat /\ task \in Tasks
      /\ decided \subseteq PathSet /\ resolved \in BOOLEAN /\ FilesType'
  BY GateStepShape DEF GateType
<1>1. ASSUME OrchType', UNCHANGED <<task, node, done, resolved, open, asks, decided>>,
             runs # 0
      PROVE  GateType'
  BY <1>0, <1>1 DEF GateType, NodeType, FixIsAsked, ArtifactsNumbered, Resolution,
     Resolutions, Untouched, asks
<1>2. Busy(o) => runs # 0
  BY <1>0 DEF Untouched
<1>3. DecidedBy(o) \subseteq PathSet
  BY <1>0 DEF OrchType, OrchSet, DecidedBy
<1>4. ASSUME OnlyMoves(o), Busy(o)' <=> orch'[o].phase # "none",
             orch'[o].pc \in {"judging", "record", "write"} => orch'[o].slot \in Slots
      PROVE  OrchType'
  BY <1>0, <1>4 DEF OrchType, OnlyMoves, Keeps, Busy
<1>5. CASE GoesOn(o) /\ (orch'[o].pc \in {"judging", "record", "write"} => orch'[o].slot \in Slots)
  <2>1. OrchType'
    BY <1>0, <1>4, <1>5 DEF OrchType, GoesOn, Busy
  <2>. QED BY <1>1, <1>2, <1>5, <2>1 DEF GoesOn, RunStays
<1>6. CASE Leaves(o)
  <2>1. OrchType'
    BY <1>0, <1>4, <1>6, IdleTyped DEF Leaves, Busy
  <2>. QED BY <1>1, <1>2, <1>6, <2>1 DEF Leaves, RunStays
<1>7. CASE Iterate(o)
  <2>1. node.phase \in VerifiedPhases /\ node # NoRun /\ "none" \notin VerifiedPhases
    BY <1>7 DEF Iterate, GateType, NoRun, VerifiedPhases, AllPhases
  <2>2. orch'[o].pc = "path" /\ orch'[o].phase = node.phase /\ OnlyMoves(o)
    BY <1>7, <1>0, IdleTyped DEF Iterate, OrchType, OnlyMoves, Keeps, OrchSet
  <2>3. OrchType'
    BY <1>4, <2>1, <2>2 DEF Busy
  <2>4. runs # 0
    BY <2>1, <1>0 DEF Untouched
  <2>. QED BY <1>1, <1>7, <2>3, <2>4 DEF Iterate, run
<1>8. ASSUME NEW same \in BOOLEAN, orch' = Moved([orch EXCEPT ![o] = Idle], same)
      PROVE  OrchType'
  <2>1. /\ orch'[o].pc = "idle" /\ orch'[o].phase = "none"
        /\ \A p \in Orchs \ {o} : Keeps(p)
    BY <1>0, <1>8, OthersKeep
  <2>. QED BY <1>0, <2>1 DEF OrchType, Busy, Keeps
<1>9. CASE Blocks(o)
  <2>1. OrchType'
    BY <1>8, <1>9 DEF Blocks
  <2>2. NodeType' /\ FixIsAsked' /\ node'.kind = "none"
    BY <1>0, <1>9, GateAssumption
       DEF Blocks, NodeType, FixIsAsked, NoRun, asks, Kinds, Gates, AllPhases
  <2>3. ArtifactsNumbered' /\ runs' # 0
    BY <1>0, <1>2, <1>9 DEF Blocks, ArtifactsNumbered, Resolution, Resolutions, asks
  <2>. QED BY <1>0, <1>9, <2>1, <2>2, <2>3 DEF GateType, Untouched, Blocks, asks
<1>10. CASE Passes(o)
  <2>1. OrchType'
    BY <1>8, <1>10 DEF Passes
  <2>2. PICK to \in AllPhases : Advance(orch[o].phase, to)
    BY <1>10 DEF Passes
  <2>3. node.phase \in VerifiedPhases /\ node' = [node EXCEPT !.phase = to, !.attempts = 0]
    BY <1>0, <1>10, <2>2 DEF Passes, Advance, OrchType, OrchSet, Busy
  <2>4. to \in {"plan", "implement", "report", "finalize"}
        /\ (to # "finalize" => node.kind = "initial")
        /\ (to = "plan" => node.gate = "full")
    BY <1>0, <2>2, <2>3, Edges DEF Advance
  <2>5. NodeType'
    <3>1. /\ node'.kind = node.kind /\ node'.gate = node.gate
          /\ node'.phase = to /\ node'.attempts = 0
          /\ node' \in [kind : Kinds \cup {"none"}, gate : Gates,
                       phase : AllPhases \cup {"none"}, attempts : 0 .. RetryLimit - 1]
      BY <1>0, <2>3, Rounds DEF NodeType
    <3>2. node # NoRun
      BY <2>3 DEF NoRun, VerifiedPhases, AllPhases
    <3>. QED BY <1>0, <2>4, <3>1, <3>2 DEF NodeType
  <2>6. FixIsAsked' /\ ArtifactsNumbered' /\ runs' = runs /\ runs # 0
    BY <1>0, <1>2, <1>10, <2>3 DEF Passes, FixIsAsked, NodeType, ArtifactsNumbered,
       Resolution, Resolutions, asks, Busy
  <2>7. decided' \subseteq PathSet
    BY <1>0, <1>3, <1>10 DEF Passes, Lasting
  <2>. QED BY <1>0, <1>10, <2>1, <2>5, <2>6, <2>7 DEF GateType, Untouched, Passes, asks
<1>11. CASE Fails(o)
  <2>1. OrchType'
    BY <1>8, <1>11 DEF Fails
  <2>2. /\ node' = [node EXCEPT !.attempts = node.attempts + 1]
        /\ node.attempts + 1 \in 0 .. RetryLimit - 1
        /\ node.phase \in VerifiedPhases
    <3>1. node.attempts = orch[o].attempts /\ node.attempts \in 0 .. RetryLimit - 1
      BY <1>0, <1>11 DEF Fails, PhaseFail, NodeType
    <3>2. ~(orch[o].attempts + 1 >= RetryLimit)
      BY <1>11 DEF Fails, LastRound
    <3>3. node.phase \in VerifiedPhases
      BY <1>0, <1>11 DEF Fails, PhaseFail, OrchType, OrchSet, Busy
    <3>. QED BY <1>11, <3>1, <3>2, <3>3, GateAssumption DEF Fails, PhaseFail
  <2>3. NodeType' /\ node'.kind = node.kind
    BY <1>0, <2>2 DEF NodeType, NoRun, VerifiedPhases, AllPhases
  <2>4. FixIsAsked' /\ ArtifactsNumbered' /\ runs' = runs /\ runs # 0
    BY <1>0, <1>2, <1>11, <2>3 DEF Fails, FixIsAsked, ArtifactsNumbered,
       Resolution, Resolutions, asks, Busy
  <2>5. decided' \subseteq PathSet
    BY <1>0, <1>3, <1>11 DEF Fails
  <2>. QED BY <1>0, <1>11, <2>1, <2>3, <2>4, <2>5 DEF GateType, Untouched, Fails, asks
<1>. QED BY <1>5, <1>6, <1>7, <1>9, <1>10, <1>11, GateStepShape DEF Decides

\* A resolution that is done for the first time takes the next number.
LEMMA DoneNumbers ==
  ASSUME GateType, ExecutorDone
  PROVE  /\ ArtifactsNumbered'
         /\ Resolution' = IF node.phase = "rebase_fix" /\ ~resolved
                          THEN Resolution + 1 ELSE Resolution
<1>0. ArtifactsNumbered /\ FixIsAsked /\ NodeType
  BY DEF GateType
<1>1. CASE node.phase = "pr_fix"
  <2>1. /\ artifacts' = artifacts \cup {[artifact |-> "pr_fix", n |-> fixSeq]}
        /\ fixSeq \in Nat
    BY <1>0, <1>1 DEF ExecutorDone, FixIsAsked, NoSeq
  <2>2. Resolutions' = Resolutions
    BY <2>1 DEF Resolutions
  <2>3. Resolution' = Resolution
    BY <2>2 DEF Resolution, Resolutions, MaxArtifactSeq
  <2>. QED BY <1>0, <1>1, <2>1, <2>2, <2>3 DEF ArtifactsNumbered
<1>2. CASE node.phase = "rebase_fix" /\ ~resolved
  <2>. DEFINE m == Resolution + 1
  <2>1. artifacts' = artifacts \cup {[artifact |-> "rebase_fix", n |-> m]} /\ m \in Nat
    BY <1>0, <1>2 DEF ExecutorDone, Resolution, ArtifactsNumbered
  <2>2. ParseSeq(m) = m
    <3>1. m >= 1
      BY <1>0 DEF ArtifactsNumbered
    <3>. QED BY <3>1 DEF ParseSeq, FirstSeq
  <2>. HIDE DEF m
  <2>3. Resolutions' = Resolutions \cup {m}
    <3>1. PICK a : a = [artifact |-> "rebase_fix", n |-> m]
      OBVIOUS
    <3>2. a.artifact = "rebase_fix" /\ a.n = m /\ artifacts' = artifacts \cup {a}
      BY <2>1, <3>1
    <3>. QED BY <2>2, <3>2 DEF Resolutions
  <2>4. Resolutions \subseteq Nat /\ \A n \in Resolutions : n <= m
    <3>1. \A e \in artifacts : ParseSeq(e.n) \in Nat
      BY <1>0 DEF ArtifactsNumbered, ParseSeq, FirstSeq, NoSeq
    <3>2. Resolutions \subseteq Nat
      BY <3>1 DEF Resolutions, NoSeq
    <3>. QED BY <1>0, <3>2 DEF ArtifactsNumbered, m
  <2>5. Max(Resolutions') = m
    BY <2>1, <2>3, <2>4, MaxIs
  <2>6. Resolution' = m
    BY <2>5 DEF Resolution, Resolutions, MaxArtifactSeq
  <2>7. ArtifactsNumbered'
    BY <1>0, <2>1, <2>3, <2>4, <2>6 DEF ArtifactsNumbered
  <2>. QED BY <1>2, <2>6, <2>7 DEF m
<1>3. CASE ~(node.phase = "pr_fix") /\ ~(node.phase = "rebase_fix" /\ ~resolved)
  <2>1. artifacts' = artifacts
    BY <1>3 DEF ExecutorDone
  <2>2. ArtifactsNumbered' /\ Resolution' = Resolution
    BY <1>0, <2>1 DEF ArtifactsNumbered, Resolution, Resolutions
  <2>. QED BY <1>3, <2>2
<1>. QED BY <1>1, <1>2, <1>3

\* Everybody else steps.
LEMMA OthersTypes ==
  ASSUME GateType, Others
  PROVE  GateType'
<1>0. /\ OrchType /\ NodeType /\ FixIsAsked /\ ArtifactsNumbered /\ Untouched /\ FilesType
      /\ runs \in Nat /\ task \in Tasks /\ decided \subseteq PathSet
      /\ done \in BOOLEAN /\ open \in BOOLEAN /\ (done => node.phase \in VerifiedPhases)
      /\ resolved \in BOOLEAN
  BY DEF GateType
<1>1. UNCHANGED <<orch, node>> => OrchType'
  BY <1>0 DEF OrchType, Busy
<1>2. UNCHANGED <<tree, files, orch>> => FilesType'
  BY <1>0 DEF FilesType, Based
<1>3. UNCHANGED artifacts => ArtifactsNumbered'
  BY <1>0 DEF ArtifactsNumbered, Resolution, Resolutions
<1>4. UNCHANGED <<fixSeq, watched>> /\ node'.kind \in {node.kind, "none", "initial"} => FixIsAsked'
  BY <1>0 DEF FixIsAsked
<1>5. UNCHANGED <<runs, node, open, decided, orch>> => Untouched'
  BY <1>0 DEF Untouched, Busy
<1>6. UNCHANGED node => NodeType'
  BY <1>0 DEF NodeType
<1>7. UNCHANGED orch => OrchType'
  BY <1>0 DEF OrchType, Busy
<1>8. runs # 0 => (runs' # 0 => Untouched')
  BY DEF Untouched
<1>9. node # NoRun \/ open => runs # 0
  BY <1>0 DEF Untouched
<1>10. (~(NoRun.phase \in VerifiedPhases) /\ ~done) \/ node # NoRun
  BY <1>0 DEF NoRun, VerifiedPhases, AllPhases
<1>11. CASE TreeMoves
  <2>1. FilesType'
    <3>1. /\ tree \in Nat /\ tree' \in 0 .. MaxTree /\ tree <= tree' /\ tree' \in Nat
          /\ UNCHANGED <<files, orch>>
      BY <1>0, <1>11, GateAssumption DEF TreeMoves, FilesType
    <3>2. \A p \in DOMAIN files :
            /\ files[p].manifest.baseline \in Int
            /\ 0 <= files[p].manifest.baseline /\ files[p].manifest.baseline <= tree'
      BY <1>0, <3>1 DEF FilesType, Based, FileSet, ManifestSet, NoSnapshot
    <3>3. \A o \in Orchs : orch[o].pc = "write" =>
            0 <= orch[o].seen.baseline /\ orch[o].seen.baseline <= tree'
      BY <1>0, <3>1 DEF FilesType, Based, OrchType, OrchSet, ManifestSet, NoSnapshot
    <3>. QED BY <1>0, <3>1, <3>2, <3>3 DEF FilesType, Based
  <2>. QED BY <1>0, <1>11, <2>1, <1>3, <1>4, <1>5, <1>6, <1>7 DEF TreeMoves, GateType, run, asks
<1>12. CASE ExecutorDone
  <2>1. ArtifactsNumbered'
    BY <1>12, DoneNumbers
  <2>2. node.phase \in VerifiedPhases /\ done' = TRUE
    BY <1>12 DEF ExecutorDone
  <2>3. UNCHANGED <<task, node, open, fixSeq, watched, runs, tree, orch, decided, files>>
        /\ resolved' \in BOOLEAN
    BY <1>12 DEF ExecutorDone
  <2>. QED BY <1>0, <2>1, <2>2, <2>3, <1>2, <1>4, <1>5, <1>6, <1>7 DEF GateType
<1>13. CASE Start
  <2>1. node' = [kind |-> "initial", gate |-> "full", phase |-> "research", attempts |-> 0]
    BY <1>13 DEF Start, StartRun, MainSequence, MainSequences
  <2>2. NodeType' /\ node'.kind = "initial"
    BY <2>1, GateAssumption DEF NodeType, Kinds, Gates, AllPhases
  <2>3. ~done /\ runs' = 1 /\ done' = done
    BY <1>13, <1>10 DEF Start, StartRun, Enter
  <2>4. FixIsAsked'
    BY <1>4, <1>13, <2>2 DEF Start
  <2>5. UNCHANGED <<task, open, artifacts, tree, orch, decided, files>> /\ resolved' = FALSE
    BY <1>13 DEF Start, Enter
  <2>6. Untouched'
    BY <2>3, <1>8 DEF Untouched
  <2>. QED BY <1>0, <2>2, <2>3, <2>4, <2>5, <2>6, <1>2, <1>3, <1>7 DEF GateType
<1>14. CASE SetGate
  <2>1. node' = [node EXCEPT !.phase = "research+plan", !.gate = "light", !.attempts = 0]
        /\ node.gate = "full" /\ node.phase = "research"
    BY <1>14, <1>0 DEF SetGate, ShortenGate, NodeType
  <2>2. node # NoRun
    BY <2>1 DEF NoRun
  <2>3. /\ node'.phase = "research+plan" /\ node'.gate = "light" /\ node'.kind = node.kind
        /\ node' \in [kind : Kinds \cup {"none"}, gate : Gates,
                      phase : AllPhases \cup {"none"}, attempts : 0 .. RetryLimit - 1]
    BY <1>0, <2>1, Rounds DEF NodeType, Gates, AllPhases
  <2>4. NodeType' /\ node'.kind = node.kind
    BY <1>0, <2>1, <2>2, <2>3 DEF NodeType
  <2>5. FixIsAsked'
    BY <1>4, <1>14, <2>3 DEF SetGate, asks
  <2>. QED BY <1>0, <1>14, <2>2, <2>4, <2>5, <1>2, <1>3, <1>7, <1>8, <1>9
           DEF GateType, SetGate, Enter, asks
<1>15. CASE RequestFix
  <2>1. FixIsAsked'
    BY <1>0, <1>15 DEF RequestFix, FixIsAsked, NoSeq
  <2>2. Untouched'
    BY <1>15, <1>9, <1>8 DEF RequestFix
  <2>. QED BY <1>0, <1>15, <2>1, <2>2, <1>2, <1>3, <1>6, <1>7 DEF GateType, RequestFix
<1>16. CASE StartAgain
  <2>1. PICK k \in {"pr_fix", "rebase_fix"} :
          /\ node' = [kind |-> k, gate |-> "none", phase |-> k, attempts |-> 0]
          /\ k = "pr_fix" => fixSeq # NoSeq
    BY <1>16 DEF StartAgain, StartRun, MainSequence, MainSequences
  <2>2. NodeType' /\ node'.kind = k
    BY <2>1, GateAssumption DEF NodeType, Kinds, Gates, AllPhases
  <2>3. ~done /\ runs' = runs + 1 /\ done' = done /\ runs' # 0
    BY <1>0, <1>16, <1>10 DEF StartAgain, StartRun, Enter
  <2>4. FixIsAsked'
    BY <1>0, <1>16, <2>1, <2>2 DEF StartAgain, FixIsAsked
  <2>5. UNCHANGED <<task, open, artifacts, tree, orch, decided, files>> /\ resolved' = FALSE
    BY <1>16 DEF StartAgain, Enter
  <2>6. runs # 0
    BY <1>9, <1>16 DEF StartAgain
  <2>7. Untouched' /\ runs' \in Nat
    BY <1>0, <1>8, <2>3, <2>6
  <2>. QED BY <1>0, <2>2, <2>3, <2>4, <2>5, <2>7, <1>2, <1>3, <1>7 DEF GateType
<1>17. ASSUME node' = [node EXCEPT !.phase = node'.phase, !.attempts = 0], node # NoRun,
              node'.phase \in {"rebase_fix", "finalize"}
       PROVE  NodeType' /\ node'.kind = node.kind
  BY <1>0, <1>17, Rounds DEF NodeType, AllPhases
<1>18. CASE TakeDetour
  <2>1. /\ node' = [node EXCEPT !.phase = "rebase_fix", !.attempts = 0] /\ node # NoRun
        /\ node'.phase = "rebase_fix" /\ node.phase = "finalize"
    BY <1>0, <1>18 DEF TakeDetour, Detour, NoRun, NodeType
  <2>2. NodeType' /\ node'.kind = node.kind
    BY <2>1, <1>17
  <2>3. ~done
    BY <1>0, <2>1 DEF VerifiedPhases
  <2>4. FixIsAsked'
    BY <1>4, <1>18, <2>2 DEF TakeDetour, asks
  <2>. QED BY <1>0, <1>18, <2>1, <2>2, <2>3, <2>4, <1>2, <1>3, <1>7, <1>8, <1>9
           DEF GateType, TakeDetour, Enter, asks
<1>19. CASE GiveUpRebase
  <2>1. node.phase = "rebase_fix" /\ node # NoRun /\ ~done
    BY <1>19 DEF GiveUpRebase, NoRun
  <2>2. NodeType' /\ node'.kind \in {node.kind, "none"}
    <3>1. CASE Forgo
      <4>1. node' = [node EXCEPT !.phase = "finalize", !.attempts = 0] /\ node'.phase = "finalize"
        BY <1>0, <3>1 DEF Forgo, NodeType
      <4>. QED BY <1>17, <2>1, <4>1
    <3>2. CASE EndRun
      BY <3>2, GateAssumption DEF EndRun, NodeType, NoRun, Kinds, Gates
    <3>. QED BY <1>19, <3>1, <3>2 DEF GiveUpRebase
  <2>3. OrchType' /\ FilesType'
    <3>1. orch \in [Orchs -> OrchSet] /\ orch' = Moved(orch, FALSE)
      BY <1>0, <1>19 DEF GiveUpRebase, OrchType
    <3>2. orch' = [p \in Orchs |-> orch'[p]]
      BY <3>1 DEF Moved
    <3>3. \A p \in Orchs : /\ orch'[p] \in OrchSet
                           /\ orch'[p].pc = orch[p].pc /\ orch'[p].phase = orch[p].phase
      BY <3>1, MovedOn
    <3>4. \A p \in Orchs : /\ orch'[p].slot = orch[p].slot /\ orch'[p].path = orch[p].path
                           /\ orch'[p].seen = orch[p].seen
      BY <3>1, MovedOn
    <3>5. OrchType'
      BY <1>0, <3>2, <3>3, <3>4 DEF OrchType, Busy
    <3>6. \A p \in Orchs : orch'[p].pc = "write" => Based(orch'[p].seen)
      BY <1>0, <3>3, <3>4 DEF FilesType
    <3>7. FilesType'
      BY <1>0, <1>19, <3>3, <3>4, <3>6, FilesStay DEF GiveUpRebase
    <3>. QED BY <3>5, <3>7
  <2>4. FixIsAsked'
    BY <1>4, <1>19, <2>2 DEF GiveUpRebase, asks
  <2>. QED BY <1>0, <1>19, <2>1, <2>2, <2>3, <2>4, <1>3, <1>8, <1>9
           DEF GateType, GiveUpRebase, asks
<1>20. CASE Ship
  <2>1. node.phase = "finalize" /\ node # NoRun /\ ~done /\ node' = NoRun
    BY <1>0, <1>20 DEF Ship, EndRun, VerifiedPhases
  <2>2. NodeType' /\ node'.kind = "none"
    BY <2>1, GateAssumption DEF NodeType, NoRun, Kinds, Gates
  <2>3. FixIsAsked'
    BY <1>0, <1>20, <2>2 DEF Ship, FixIsAsked
  <2>. QED BY <1>0, <1>20, <2>1, <2>2, <2>3, <1>2, <1>3, <1>7, <1>8, <1>9 DEF GateType, Ship
<1>. QED BY <1>11, <1>12, <1>13, <1>14, <1>15, <1>16, <1>18, <1>19, <1>20 DEF Others

\* Every step keeps them.
LEMMA TypeNext == GateType /\ [Next]_vars => GateType'
<1>. SUFFICES ASSUME GateType, [Next]_vars PROVE GateType'
  OBVIOUS
<1>1. CASE UNCHANGED vars
  BY <1>1 DEF GateType, vars, run, asks, NodeType, Untouched, FixIsAsked,
     ArtifactsNumbered, Resolution, Resolutions, FilesType, Based, OrchType, Busy
<1>2. Mortal \subseteq Orchs
  BY GateAssumption
<1>. QED BY <1>1, <1>2, GateStepTypes, OthersTypes DEF Next

\* The types hold in every reachable state.
THEOREM TypesKept == Spec => []GateType
<1>. QED BY TypeInit, TypeNext, PTL DEF Spec

\* The type invariant of the runs: whatever the verifiers answer, whoever dies and
\* whatever the executor and the watcher do meanwhile, every call of the gate
\* leaves the run, the files and the locals of the orchestrators well-formed, and
\* only a phase with a gate is ever reported as done.
THEOREM TypeCorrectness == Spec => []TypeOK
<1>1. GateType => TypeOK
  <2>. SUFFICES ASSUME GateType PROVE TypeOK
    OBVIOUS
  <2>1. fixSeq \in 0 .. watched
    BY DEF GateType, FixIsAsked, NoSeq
  <2>2. \A o \in Orchs : orch[o].pc \in PCs
    BY DEF GateType, OrchType, OrchSet
  <2>3. \A p \in DOMAIN files : files[p].manifest.baseline \in 0 .. MaxTree
    <3>1. \A p \in DOMAIN files :
            files[p].manifest.baseline \in NoSnapshot .. MaxTree /\ 0 <= files[p].manifest.baseline
      BY DEF GateType, FilesType, FileSet, ManifestSet, Based
    <3>. QED BY <3>1, GateAssumption DEF NoSnapshot
  <2>4. tree \in 0 .. MaxTree
    BY DEF GateType, FilesType
  <2>. QED BY <2>1, <2>2, <2>3, <2>4 DEF GateType, NodeType, PCs, TypeOK
<1>. QED BY <1>1, TypesKept, PTL


-----------------------------------------------------------------------------
(* Visits. *)

\* The shapes once more, one by one.
LEMMA GateShape ==
  ASSUME GateType, NEW o \in Orchs, GateStep(o) \/ Crash(o)
  PROVE  GoesOn(o) \/ Leaves(o) \/ Iterate(o) \/ Blocks(o) \/ Passes(o) \/ Fails(o)
BY GateStepShape DEF Decides

\* Ranks are numbers.
LEMMA Ranks ==
  /\ \A p : Rank(p) \in 0 .. 5
  /\ Rank("none") = 0
BY DEF Rank

\* What is judged has a gate.
LEMMA JudgedPhases ==
  ASSUME GateType, NEW o \in Orchs
  PROVE  /\ Busy(o) => orch[o].phase \in VerifiedPhases
         /\ orch[o].phase \notin {"finalize"}
         /\ ~Busy(o) <=> orch[o].phase = "none"
BY DEF GateType, OrchType, OrchSet, VerifiedPhases, AllPhases

\* Whoever has decided is idle; the others have what they had.
LEMMA OneIsIdleThen ==
  ASSUME GateType, NEW o \in Orchs, NEW same \in BOOLEAN,
         orch' = Moved([orch EXCEPT ![o] = Idle], same)
  PROVE  /\ ~Busy(o)' /\ orch'[o].phase = "none" /\ orch'[o].pc = "idle"
         /\ \A p \in Orchs \ {o} :
              /\ Keeps(p) /\ (Busy(p)' <=> Busy(p))
              /\ orch'[p].inPhase = (orch[p].inPhase /\ same)
<1>1. OrchType
  BY DEF GateType
<1>2. /\ orch'[o].pc = "idle" /\ orch'[o].phase = "none"
      /\ \A p \in Orchs \ {o} :
           Keeps(p) /\ orch'[p].inPhase = (orch[p].inPhase /\ same)
  BY <1>1, OthersKeep
<1>3. ~Busy(o)'
  BY <1>2 DEF Busy
<1>4. \A p \in Orchs \ {o} : Busy(p)' <=> Busy(p)
  BY <1>2 DEF Busy, Keeps
<1>. QED BY <1>2, <1>3, <1>4

\* A new iteration.
LEMMA Iterated ==
  ASSUME GateType, NEW o \in Orchs, Iterate(o)
  PROVE  /\ orch'[o].phase = node.phase /\ orch'[o].attempts = node.attempts
         /\ orch'[o].inPhase /\ orch'[o].inRound /\ orch'[o].pc = "path"
         /\ done /\ RunStays /\ OnlyMoves(o) /\ UNCHANGED files /\ ~Busy(o)
         /\ \A p \in Orchs \ {o} : orch'[p] = orch[p]
<1>1. orch \in [Orchs -> OrchSet] /\ Idle \in OrchSet
  BY IdleTyped DEF GateType, OrchType
<1>2. PICK i \in OrchSet : i = Idle
  BY <1>1
<1>3. orch'[o] = [i EXCEPT !.pc = "path", !.phase = node.phase, !.attempts = node.attempts,
                           !.inPhase = TRUE, !.inRound = TRUE]
  BY <1>1, <1>2 DEF Iterate
<1>4. /\ orch'[o].phase = node.phase /\ orch'[o].attempts = node.attempts
      /\ orch'[o].inPhase = TRUE /\ orch'[o].inRound = TRUE /\ orch'[o].pc = "path"
  BY <1>3 DEF OrchSet
<1>5. RunStays /\ UNCHANGED files /\ done /\ ~Busy(o)
      /\ \A p \in Orchs \ {o} : orch'[p] = orch[p]
  BY <1>1 DEF Iterate, RunStays, Busy, run
<1>7. OnlyMoves(o)
  BY <1>5 DEF OnlyMoves, Keeps
<1>6. orch'[o].inPhase /\ orch'[o].inRound
  BY <1>4
<1>. QED BY <1>4, <1>5, <1>6, <1>7

\* Who is at work on its visit after a step was so before it, or has just asked; and
\* the run has not moved out of the phase.
LEMMA NoReturn ==
  ASSUME GateType, StayedThere, Next, NEW o \in Orchs, Here(o)'
  PROVE  \/ Iterate(o)
         \/ /\ Here(o) /\ node'.phase = node.phase
            /\ orch'[o].phase = orch[o].phase /\ orch'[o].attempts = orch[o].attempts
            /\ \/ node' = node /\ (done => done') /\ orch'[o].inRound = orch[o].inRound
               \/ \E p \in Orchs : Fails(p)
<1>0. Busy(o)' /\ orch'[o].phase \in VerifiedPhases /\ orch'[o].inPhase /\ NodeType
  BY TypeNext, JudgedPhases DEF Here, GateType, OrchType, OrchSet
<1>. DEFINE goal ==
       \/ Iterate(o)
       \/ /\ Here(o) /\ node'.phase = node.phase
          /\ orch'[o].phase = orch[o].phase /\ orch'[o].attempts = orch[o].attempts
          /\ \/ node' = node /\ (done => done') /\ orch'[o].inRound = orch[o].inRound
             \/ \E p \in Orchs : Fails(p)
<1>1. ASSUME UNCHANGED <<node, done>>, Keeps(o), orch'[o].inPhase = orch[o].inPhase,
             orch'[o].inRound = orch[o].inRound
      PROVE  goal
  BY <1>0, <1>1 DEF Here, Busy, Keeps
<1>2. ASSUME NEW p \in Orchs, GateStep(p) \/ Crash(p)
      PROVE  goal
  <2>1. CASE p # o /\ (GoesOn(p) \/ Leaves(p) \/ Iterate(p))
    BY <1>1, <2>1, Iterated DEF GoesOn, Leaves, RunStays, OnlyMoves
  <2>2. CASE GoesOn(o)
    BY <1>0, <2>2 DEF GoesOn, RunStays, Here
  <2>3. CASE Leaves(o)
    BY <1>0, <2>3, IdleTyped DEF Leaves, Busy
  <2>4. CASE Blocks(p) \/ Passes(p)
    <3>1. orch' = Moved([orch EXCEPT ![p] = Idle], FALSE)
      BY <2>4 DEF Blocks, Passes
    <3>. QED BY <1>0, <3>1, OneIsIdleThen
  <2>5. CASE Fails(p)
    <3>1. o # p /\ Keeps(o) /\ orch'[o].inPhase = orch[o].inPhase
      BY <1>0, <2>5, OneIsIdleThen DEF Fails
    <3>2. node'.phase = node.phase
      BY <1>0, <2>5 DEF Fails, PhaseFail, NodeType
    <3>. QED BY <1>0, <2>5, <3>1, <3>2 DEF Here, Busy, Keeps
  <2>. QED BY <1>2, <2>1, <2>2, <2>3, <2>4, <2>5, GateShape
<1>3. CASE TreeMoves \/ ExecutorDone \/ RequestFix
  BY <1>0, <1>3 DEF TreeMoves, ExecutorDone, RequestFix, run, Here, Busy
<1>4. CASE Start \/ SetGate \/ StartAgain \/ TakeDetour \/ Ship
  <2>1. Here(o) /\ orch' = orch
    BY <1>0, <1>4 DEF Start, SetGate, StartAgain, TakeDetour, Ship, Enter, Here, Busy
  <2>2. node.phase \in VerifiedPhases /\ (done \/ node.attempts > 0) /\ node # NoRun
    BY <2>1, JudgedPhases DEF StayedThere, Here, NoRun, VerifiedPhases, AllPhases
  <2>3. ~Start
    BY <2>1 DEF Start, GateType, Untouched, Here, StartRun
  <2>. QED BY <1>4, <2>2, <2>3
           DEF SetGate, StartAgain, StartRun, TakeDetour, Detour, Ship, VerifiedPhases
<1>5. CASE GiveUpRebase
  <2>1. ~orch'[o].inPhase
    BY <1>5, MovedOn DEF GiveUpRebase, GateType, OrchType
  <2>. QED BY <1>0, <2>1
<1>. QED BY <1>2, <1>3, <1>4, <1>5, GateAssumption DEF Next, Others

\* The run of an initial task only gets ahead of what is judged.
LEMMA BehindNext ==
  ASSUME GateType, NeverBehind, [Next]_vars
  PROVE  NeverBehind'
<1>0. NodeType /\ GateType'
  BY TypeNext DEF GateType
<1>1. ASSUME node'.kind = "initial" => node.kind = "initial",
             node'.kind = "initial" => Rank(node.phase) <= Rank(node'.phase),
             \A o \in Orchs : orch'[o].phase \in {orch[o].phase, "none"}
      PROVE  NeverBehind'
  BY <1>1, Ranks DEF NeverBehind
<1>2. CASE UNCHANGED vars
  BY <1>1, <1>2, Ranks DEF vars, run
<1>3. ASSUME NEW p \in Orchs, GateStep(p) \/ Crash(p)
      PROVE  NeverBehind'
  <2>1. CASE GoesOn(p)
    BY <1>1, <2>1, Ranks DEF GoesOn, RunStays, OnlyMoves, Keeps
  <2>2. CASE Leaves(p)
    <3>1. /\ UNCHANGED node /\ orch'[p].phase = "none"
          /\ \A o \in Orchs \ {p} : orch'[o].phase = orch[o].phase
      BY <2>2, IdleTyped DEF Leaves, RunStays, OnlyMoves, Keeps
    <3>. QED BY <1>1, <3>1, Ranks
  <2>3. CASE Iterate(p)
    <3>1. /\ UNCHANGED node /\ orch'[p].phase = node.phase
          /\ \A o \in Orchs \ {p} : orch'[o] = orch[o]
      BY <2>3, Iterated DEF RunStays
    <3>. QED BY <3>1, Ranks DEF NeverBehind
  <2>4. CASE Blocks(p)
    BY <2>4 DEF Blocks, NoRun, NeverBehind
  <2>5. CASE Passes(p)
    <3>1. \A o \in Orchs : orch'[o].phase \in {orch[o].phase, "none"}
      BY <2>5, OneIsIdleThen DEF Passes, Keeps
    <3>2. PICK to \in AllPhases : Advance(orch[p].phase, to)
      BY <2>5 DEF Passes
    <3>3. node.phase \in VerifiedPhases
      BY <2>5, <3>2, JudgedPhases DEF Passes, Advance, Busy
    <3>4. node'.phase = to /\ node'.kind = node.kind
      BY <1>0, <3>2 DEF Advance, NodeType
    <3>5. Rank(node.phase) <= Rank(to)
      BY <1>0, <3>2, <3>3, Edges DEF Advance
    <3>. QED BY <1>1, <3>1, <3>4, <3>5
  <2>6. CASE Fails(p)
    <3>1. \A o \in Orchs : orch'[o].phase \in {orch[o].phase, "none"}
      BY <2>6, OneIsIdleThen DEF Fails, Keeps
    <3>2. node'.phase = node.phase /\ node'.kind = node.kind
      BY <1>0, <2>6 DEF Fails, PhaseFail, NodeType
    <3>. QED BY <1>1, <3>1, <3>2, Ranks
  <2>. QED BY <1>3, <2>1, <2>2, <2>3, <2>4, <2>5, <2>6, GateShape
<1>4. CASE TreeMoves \/ ExecutorDone \/ RequestFix
  BY <1>1, <1>4, Ranks DEF TreeMoves, ExecutorDone, RequestFix, run
<1>5. CASE Start
  <2>1. \A o \in Orchs : orch'[o].phase = "none"
    BY <1>5, JudgedPhases DEF Start, Enter, GateType, Untouched
  <2>. QED BY <2>1, Ranks DEF NeverBehind
<1>6. CASE SetGate \/ TakeDetour
  <2>1. node'.kind = node.kind /\ Rank(node.phase) <= Rank(node'.phase)
    <3>1. CASE SetGate
      <4>1. /\ node.phase = "research" /\ node'.phase = "research+plan"
            /\ node'.kind = node.kind
        BY <1>0, <3>1 DEF SetGate, ShortenGate, NodeType
      <4>. QED BY <4>1 DEF Rank
    <3>2. CASE TakeDetour
      <4>1. /\ node.phase = "finalize" /\ node'.phase = "rebase_fix"
            /\ node'.kind = node.kind
        BY <1>0, <3>2 DEF TakeDetour, Detour, NodeType
      <4>. QED BY <4>1 DEF Rank
    <3>. QED BY <1>6, <3>1, <3>2
  <2>. QED BY <1>1, <1>6, <2>1 DEF SetGate, TakeDetour, Enter
<1>7. CASE StartAgain
  BY <1>7 DEF StartAgain, StartRun, NeverBehind
<1>8. CASE GiveUpRebase
  <2>1. \A o \in Orchs : orch'[o].phase = orch[o].phase
    BY <1>8, MovedOn DEF GiveUpRebase, GateType, OrchType
  <2>2. CASE Forgo
    <3>1. /\ node'.kind = node.kind /\ node.phase = "rebase_fix"
          /\ node'.phase = "finalize"
      BY <1>0, <2>2 DEF Forgo, NodeType
    <3>2. Rank(node.phase) <= Rank(node'.phase)
      BY <3>1 DEF Rank
    <3>. QED BY <1>1, <2>1, <3>1, <3>2
  <2>3. CASE EndRun
    BY <2>3 DEF EndRun, NoRun, NeverBehind
  <2>. QED BY <1>8, <2>2, <2>3 DEF GiveUpRebase
<1>9. CASE Ship
  BY <1>9 DEF Ship, EndRun, NoRun, NeverBehind
<1>. QED BY <1>2, <1>3, <1>4, <1>5, <1>6, <1>7, <1>8, <1>9, GateAssumption DEF Next, Others

\* Being in a visit means having stayed there.
LEMMA StayedNext ==
  ASSUME GateType, StayedThere, [Next]_vars
  PROVE  StayedThere'
<1>0. CASE UNCHANGED vars
  BY <1>0 DEF vars, run, StayedThere, Here, Busy
<1>. SUFFICES ASSUME Next, NEW o \in Orchs, Here(o)'
              PROVE  /\ orch'[o].phase = node'.phase
                     /\ orch'[o].attempts <= node'.attempts
                     /\ orch'[o].attempts = node'.attempts => orch'[o].inRound
                     /\ done' \/ node'.attempts > 0
  BY <1>0 DEF StayedThere
<1>1. node.attempts \in Nat /\ node'.attempts \in Nat /\ orch[o].attempts \in Nat
  BY TypeNext, GateAssumption DEF GateType, NodeType, OrchType, OrchSet
<1>2. CASE Iterate(o)
  <2>1. orch'[o].attempts = node'.attempts /\ done' /\ node' = node
    BY <1>2, Iterated DEF RunStays
  <2>. QED BY <1>1, <1>2, <2>1, Iterated
<1>3. CASE ~Iterate(o)
  <2>1. /\ Here(o) /\ node'.phase = node.phase
        /\ orch'[o].phase = orch[o].phase /\ orch'[o].attempts = orch[o].attempts
        /\ \/ node' = node /\ (done => done') /\ orch'[o].inRound = orch[o].inRound
           \/ \E p \in Orchs : Fails(p)
    BY <1>3, NoReturn
  <2>2. /\ orch[o].phase = node.phase /\ orch[o].attempts <= node.attempts
        /\ orch[o].attempts = node.attempts => orch[o].inRound
        /\ done \/ node.attempts > 0
    BY <2>1 DEF StayedThere
  <2>3. CASE node' = node /\ (done => done') /\ orch'[o].inRound = orch[o].inRound
    BY <2>1, <2>2, <2>3
  <2>4. ASSUME NEW p \in Orchs, Fails(p)
        PROVE  node'.attempts = node.attempts + 1
    BY <1>1, <2>4 DEF Fails, PhaseFail, GateType, NodeType
  <2>. QED BY <1>1, <2>1, <2>2, <2>3, <2>4
<1>. QED BY <1>2, <1>3

\* The sequence of an initial run is passed once.
LEMMA PassedOnceNext ==
  ASSUME GateType, NeverBehind, PassedOnce, [Next]_vars
  PROVE  PassedOnce'
<1>0. CASE UNCHANGED vars
  BY <1>0 DEF vars, run, PassedOnce, Here, Busy
<1>. SUFFICES ASSUME Next, NEW o \in Orchs, Busy(o)', orch'[o].phase = node'.phase,
                     node'.phase \notin SequencedPhases
              PROVE  Here(o)'
  BY <1>0 DEF PassedOnce
<1>1. NodeType /\ orch'[o].phase \in VerifiedPhases /\ GateType'
  BY TypeNext, JudgedPhases DEF GateType, OrchType, OrchSet
<1>2. ASSUME node'.phase = node.phase, Keeps(o), orch'[o].inPhase = orch[o].inPhase
      PROVE  Here(o)'
  BY <1>2 DEF PassedOnce, Here, Busy, Keeps
<1>3. ASSUME NEW p \in Orchs, GateStep(p) \/ Crash(p)
      PROVE  Here(o)'
  <2>1. CASE p # o /\ (GoesOn(p) \/ Leaves(p) \/ Iterate(p))
    BY <1>2, <2>1, Iterated DEF GoesOn, Leaves, RunStays, OnlyMoves
  <2>2. CASE GoesOn(o)
    BY <2>2 DEF GoesOn, RunStays, PassedOnce, Here, Busy
  <2>3. CASE Leaves(o)
    BY <2>3, IdleTyped DEF Leaves, Busy
  <2>4. CASE Iterate(o)
    BY <2>4, Iterated DEF Here
  <2>5. CASE Blocks(p)
    BY <1>1, <2>5 DEF Blocks, NoRun, VerifiedPhases, AllPhases
  <2>6. CASE Passes(p)
    <3>1. o # p /\ orch'[o].phase = orch[o].phase
      BY <2>6, OneIsIdleThen DEF Passes, Keeps
    <3>2. PICK to \in AllPhases : Advance(orch[p].phase, to)
      BY <2>6 DEF Passes
    <3>3. node.phase \in VerifiedPhases
      BY <2>6, <3>2, JudgedPhases DEF Passes, Advance, Busy
    <3>4. node'.phase = to
      BY <1>1, <3>2 DEF Advance, NodeType
    <3>5. to # "finalize" => node.kind = "initial" /\ Rank(node.phase) < Rank(to)
      BY <1>1, <3>2, <3>3, Edges DEF Advance
    <3>6. node.kind = "initial" /\ Rank(node.phase) < Rank(to)
      BY <1>1, <3>4, <3>5 DEF VerifiedPhases
    <3>7. Rank(to) <= Rank(node.phase)
      BY <3>1, <3>4, <3>6 DEF NeverBehind
    <3>. QED BY <3>6, <3>7, Ranks
  <2>7. CASE Fails(p)
    <3>0. o # p /\ Keeps(o) /\ orch'[o].inPhase = (orch[o].inPhase /\ TRUE)
      BY <2>7, OneIsIdleThen DEF Fails
    <3>1. o # p /\ Keeps(o) /\ orch'[o].inPhase = orch[o].inPhase
      BY <3>0 DEF GateType, OrchType, OrchSet
    <3>2. node'.phase = node.phase
      BY <1>1, <2>7 DEF Fails, PhaseFail, NodeType
    <3>. QED BY <1>2, <3>1, <3>2
  <2>. QED BY <1>3, <2>1, <2>2, <2>3, <2>4, <2>5, <2>6, <2>7, GateShape
<1>4. CASE TreeMoves \/ ExecutorDone \/ RequestFix
  BY <1>4 DEF TreeMoves, ExecutorDone, RequestFix, run, PassedOnce, Here, Busy
<1>5. CASE Start
  BY <1>5 DEF Start, Enter, GateType, Untouched, Busy
<1>6. CASE SetGate
  <2>1. /\ node.phase = "research" /\ node'.phase = "research+plan" /\ node.kind = "initial"
        /\ orch'[o].phase = orch[o].phase
    BY <1>1, <1>6 DEF SetGate, ShortenGate, Enter, NodeType, NoRun
  <2>. QED BY <2>1 DEF NeverBehind, Rank
<1>7. CASE StartAgain \/ TakeDetour
  <2>1. node'.phase \in SequencedPhases
    <3>1. CASE StartAgain
      <4>1. PICK k \in {"pr_fix", "rebase_fix"} :
              node' = [kind |-> k, gate |-> "none", phase |-> k, attempts |-> 0]
        BY <3>1 DEF StartAgain, StartRun, MainSequence, MainSequences
      <4>. QED BY <4>1 DEF SequencedPhases
    <3>2. CASE TakeDetour
      BY <1>1, <3>2 DEF TakeDetour, Detour, SequencedPhases, NodeType
    <3>. QED BY <1>7, <3>1, <3>2
  <2>. QED BY <2>1
<1>8. CASE GiveUpRebase
  <2>1. Forgo => node'.phase = "finalize"
    BY <1>1 DEF Forgo, NodeType
  <2>2. EndRun => node'.phase = "none"
    BY DEF EndRun, NoRun
  <2>. QED BY <1>1, <1>8, <2>1, <2>2 DEF GiveUpRebase, VerifiedPhases, AllPhases
<1>9. CASE Ship
  BY <1>1, <1>9 DEF Ship, EndRun, NoRun, VerifiedPhases, AllPhases
<1>. QED BY <1>3, <1>4, <1>5, <1>6, <1>7, <1>8, <1>9, GateAssumption DEF Next, Others

\* In every reachable state the types hold, an initial run is ahead of all that is
\* judged of it, who has been told of no change to its visit finds the run in it,
\* and in the phases an initial run passes everybody who finds the run in its phase
\* is in that visit.
THEOREM GateInvariance == Spec => []GateInv
<1>1. Init => GateInv
  <2>1. Init => node.kind # "initial" /\ \A o \in Orchs : ~Busy(o)
    BY IdleTyped DEF Init, NoRun, Busy
  <2>. QED BY <2>1, TypeInit DEF GateInv, NeverBehind, StayedThere, PassedOnce, Here
<1>2. GateInv /\ [Next]_vars => GateInv'
  BY TypeNext, BehindNext, StayedNext, PassedOnceNext DEF GateInv
<1>. QED BY <1>1, <1>2, PTL DEF Spec

\* Only the orchestrator that passes or fails a phase moves the run by that.
LEMMA WhoMoves ==
  ASSUME GateType, [Next]_vars, NEW o \in Orchs, Moves(o)
  PROVE  Passes(o) \/ Fails(o)
<1>0. /\ orch[o].pc = "decide" /\ orch'[o].pc = "idle" /\ Busy(o)
      /\ node' # node /\ node' # NoRun
  BY DEF Moves, Busy
<1>1. ASSUME NEW p \in Orchs, GateStep(p) \/ Crash(p)
      PROVE  Passes(o) \/ Fails(o)
  <2>1. ~GoesOn(p) /\ ~Leaves(p) /\ ~Blocks(p)
    BY <1>0 DEF GoesOn, Leaves, Blocks, RunStays
  <2>2. ~Iterate(p)
    BY <1>0, Iterated DEF RunStays
  <2>3. ASSUME p # o PROVE ~Passes(p) /\ ~Fails(p)
    BY <1>0, <2>3, OneIsIdleThen DEF Passes, Fails, Keeps
  <2>. QED BY <1>1, <2>1, <2>2, <2>3, GateShape
<1>2. CASE UNCHANGED vars
  BY <1>0, <1>2 DEF vars, run
<1>3. CASE Others
  <2>1. orch'[o].pc = orch[o].pc
    <3>1. CASE GiveUpRebase
      BY <3>1, MovedOn DEF GiveUpRebase, GateType, OrchType
    <3>2. CASE ~GiveUpRebase
      BY <1>3, <3>2 DEF Others, TreeMoves, ExecutorDone, Start, SetGate, RequestFix,
         StartAgain, TakeDetour, Ship, Enter
    <3>. QED BY <3>1, <3>2
  <2>. QED BY <1>0, <2>1
<1>. QED BY <1>1, <1>2, <1>3, GateAssumption DEF Next

\* A FAIL counts against the round it judged: whoever judges the visit the run is
\* still in, phase-fail finds the phase and the round it names only if nobody has
\* passed, failed or left that round since next reported it.  Who judges an earlier
\* visit is refused in every phase of an initial run, and not in pr_fix and
\* rebase_fix, where the count of rounds begins anew.
THEOREM FailEarned == Spec => FailIsEarned
<1>1. ASSUME GateInv, [Next]_vars, NEW o \in Orchs, Moves(o), orch[o].verdict = "FAIL"
      PROVE  orch[o].inRound \/ MayBeLate(o)
  <2>1. Fails(o)
    BY <1>1, WhoMoves DEF GateInv, Passes
  <2>2. Busy(o) /\ orch[o].phase = node.phase /\ orch[o].attempts = node.attempts
    BY <2>1 DEF Fails, PhaseFail, Busy
  <2>3. CASE Here(o)
    BY <1>1, <2>2, <2>3 DEF GateInv, StayedThere
  <2>4. CASE ~Here(o)
    BY <1>1, <2>2, <2>4 DEF GateInv, PassedOnce, MayBeLate, Here
  <2>. QED BY <2>3, <2>4
<1>2. GateInv /\ [Next]_vars =>
        [\A o \in Orchs : Moves(o) /\ orch[o].verdict = "FAIL" =>
           orch[o].inRound \/ MayBeLate(o)]_vars
  BY <1>1
<1>. QED BY <1>2, GateInvariance, PTL DEF Spec, FailIsEarned


-----------------------------------------------------------------------------
(* What a verdict rests on. *)

\* The audit a task gets: the declaration only raises what its class asks for, and
\* the shell is for the implementation of a trivial task.
LEMMA ModeIs ==
  ASSUME GateType
  PROVE  /\ Mode = "dual" <=> DualTask
         /\ Mode = "shell" =>
              node.phase = "implement" /\ task.class = "trivial" /\ task.declared # "single"
<1>1. task.class \in TaskClasses /\ task.declared \in AuditModes \cup {Undeclared}
  BY GateAssumption DEF GateType
<1>. DEFINE floor == ClassAuditFloor[task.class]
<1>2. /\ task.class = "trivial" => floor = "shell"
      /\ task.class = "standard" => floor = "single"
      /\ task.class = "high" => floor = "dual"
  BY DEF ClassAuditFloor
<1>3. \A m, n \in AuditModes :
        /\ Stronger(m, n) = "dual" <=> m = "dual" \/ n = "dual"
        /\ Stronger(m, n) = "shell" => m = "shell" /\ n = "shell"
  BY DEF Stronger, AuditModeStrength, AuditModes
<1>4. floor \in AuditModes
  BY <1>1, <1>2 DEF TaskClasses, AuditModes
<1>. HIDE DEF floor
<1>5. Mode = LET mode == IF task.declared = Undeclared THEN floor
                         ELSE Stronger(task.declared, floor)
             IN  IF mode = "shell" /\ ~ShellAuditable(node.phase) THEN "single" ELSE mode
  BY DEF Mode, ResolveAuditMode, floor
<1>6. CASE task.declared = Undeclared
  BY <1>1, <1>2, <1>5, <1>6 DEF DualTask, ShellAuditable, TaskClasses, Undeclared
<1>7. CASE task.declared \in AuditModes
  BY <1>1, <1>2, <1>3, <1>4, <1>5, <1>7
     DEF DualTask, ShellAuditable, TaskClasses, AuditModes, Undeclared
<1>. QED BY <1>1, <1>6, <1>7

\* A step is one orchestrator's, or nobody's; the others keep what they have.
LEMMA OneActs ==
  ASSUME GateType, Next
  PROVE  \/ \E p \in Orchs : /\ GateStep(p) \/ Crash(p)
                             /\ \A o \in Orchs \ {p} : Keeps(o)
         \/ Others /\ \A o \in Orchs : Keeps(o)
<1>1. ASSUME NEW p \in Orchs, GateStep(p) \/ Crash(p), NEW o \in Orchs \ {p}
      PROVE  Keeps(o)
  <2>1. CASE orch'[o] = orch[o]
    BY <2>1 DEF Keeps
  <2>2. CASE Blocks(p) \/ Passes(p) \/ Fails(p)
    BY <2>2, OneIsIdleThen DEF Blocks, Passes, Fails
  <2>. QED BY <1>1, <2>1, <2>2, GateShape, Iterated DEF GoesOn, Leaves, OnlyMoves
<1>2. ASSUME Others, NEW o \in Orchs
      PROVE  Keeps(o)
  <2>1. CASE GiveUpRebase
    BY <2>1, MovedOn DEF GiveUpRebase, GateType, OrchType, Keeps
  <2>2. CASE ~GiveUpRebase
    <3>1. orch' = orch
      BY <1>2, <2>2 DEF Others, TreeMoves, ExecutorDone, Start, SetGate, RequestFix,
         StartAgain, TakeDetour, Ship, Enter
    <3>. QED BY <3>1 DEF Keeps
  <2>. QED BY <2>1, <2>2
<1>. QED BY <1>1, <1>2, GateAssumption DEF Next

\* What the declarations of the task say stays what it is.
LEMMA TaskStays ==
  ASSUME GateType, Next
  PROVE  task' = task
<1>1. ASSUME NEW p \in Orchs, GateStep(p) \/ Crash(p) PROVE task' = task
  BY <1>1, GateShape, Iterated DEF GoesOn, Leaves, Blocks, Passes, Fails, RunStays
<1>2. CASE Others
  BY <1>2 DEF Others, TreeMoves, ExecutorDone, Start, SetGate, RequestFix, StartAgain,
     TakeDetour, GiveUpRebase, Ship, Enter
<1>. QED BY <1>1, <1>2, GateAssumption DEF Next

\* Whoever blocks the task is idle.
LEMMA BlockIdle ==
  ASSUME GateType, NEW o \in Orchs, Busy(o), BlockTask(o)
  PROVE  orch'[o].pc = "idle" /\ orch'[o].phase = "none"
<1>1. CASE Blocks(o)
  BY <1>1, OneIsIdleThen DEF Blocks
<1>2. CASE node = NoRun
  BY <1>2, IdleTyped DEF BlockTask, GateType, OrchType
<1>. QED BY <1>1, <1>2, BlockShape DEF BlockTask, Blocks, Leaves, EndRun

\* A PASS of the shell is one of checks that all ran and passed, within the scope.
LEMMA ShellPasses ==
  ASSUME GateType, NEW o \in Orchs, ShellCheck(o), orch'[o].verdict = "PASS"
  PROVE  orch'[o].evidence = "shell"
<1>0. orch \in [Orchs -> OrchSet]
  BY DEF GateType, OrchType
<1>1. PICK guard \in ScopeGuards, outcomes \in CheckRuns \cup {{}}, allow \in SUBSET Paths :
        LET lists == AllowLists(allow)
            verdict == ClassifyVerdict(guard.infraError, outcomes,
                                       Violations(guard.changed, lists))
            sound == ~guard.infraError /\ outcomes = {"passed"}
                     /\ \A l \in lists : guard.changed \subseteq l
        IN  /\ guard.infraError <=> outcomes = {}
            /\ orch' = Decide(o, verdict, IF sound \/ verdict # "PASS" THEN "shell" ELSE "none")
  BY DEF ShellCheck
<1>. DEFINE lists == AllowLists(allow)
            bad == Violations(guard.changed, lists)
            verdict == ClassifyVerdict(guard.infraError, outcomes, bad)
<1>2. orch'[o].verdict = verdict
  BY <1>0, <1>1 DEF Decide, OrchSet
<1>3. /\ ~guard.infraError /\ "spawn-failed" \notin outcomes
      /\ "failed" \notin outcomes /\ "timeout" \notin outcomes /\ bad = {}
  BY <1>2 DEF ClassifyVerdict
<1>4. outcomes \subseteq CheckOutcomes /\ outcomes # {}
  BY <1>1, <1>3 DEF CheckRuns
<1>5. outcomes = {"passed"}
  BY <1>3, <1>4 DEF CheckOutcomes
<1>6. \A l \in lists : guard.changed \subseteq l
  BY <1>3 DEF Violations
<1>7. orch' = Decide(o, verdict, "shell")
  BY <1>1, <1>3, <1>5, <1>6
<1>. HIDE DEF verdict
<1>. QED BY <1>0, <1>7 DEF Decide, OrchSet

\* The order of the calls.
LEMMA Calls ==
  ASSUME GateType, NEW o \in Orchs, GateStep(o) \/ Crash(o)
  PROVE  /\ orch'[o].pc = "slots" => orch[o].pc = "synthesize" \/ Mode = "dual"
         /\ orch'[o].pc = "launch" => \/ orch[o].pc = "shell" /\ Mode # "dual"
                                      \/ node.phase \notin VerifiedPhases
         /\ orch'[o].pc = "next" => \/ (AskSlots(o) \/ Record(o)) /\ ~BlockTask(o)
                                    \/ WriteRecord(o) \/ Synthesize(o)
         /\ orch'[o].pc \in {"judging", "synthesize"} => LaunchSlot(o)
         /\ orch'[o].pc = "record" => JudgeSlot(o) \/ JudgeSilently(o)
         /\ orch'[o].pc = "write" => Record(o) /\ ~BlockTask(o)
         /\ orch'[o].pc = "decide" => ShellCheck(o) \/ Judge(o) \/ Synthesize(o)
<1>0. orch \in [Orchs -> OrchSet]
  BY DEF GateType, OrchType
<1>1. CASE AskPath(o)
  BY <1>0, <1>1, IdleTyped DEF AskPath, OrchSet
<1>2. CASE Escalate(o)
  BY <1>0, <1>2 DEF Escalate
<1>3. CASE ShellCheckFails(o)
  BY <1>0, <1>3 DEF ShellCheckFails
<1>4. CASE ShellCheck(o) \/ Judge(o)
  <2>1. orch'[o].pc = "decide"
    <3>1. PICK v, e : orch' = Decide(o, v, e)
      BY <1>4 DEF ShellCheck, Judge
    <3>. QED BY <1>0, <3>1 DEF Decide, OrchSet
  <2>. QED BY <1>4, <2>1
<1>5. CASE AskSlots(o)
  <2>1. CASE BlockTask(o)
    BY <1>5, <2>1, BlockIdle DEF AskSlots, Busy
  <2>2. CASE ~BlockTask(o)
    BY <1>5, <2>2, SlotsAsked
  <2>. QED BY <2>1, <2>2
<1>6. CASE LaunchSlot(o)
  BY <1>6, SlotLaunched
<1>7. CASE JudgeSlot(o) \/ JudgeSilently(o)
  BY <1>7, SlotJudged
<1>8. CASE Record(o)
  <2>1. CASE BlockTask(o)
    BY <1>8, <2>1, BlockIdle DEF Record, Busy
  <2>2. CASE ~BlockTask(o)
    BY <1>8, <2>2, SlotRecorded
  <2>. QED BY <2>1, <2>2
<1>9. CASE WriteRecord(o)
  BY <1>9, RecordWritten
<1>10. CASE Synthesize(o)
  BY <1>10, Synthesized
<1>11. CASE Iterate(o)
  BY <1>11, Iterated
<1>12. CASE Pass(o) \/ Fail(o) \/ GiveUp(o) \/ Crash(o)
  <2>1. orch'[o].pc \in {"idle", "dead"}
    <3>1. CASE Passes(o) \/ Fails(o)
      BY <3>1, OneIsIdleThen DEF Passes, Fails
    <3>2. CASE orch' = [orch EXCEPT ![o] = Idle]
      BY <1>0, <3>2, IdleTyped
    <3>3. CASE GiveUp(o)
      BY <3>3, BlockIdle DEF GiveUp, Busy
    <3>4. CASE Crash(o)
      BY <1>0, <3>4, IdleTyped DEF Crash
    <3>. QED BY <1>12, <3>1, <3>2, <3>3, <3>4 DEF Pass, Fail, Passes, Fails
  <2>. QED BY <2>1
<1>. QED BY <1>1, <1>2, <1>3, <1>4, <1>5, <1>6, <1>7, <1>8, <1>9, <1>10, <1>11, <1>12
         DEF GateStep

\* The verifiers of a task are as many as it asks for.
LEMMA AuditNext ==
  ASSUME GateInv, AuditAsDeclared, Next
  PROVE  AuditAsDeclared'
<1>0. GateType /\ StayedThere /\ task' = task /\ (DualTask' <=> DualTask)
  BY TaskStays DEF GateInv, DualTask
<1>. SUFFICES ASSUME NEW o \in Orchs
              PROVE  /\ orch'[o].pc \in {"slots"} \cup InAudit => DualTask
                     /\ Here(o)' /\ orch'[o].pc = "launch" => ~DualTask
  BY <1>0 DEF AuditAsDeclared, InAudit
<1>1. CASE Keeps(o)
  <2>1. Here(o)' /\ orch'[o].pc = "launch" => Here(o) /\ orch[o].pc = "launch"
    BY <1>0, <1>1, NoReturn, Iterated DEF Keeps
  <2>. QED BY <1>1, <2>1 DEF Keeps, AuditAsDeclared
<1>2. CASE GateStep(o) \/ Crash(o)
  <2>1. orch'[o].pc \in {"slots"} \cup InAudit =>
          orch[o].pc \in {"slots"} \cup InAudit \/ Mode = "dual"
    BY <1>0, <1>2, Calls
       DEF AskSlots, Record, WriteRecord, Synthesize, LaunchSlot, JudgeSlot, JudgeSilently,
           InAudit
  <2>2. Here(o)' /\ orch'[o].pc = "launch" => Mode # "dual"
    <3>1. Here(o)' /\ orch'[o].pc = "launch" => Here(o) /\ node.phase \in VerifiedPhases
      BY <1>0, NoReturn, Iterated, JudgedPhases DEF StayedThere, Here
    <3>. QED BY <1>0, <1>2, <3>1, Calls
  <2>. QED BY <1>0, <2>1, <2>2, ModeIs DEF AuditAsDeclared
<1>. QED BY <1>0, <1>1, <1>2, OneActs

-----------------------------------------------------------------------------
(* The files of the dual audits. *)

\* What a write leaves.
LEMMA WriteAt ==
  ASSUME NEW q, NEW f, Write(q, f)
  PROVE  /\ DOMAIN files' = DOMAIN files \cup {q} /\ files'[q] = f
         /\ \A r \in DOMAIN files : r # q => files'[r] = files[r]
BY DEF Write

\* The files are those of before but for the round of the one orchestrator that is
\* in an audit or begins one, and those forgotten.
LEMMA FilesOf ==
  ASSUME GateType, NEW p \in Orchs, GateStep(p) \/ Crash(p)
  PROVE  \/ UNCHANGED files
         \/ ForgetRounds
         \/ /\ orch[p].pc \in {"judging", "write"} \/ (AskSlots(p) /\ ~BlockTask(p))
            /\ \E f \in FileSet : Write(orch[p].path, f)
<1>0. /\ Round(p) \in FileSet /\ tree \in 0 .. MaxTree /\ orch[p] \in OrchSet
      /\ orch[p].pc \in {"judging", "record", "write"} => orch[p].slot \in Slots
  BY RoundTyped DEF GateType, OrchType, FilesType
<1>1. BlockTask(p) => ForgetRounds
  BY DEF BlockTask
<1>2. CASE AskSlots(p) /\ ~BlockTask(p)
  <2>1. PICK m \in ManifestSet : Write(orch[p].path, [Round(p) EXCEPT !.manifest = m])
    BY <1>2, SlotsAsked
  <2>2. PICK f \in FileSet : f = [Round(p) EXCEPT !.manifest = m]
    BY <1>0, FileEdits
  <2>. QED BY <1>2, <2>1, <2>2
<1>3. CASE JudgeSlot(p)
  <2>1. orch[p].pc = "judging"
    BY <1>3 DEF JudgeSlot
  <2>2. CASE UNCHANGED files
    BY <2>2
  <2>3. ASSUME NEW d \in DocSet, Write(orch[p].path, [Round(p) EXCEPT !.doc[orch[p].slot] = d])
        PROVE  \E f \in FileSet : Write(orch[p].path, f)
    <3>1. PICK s \in Slots : s = orch[p].slot
      BY <1>0, <2>1
    <3>2. PICK f \in FileSet : f = [Round(p) EXCEPT !.doc[s] = d]
      BY <1>0, FileEdits
    <3>. QED BY <2>3, <3>1, <3>2
  <2>. QED BY <1>3, <2>1, <2>2, <2>3, SlotJudged
<1>4. CASE WriteRecord(p)
  <2>1. /\ orch[p].pc = "write"
        /\ Write(orch[p].path,
                 [Round(p) EXCEPT !.manifest = Recorded(orch[p].seen, orch[p].slot, tree)])
    BY <1>4, RecordWritten
  <2>2. PICK m \in ManifestSet : m = orch[p].seen
    BY <1>0 DEF OrchSet
  <2>3. PICK s \in Slots : s = orch[p].slot
    BY <1>0, <2>1
  <2>4. PICK n \in ManifestSet : n = Recorded(m, s, tree)
    BY <1>0, ManifestRecorded
  <2>5. PICK f \in FileSet : f = [Round(p) EXCEPT !.manifest = n]
    BY <1>0, FileEdits
  <2>. QED BY <2>1, <2>2, <2>3, <2>4, <2>5
<1>5. CASE Iterate(p)
  BY <1>5, Iterated
<1>6. CASE \/ AskPath(p) \/ Escalate(p) \/ ShellCheck(p) \/ ShellCheckFails(p) \/ Judge(p)
           \/ LaunchSlot(p) \/ JudgeSilently(p) \/ Synthesize(p) \/ Pass(p) \/ Fail(p)
           \/ GiveUp(p) \/ Crash(p)
  BY <1>6, <1>1 DEF AskPath, Escalate, ShellCheck, ShellCheckFails, Judge, LaunchSlot,
     JudgeSilently, Synthesize, Pass, Fail, GiveUp, Crash
<1>7. CASE Record(p)
  BY <1>7, <1>1 DEF Record
<1>8. CASE AskSlots(p) /\ BlockTask(p)
  BY <1>1, <1>8
<1>. QED BY <1>2, <1>3, <1>4, <1>5, <1>6, <1>7, <1>8 DEF GateStep

\* Nobody else touches them.
LEMMA OthersFiles ==
  ASSUME GateType, Others
  PROVE  /\ UNCHANGED files /\ tree <= tree' /\ tree \in Int /\ tree' \in Int
         /\ \A o \in Orchs : /\ Keeps(o) /\ orch'[o].pc = orch[o].pc
                             /\ orch'[o].path = orch[o].path /\ orch'[o].shared = orch[o].shared
<1>0. tree \in 0 .. MaxTree
  BY DEF GateType, FilesType
<1>1. CASE GiveUpRebase
  <2>1. orch' = Moved(orch, FALSE) /\ orch \in [Orchs -> OrchSet]
    BY <1>1 DEF GiveUpRebase, GateType, OrchType
  <2>2. \A o \in Orchs : Keeps(o) /\ orch'[o].shared = orch[o].shared
    BY <2>1, MovedOn DEF Keeps
  <2>3. UNCHANGED <<files, tree>>
    BY <1>1 DEF GiveUpRebase
  <2>. QED BY <1>0, <2>2, <2>3 DEF Keeps
<1>2. CASE TreeMoves
  BY <1>0, <1>2 DEF TreeMoves, Keeps
<1>3. CASE ~TreeMoves /\ ~GiveUpRebase
  <2>1. UNCHANGED <<orch, files, tree>>
    BY <1>3 DEF Others, ExecutorDone, Start, SetGate, RequestFix, StartAgain, TakeDetour,
       Ship, Enter
  <2>. QED BY <1>0, <2>1 DEF Keeps
<1>. QED BY <1>1, <1>2, <1>3

\* No verdict file disappears from a round that somebody is at.
DocsStay ==
  \A r \in DOMAIN files \cap DOMAIN files', s \in Slots :
    files[r].doc[s] # NoDoc => files'[r].doc[s] # NoDoc

\* A step that takes no file away and begins no write keeps what is known of rounds.
LEMMA RoundKnownThen ==
  ASSUME GateType, GateType', RoundKnown, DocsStay,
         \A r \in DOMAIN files' :
           /\ TwoFamilies(files'[r].manifest)
           /\ \A s \in Slots :
                files'[r].manifest.snapshot[s] # NoSnapshot => files'[r].doc[s] # NoDoc,
         \A o \in Orchs : orch'[o].pc = "write" => Keeps(o)
  PROVE  RoundKnown'
<1>1. ASSUME NEW o \in Orchs, orch'[o].pc = "write"
      PROVE  /\ TwoFamilies(orch'[o].seen) /\ files'[orch'[o].path].doc[orch'[o].slot] # NoDoc
             /\ \A s \in Slots : orch'[o].seen.snapshot[s] # NoSnapshot =>
                                   files'[orch'[o].path].doc[s] # NoDoc
             /\ orch'[o].path \in DOMAIN files'
  <2>1. /\ orch[o].pc = "write" /\ orch'[o].seen = orch[o].seen
        /\ orch'[o].slot = orch[o].slot /\ orch'[o].path = orch[o].path
    BY <1>1 DEF Keeps
  <2>2. /\ orch[o].path \in DOMAIN files /\ orch[o].path \in DOMAIN files'
        /\ orch[o].slot \in Slots
    BY <1>1, <2>1 DEF GateType, FilesType, OrchType, InAudit
  <2>3. /\ TwoFamilies(orch[o].seen) /\ files[orch[o].path].doc[orch[o].slot] # NoDoc
        /\ \A s \in Slots : orch[o].seen.snapshot[s] # NoSnapshot =>
                              files[orch[o].path].doc[s] # NoDoc
    BY <2>1, <2>2 DEF RoundKnown, Round, FilesAt, Recordable
  <2>. QED BY <2>1, <2>2, <2>3 DEF DocsStay
<1>. QED BY <1>1 DEF RoundKnown, Round, FilesAt, Recordable, TwoFamilies

\* Nothing is recorded without a file, and nothing judged but by two families.
LEMMA RoundKnownNext ==
  ASSUME GateType, RoundKnown, Next
  PROVE  RoundKnown'
<1>0. GateType' /\ FilesType
  BY TypeNext DEF GateType
<1>. DEFINE known(m, doc) ==
       /\ TwoFamilies(m)
       /\ \A s \in Slots : m.snapshot[s] # NoSnapshot => doc[s] # NoDoc
<1>1. \A r \in DOMAIN files : known(files[r].manifest, files[r].doc)
  BY DEF RoundKnown
<1>2. ASSUME DOMAIN files' \subseteq DOMAIN files, \A r \in DOMAIN files' : files'[r] = files[r],
             \A o \in Orchs : orch'[o].pc = "write" => Keeps(o)
      PROVE  RoundKnown'
  <2>1. \A r \in DOMAIN files' : known(files'[r].manifest, files'[r].doc)
    BY <1>1, <1>2
  <2>2. DocsStay
    BY <1>2 DEF DocsStay
  <2>. QED BY <1>0, <1>2, <2>1, <2>2, RoundKnownThen
<1>3. ASSUME NEW q, NEW f \in FileSet, Write(q, f), known(f.manifest, f.doc),
             q \in DOMAIN files => \A s \in Slots : files[q].doc[s] # NoDoc => f.doc[s] # NoDoc,
             \A o \in Orchs : orch'[o].pc = "write" => Keeps(o)
      PROVE  RoundKnown'
  <2>1. /\ DOMAIN files' = DOMAIN files \cup {q} /\ files'[q] = f
        /\ \A r \in DOMAIN files : r # q => files'[r] = files[r]
    BY <1>3, WriteAt
  <2>2. \A r \in DOMAIN files' : known(files'[r].manifest, files'[r].doc)
    BY <1>1, <1>3, <2>1
  <2>3. DocsStay
    BY <1>3, <2>1 DEF DocsStay
  <2>. QED BY <1>0, <1>3, <2>2, <2>3, RoundKnownThen
<1>4. CASE Others
  <2>1. UNCHANGED files /\ \A o \in Orchs : Keeps(o)
    BY <1>4, OthersFiles
  <2>. QED BY <1>2, <2>1
<1>5. ASSUME NEW p \in Orchs, GateStep(p) \/ Crash(p), \A o \in Orchs \ {p} : Keeps(o)
      PROVE  RoundKnown'
  <2>. DEFINE q == orch[p].path
              g == Round(p)
  <2>0. /\ g \in FileSet /\ tree \in 0 .. MaxTree /\ orch[p] \in OrchSet
        /\ orch[p].pc \in {"judging", "record", "write"} => orch[p].slot \in Slots
        /\ q \in DOMAIN files => g = files[q]
        /\ orch[p].pc \in InAudit => q \in DOMAIN files
    BY RoundTyped DEF GateType, OrchType, FilesType
  <2>. HIDE DEF known
  <2>1. CASE AskSlots(p) /\ ~BlockTask(p)
    <3>1. PICK m \in ManifestSet :
            /\ orch'[p].pc = "next" /\ Write(q, [g EXCEPT !.manifest = m])
            /\ TwoFamilies(m) /\ \A s \in Slots : m.snapshot[s] = NoSnapshot
      BY <2>1, SlotsAsked
    <3>2. PICK f \in FileSet :
            f = [g EXCEPT !.manifest = m] /\ f.manifest = m /\ f.doc = g.doc
      BY <2>0, FileEdits
    <3>3. known(f.manifest, f.doc)
      BY <3>1, <3>2 DEF known
    <3>4. Write(q, f) /\ \A o \in Orchs : orch'[o].pc = "write" => Keeps(o)
      BY <1>5, <3>1, <3>2
    <3>5. q \in DOMAIN files => \A s \in Slots : files[q].doc[s] # NoDoc => f.doc[s] # NoDoc
      BY <2>0, <3>2
    <3>. QED BY <1>3, <3>3, <3>4, <3>5
  <2>2. CASE JudgeSlot(p) \/ JudgeSilently(p)
    <3>0. /\ orch[p].pc = "judging" /\ orch'[p].pc = "record" /\ orch[p].slot \in Slots
          /\ q \in DOMAIN files /\ g = files[q]
      BY <2>0, <2>2, SlotJudged DEF InAudit
    <3>1. \A o \in Orchs : orch'[o].pc = "write" => Keeps(o)
      BY <1>5, <3>0
    <3>2. CASE UNCHANGED files
      BY <1>2, <3>1, <3>2
    <3>3. ASSUME NEW d \in DocSet, d # NoDoc, Write(q, [g EXCEPT !.doc[orch[p].slot] = d])
          PROVE  RoundKnown'
      <4>1. PICK s \in Slots : s = orch[p].slot
        BY <3>0
      <4>0. /\ [g EXCEPT !.doc[s] = d] \in FileSet
            /\ [g EXCEPT !.doc[s] = d].manifest = g.manifest
            /\ [g EXCEPT !.doc[s] = d].doc = [g.doc EXCEPT ![s] = d]
        BY <2>0, FileEdits
      <4>2. PICK f \in FileSet : /\ f = [g EXCEPT !.doc[s] = d] /\ f.manifest = g.manifest
                                 /\ f.doc = [g.doc EXCEPT ![s] = d]
        BY <4>0
      <4>3. f.doc[s] = d /\ \A t \in Slots \ {s} : f.doc[t] = g.doc[t]
        BY <2>0, <4>2 DEF FileSet
      <4>4. \A t \in Slots : g.doc[t] # NoDoc => f.doc[t] # NoDoc
        BY <3>3, <4>3
      <4>5. known(f.manifest, f.doc)
        BY <1>1, <3>0, <4>2, <4>4 DEF known
      <4>6. Write(q, f)
        BY <3>3, <4>1, <4>2
      <4>. QED BY <1>3, <3>0, <3>1, <4>4, <4>5, <4>6
    <3>. QED BY <2>2, <3>2, <3>3, SlotJudged
  <2>3. CASE WriteRecord(p)
    <3>0. /\ orch[p].pc = "write" /\ orch'[p].pc = "next"
          /\ orch[p].slot \in Slots /\ q \in DOMAIN files /\ g = files[q]
          /\ Write(q, [g EXCEPT !.manifest = Recorded(orch[p].seen, orch[p].slot, tree)])
      BY <2>0, <2>3, RecordWritten DEF InAudit
    <3>1. /\ TwoFamilies(orch[p].seen) /\ g.doc[orch[p].slot] # NoDoc
          /\ \A s \in Slots : orch[p].seen.snapshot[s] # NoSnapshot => g.doc[s] # NoDoc
      BY <3>0 DEF RoundKnown, Recordable
    <3>2. PICK m \in ManifestSet : m = orch[p].seen
      BY <2>0 DEF OrchSet
    <3>3. PICK s \in Slots : s = orch[p].slot
      BY <3>0
    <3>4. PICK n \in ManifestSet :
            /\ n = Recorded(m, s, tree) /\ n.family = m.family
            /\ n.snapshot = [m.snapshot EXCEPT ![s] = tree]
      BY <2>0, ManifestRecorded
    <3>5. PICK f \in FileSet :
            f = [g EXCEPT !.manifest = n] /\ f.manifest = n /\ f.doc = g.doc
      BY <2>0, FileEdits
    <3>6. known(f.manifest, f.doc)
      <4>1. TwoFamilies(n)
        BY <3>1, <3>2, <3>4 DEF TwoFamilies
      <4>2. \A t \in Slots \ {s} : n.snapshot[t] = m.snapshot[t]
        BY <3>4 DEF ManifestSet
      <4>. QED BY <3>1, <3>2, <3>3, <3>5, <4>1, <4>2 DEF known
    <3>7. \A o \in Orchs : orch'[o].pc = "write" => Keeps(o)
      BY <1>5, <3>0
    <3>8. Write(q, f)
      BY <3>0, <3>2, <3>3, <3>4, <3>5
    <3>9. \A t \in Slots : files[q].doc[t] # NoDoc => f.doc[t] # NoDoc
      BY <3>0, <3>5
    <3>. QED BY <1>3, <3>6, <3>7, <3>8, <3>9
  <2>4. CASE Record(p) /\ ~BlockTask(p)
    <3>1. /\ UNCHANGED files /\ orch[p].pc = "record" /\ GoesOn(p)
          /\ \/ /\ orch'[p].pc = "write" /\ orch'[p].slot = orch[p].slot
                /\ orch'[p].seen = g.manifest /\ Recordable(g, orch[p].slot)
             \/ orch'[p].pc = "next"
      BY <2>4, SlotRecorded
    <3>2. CASE orch'[p].pc = "next"
      BY <1>2, <1>5, <3>1, <3>2
    <3>3. CASE orch'[p].pc = "write"
      <4>1. /\ orch'[p].path = q /\ q \in DOMAIN files /\ g = files[q]
            /\ orch'[p].seen = g.manifest /\ orch'[p].slot = orch[p].slot
            /\ Recordable(g, orch[p].slot)
        BY <2>0, <3>1, <3>3 DEF InAudit, GoesOn
      <4>2. known(g.manifest, g.doc)
        BY <1>1, <4>1
      <4>3. ASSUME NEW o \in Orchs, orch'[o].pc = "write"
            PROVE  /\ TwoFamilies(orch'[o].seen)
                   /\ files'[orch'[o].path].doc[orch'[o].slot] # NoDoc
                   /\ orch'[o].path \in DOMAIN files'
                   /\ \A s \in Slots : orch'[o].seen.snapshot[s] # NoSnapshot =>
                                         files'[orch'[o].path].doc[s] # NoDoc
        <5>1. CASE o = p
          BY <3>1, <4>1, <4>2, <5>1 DEF Recordable, known
        <5>2. CASE o # p
          <6>1. /\ orch[o].pc = "write" /\ orch'[o].seen = orch[o].seen
                /\ orch'[o].slot = orch[o].slot /\ orch'[o].path = orch[o].path
                /\ orch[o].path \in DOMAIN files
            BY <1>5, <4>3, <5>2 DEF Keeps, GateType, FilesType, InAudit
          <6>. QED BY <3>1, <6>1 DEF RoundKnown, Round, FilesAt, Recordable
        <5>. QED BY <5>1, <5>2
      <4>. QED BY <1>1, <3>1, <4>3 DEF known, RoundKnown, Round, FilesAt, Recordable, TwoFamilies
    <3>. QED BY <3>1, <3>2, <3>3
  <2>5. CASE UNCHANGED files \/ ForgetRounds
    <3>1. DOMAIN files' \subseteq DOMAIN files /\ \A r \in DOMAIN files' : files'[r] = files[r]
      BY <2>5 DEF ForgetRounds
    <3>2. CASE ~(Record(p) /\ ~BlockTask(p))
      <4>1. \A o \in Orchs : orch'[o].pc = "write" => Keeps(o)
        BY <1>5, <3>2, Calls
      <4>. QED BY <1>2, <3>1, <4>1
    <3>. QED BY <2>4, <3>2
  <2>6. orch[p].pc \in {"judging", "write"} =>
          \/ JudgeSlot(p) \/ JudgeSilently(p) \/ WriteRecord(p) \/ Crash(p)
    BY <1>5 DEF GateStep, Iterate, AskPath, Escalate, ShellCheck, ShellCheckFails, Judge,
       AskSlots, LaunchSlot, Record, Synthesize, Pass, Fail, GiveUp
  <2>7. Crash(p) => ForgetRounds
    BY DEF Crash
  <2>. QED BY <1>5, <2>1, <2>2, <2>3, <2>5, <2>6, <2>7, FilesOf
<1>. QED BY <1>4, <1>5, OneActs

\* What is known of a round o has for itself stays so while only others act.
LEMMA SeenStays ==
  ASSUME GateType, NEW o \in Orchs, RecordedWasSeen(o), Keeps(o),
         tree <= tree', tree' \in Int,
         orch[o].pc \in InAudit /\ ~orch'[o].shared =>
           /\ orch[o].path \in DOMAIN files' /\ files'[orch[o].path] = files[orch[o].path]
           /\ Partners(o)' = {}
  PROVE  RecordedWasSeen(o)'
<1>. SUFFICES ASSUME orch'[o].pc \in InAudit, ~orch'[o].shared
              PROVE  RecordedWasSeen(o)'
  BY DEF RecordedWasSeen, InAudit
<1>1. /\ orch[o].pc \in InAudit /\ ~orch[o].shared /\ orch'[o].pc = orch[o].pc
      /\ orch'[o].path = orch[o].path /\ orch'[o].slot = orch[o].slot
      /\ orch'[o].saw = orch[o].saw /\ orch'[o].seen = orch[o].seen
  BY DEF Keeps
<1>2. /\ orch[o].path \in DOMAIN files /\ Partners(o)' = {}
      /\ Round(o) = files[orch[o].path] /\ Round(o)' = Round(o)
  BY <1>1 DEF GateType, FilesType, Round, FilesAt
<1>3. PICK f \in FileSet : f = Round(o) /\ f = Round(o)'
  BY <1>2, RoundTyped DEF GateType
<1>4. f.manifest.baseline \in Int /\ tree \in Int /\ orch[o].saw \in Int
      /\ \A s \in Slots : f.doc[s].on \in Int
  BY DEF FileSet, ManifestSet, DocSet, NoSnapshot, GateType, FilesType, OrchType, OrchSet
<1>5. /\ \A s \in Slots : ~(Recording(o) /\ orch[o].slot = s) =>
           (f.manifest.snapshot[s] = f.manifest.baseline => f.doc[s].on = f.manifest.baseline)
      /\ orch[o].pc = "judging" => f.manifest.baseline <= orch[o].saw /\ orch[o].saw <= tree
      /\ Recording(o) => \/ f.doc[orch[o].slot] = NoDoc
                         \/ f.doc[orch[o].slot].on = f.manifest.baseline
                         \/ f.manifest.baseline < tree
      /\ orch[o].pc = "write" => orch[o].seen = f.manifest
  BY <1>1, <1>3 DEF RecordedWasSeen
<1>6. Recording(o)' <=> Recording(o)
  BY <1>1 DEF Recording
<1>7. /\ orch[o].pc = "judging" => f.manifest.baseline <= orch[o].saw /\ orch[o].saw <= tree'
      /\ f.manifest.baseline < tree => f.manifest.baseline < tree'
  BY <1>4, <1>5
<1>. QED BY <1>1, <1>2, <1>3, <1>5, <1>6, <1>7 DEF RecordedWasSeen

\* Nobody comes to the round of o but by asking for its slots, and then o shares it.
LEMMA OthersSeen ==
  ASSUME GateType, NEW o \in Orchs, RecordedWasSeen(o),
         NEW p \in Orchs \ {o}, GateStep(p) \/ Crash(p), \A x \in Orchs \ {p} : Keeps(x)
  PROVE  RecordedWasSeen(o)'
<1>0. tree' = tree /\ tree \in Int
  <2>1. tree' = tree
    BY GateShape, Iterated DEF GoesOn, Leaves, Blocks, Passes, Fails, RunStays
  <2>2. tree \in 0 .. MaxTree
    BY DEF GateType, FilesType
  <2>. QED BY <2>1, <2>2
<1>1. ASSUME orch[o].pc \in InAudit, ~orch'[o].shared
      PROVE  /\ orch[o].path \in DOMAIN files'
             /\ files'[orch[o].path] = files[orch[o].path]
             /\ Partners(o)' = {}
  <2>0. Keeps(o) /\ orch'[o].pc = orch[o].pc /\ orch'[o].path = orch[o].path
        /\ ~orch[o].shared
    BY <1>1 DEF Keeps
  <2>1. Partners(o) = {}
    BY <1>1, <2>0 DEF RecordedWasSeen
  <2>2. ~(orch[p].pc \in InAudit /\ orch[p].path = orch[o].path)
    BY <2>1 DEF Partners
  <2>3. ~(AskSlots(p) /\ ~BlockTask(p) /\ orch[p].path = orch[o].path)
    <3>1. SUFFICES ASSUME AskSlots(p), ~BlockTask(p), orch[p].path = orch[o].path
                   PROVE  FALSE
      OBVIOUS
    <3>2. o \in Partners(p)
      BY <1>1, <3>1 DEF Partners
    <3>. QED BY <1>1, <3>1, <3>2, SlotsAsked
  <2>4. orch[o].path \in DOMAIN files
    BY <1>1 DEF GateType, FilesType
  <2>5. orch[o].path \in DOMAIN files' /\ files'[orch[o].path] = files[orch[o].path]
    <3>1. CASE UNCHANGED files
      BY <2>4, <3>1
    <3>2. CASE ForgetRounds
      BY <2>0, <2>4, <3>2 DEF ForgetRounds
    <3>3. ASSUME NEW f \in FileSet, Write(orch[p].path, f), orch[p].path # orch[o].path
          PROVE  orch[o].path \in DOMAIN files' /\ files'[orch[o].path] = files[orch[o].path]
      BY <2>4, <3>3, WriteAt
    <3>. QED BY <2>2, <2>3, <3>1, <3>2, <3>3, FilesOf DEF InAudit
  <2>6. ASSUME orch'[p].pc \in InAudit, orch'[p].path = orch[o].path
        PROVE  FALSE
    <3>1. (AskSlots(p) /\ ~BlockTask(p)) \/ orch[p].pc \in InAudit
      BY <2>6, Calls
         DEF Record, WriteRecord, Synthesize, LaunchSlot, JudgeSlot, JudgeSilently, InAudit
    <3>2. GoesOn(p)
      BY <2>6, GateShape, Iterated, IdleTyped, OneIsIdleThen
         DEF Leaves, Blocks, Passes, Fails, InAudit
    <3>3. orch[p].pc # "path"
      BY <3>1 DEF AskSlots, InAudit
    <3>4. orch'[p].path = orch[p].path
      BY <3>2, <3>3 DEF GoesOn
    <3>. QED BY <2>2, <2>3, <2>6, <3>1, <3>4
  <2>7. ASSUME NEW x \in Orchs \ {o}
        PROVE  ~(orch'[x].pc \in InAudit /\ orch'[x].path = orch'[o].path)
    <3>1. CASE x = p
      BY <2>0, <2>6, <3>1
    <3>2. CASE x # p
      <4>1. orch'[x].pc = orch[x].pc /\ orch'[x].path = orch[x].path
        BY <3>2 DEF Keeps
      <4>. QED BY <2>0, <2>1, <4>1 DEF Partners
    <3>. QED BY <3>1, <3>2
  <2>8. Partners(o)' = {}
    BY <2>7 DEF Partners, InAudit
  <2>. QED BY <2>5, <2>8
<1>. QED BY <1>0, <1>1, SeenStays

\* What a record-slot, a file and the baseline have to do with each other, whoever acts.
LEMMA SeenNext ==
  ASSUME GateType, RoundKnown, "silent" \notin Mishaps, NEW o \in Orchs,
         RecordedWasSeen(o), Next
  PROVE  RecordedWasSeen(o)'
<1>. DEFINE here == orch[o].path
            g == Round(o)
            base == g.manifest.baseline
<1>0. /\ g \in FileSet /\ tree \in 0 .. MaxTree /\ orch[o] \in OrchSet
      /\ orch[o].pc \in {"judging", "record", "write"} => orch[o].slot \in Slots
      /\ orch[o].pc \in InAudit =>
           /\ here \in DOMAIN files /\ g = files[here] /\ 0 <= base /\ base <= tree
  BY RoundTyped DEF GateType, OrchType, FilesType, Based
<1>1. /\ base \in Int /\ tree \in Int /\ orch[o].saw \in Int
      /\ \A s \in Slots : g.doc[s].on \in Int /\ g.manifest.snapshot[s] \in Int
  BY <1>0 DEF FileSet, ManifestSet, DocSet, NoSnapshot, OrchSet
<1>2. CASE orch'[o].pc \notin InAudit
  BY <1>2 DEF RecordedWasSeen, InAudit
<1>3. CASE Others
  <2>1. /\ Keeps(o) /\ UNCHANGED files /\ tree <= tree' /\ tree' \in Int
        /\ \A p \in Orchs : orch'[p].pc = orch[p].pc /\ orch'[p].path = orch[p].path
    BY <1>3, OthersFiles
  <2>2. orch[o].pc \in InAudit /\ ~orch'[o].shared => Partners(o) = {}
    BY <2>1 DEF Keeps, RecordedWasSeen
  <2>3. Partners(o)' = Partners(o)
    BY <2>1 DEF Partners, InAudit
  <2>. QED BY <1>0, <2>1, <2>2, <2>3, SeenStays
<1>4. ASSUME NEW p \in Orchs \ {o}, GateStep(p) \/ Crash(p), \A x \in Orchs \ {p} : Keeps(x)
      PROVE  RecordedWasSeen(o)'
  BY <1>4, OthersSeen
<1>5. ASSUME GateStep(o) \/ Crash(o), orch'[o].pc \in InAudit
      PROVE  RecordedWasSeen(o)'
  <2>. SUFFICES ASSUME ~orch'[o].shared
                PROVE  RecordedWasSeen(o)'
    BY DEF RecordedWasSeen
  <2>. DEFINE seen(f, pc, slot) ==
         /\ \A s \in Slots : ~(pc \in {"record", "write"} /\ slot = s) =>
              (f.manifest.snapshot[s] = f.manifest.baseline =>
                 f.doc[s].on = f.manifest.baseline)
         /\ pc \in {"record", "write"} =>
              \/ f.doc[slot] = NoDoc
              \/ f.doc[slot].on = f.manifest.baseline
              \/ f.manifest.baseline < tree
  <2>. HIDE DEF seen
  <2>1. /\ orch'[o].path = here /\ orch[o].pc \in {"slots"} \cup InAudit /\ tree' = tree
        /\ \A x \in Orchs \ {o} : orch'[x].pc = orch[x].pc /\ orch'[x].path = orch[x].path
    <3>1. GoesOn(o)
      BY <1>5, GateShape, Iterated, IdleTyped, OneIsIdleThen
         DEF Leaves, Blocks, Passes, Fails, InAudit
    <3>2. orch[o].pc \in {"slots"} \cup InAudit
      BY <1>5, Calls
         DEF AskSlots, Record, WriteRecord, Synthesize, LaunchSlot, JudgeSlot, JudgeSilently,
             InAudit
    <3>. QED BY <3>1, <3>2 DEF GoesOn, RunStays, OnlyMoves, Keeps, InAudit
  <2>2. Partners(o) = {} => Partners(o)' = {}
    BY <2>1 DEF Partners, InAudit
  <2>3. ASSUME NEW f \in FileSet, files'[here] = f, here \in DOMAIN files', Partners(o) = {},
               seen(f, orch'[o].pc, orch'[o].slot),
               orch'[o].pc = "judging" =>
                 f.manifest.baseline <= orch'[o].saw /\ orch'[o].saw <= tree,
               orch'[o].pc = "write" => orch'[o].seen = f.manifest
        PROVE  RecordedWasSeen(o)'
    <3>1. Round(o)' = f
      BY <2>1, <2>3 DEF Round, FilesAt
    <3>. QED BY <2>1, <2>2, <2>3, <3>1 DEF RecordedWasSeen, Recording, seen
  <2>4. CASE AskSlots(o) /\ ~BlockTask(o)
    <3>1. PICK m \in ManifestSet :
            /\ orch'[o].pc = "next" /\ (orch'[o].shared <=> Partners(o) # {})
            /\ Write(here, [g EXCEPT !.manifest = m])
            /\ m.baseline = tree /\ \A s \in Slots : m.snapshot[s] = NoSnapshot
      BY <2>4, SlotsAsked
    <3>5. /\ [g EXCEPT !.manifest = m] \in FileSet
          /\ [g EXCEPT !.manifest = m].manifest = m
      BY <1>0, FileEdits
    <3>2. PICK f \in FileSet : f = [g EXCEPT !.manifest = m] /\ f.manifest = m
      BY <3>5
    <3>6. Write(here, f)
      BY <3>1, <3>2
    <3>7. DOMAIN files' = DOMAIN files \cup {here}
      BY <3>6, WriteAt
    <3>8. files'[here] = f
      BY <3>6, WriteAt
    <3>3. files'[here] = f /\ here \in DOMAIN files'
      BY <3>7, <3>8
    <3>4. seen(f, "next", orch'[o].slot)
      BY <1>0, <3>1, <3>2 DEF NoSnapshot, seen
    <3>. QED BY <2>3, <3>1, <3>3, <3>4
  <2>5. CASE ~(AskSlots(o) /\ ~BlockTask(o))
    <3>0. orch[o].pc \in InAudit
      BY <1>5, <2>5, Calls
         DEF Record, WriteRecord, Synthesize, LaunchSlot, JudgeSlot, JudgeSilently, InAudit
    <3>1. ~orch[o].shared =>
            /\ Partners(o) = {} /\ seen(g, orch[o].pc, orch[o].slot)
            /\ orch[o].pc = "judging" => base <= orch[o].saw /\ orch[o].saw <= tree
            /\ orch[o].pc = "write" => orch[o].seen = g.manifest
      BY <3>0 DEF RecordedWasSeen, Recording, seen
    <3>2. here \in DOMAIN files /\ g = files[here] /\ 0 <= base /\ base <= tree
      BY <1>0, <3>0
    <3>3. CASE LaunchSlot(o)
      <4>1. /\ UNCHANGED files /\ orch[o].pc = "next" /\ ~orch[o].shared
            /\ orch'[o].pc = "synthesize" \/ (orch'[o].pc = "judging" /\ orch'[o].saw = tree)
        BY <3>3, SlotLaunched
      <4>2. seen(g, orch'[o].pc, orch'[o].slot)
        BY <3>1, <4>1 DEF seen
      <4>. QED BY <1>0, <1>1, <2>3, <3>1, <3>2, <4>1, <4>2
    <3>4. CASE JudgeSlot(o) \/ JudgeSilently(o)
      <4>1. /\ orch[o].pc = "judging" /\ ~orch[o].shared /\ orch'[o].pc = "record"
            /\ orch'[o].slot = orch[o].slot
            /\ base <= orch[o].saw /\ orch[o].saw <= tree
        BY <3>1, <3>4, SlotJudged
      <4>2. PICK s \in Slots : s = orch[o].slot
        BY <1>0, <4>1
      <4>3. CASE UNCHANGED files /\ ~Recordable(g, orch[o].slot)
        <5>1. seen(g, "record", s)
          BY <3>1, <4>1, <4>2, <4>3 DEF Recordable, seen
        <5>. QED BY <1>0, <2>3, <3>1, <3>2, <4>1, <4>2, <4>3, <5>1
      <4>4. ASSUME NEW d \in DocSet, d.on = (IF orch[o].saw = tree THEN tree ELSE NoSnapshot),
                   Write(here, [g EXCEPT !.doc[orch[o].slot] = d])
            PROVE  RecordedWasSeen(o)'
        <5>0. /\ [g EXCEPT !.doc[s] = d] \in FileSet
              /\ [g EXCEPT !.doc[s] = d].manifest = g.manifest
              /\ [g EXCEPT !.doc[s] = d].doc = [g.doc EXCEPT ![s] = d]
          BY <1>0, FileEdits
        <5>1. PICK f \in FileSet : /\ f = [g EXCEPT !.doc[s] = d] /\ f.manifest = g.manifest
                                   /\ f.doc = [g.doc EXCEPT ![s] = d]
          BY <5>0
        <5>2. f.doc[s] = d /\ \A t \in Slots \ {s} : f.doc[t] = g.doc[t]
          BY <1>0, <5>1 DEF FileSet
        <5>3. Write(here, f)
          BY <4>2, <4>4, <5>1
        <5>7. DOMAIN files' = DOMAIN files \cup {here}
          BY <5>3, WriteAt
        <5>8. files'[here] = f
          BY <5>3, WriteAt
        <5>4. files'[here] = f /\ here \in DOMAIN files'
          BY <5>7, <5>8
        <5>5. d.on = base \/ base < tree
          BY <1>1, <4>1, <4>4
        <5>6. seen(f, "record", s)
          BY <3>1, <4>1, <5>1, <5>2, <5>5 DEF seen
        <5>. QED BY <2>3, <3>1, <4>1, <4>2, <5>4, <5>6
      <4>. QED BY <3>4, <4>3, <4>4, SlotJudged
    <3>5. CASE Record(o) /\ ~BlockTask(o)
      <4>1. /\ UNCHANGED files /\ orch[o].pc = "record" /\ ~orch[o].shared
            /\ \/ /\ orch'[o].pc = "write" /\ orch'[o].slot = orch[o].slot
                  /\ orch'[o].seen = g.manifest
               \/ orch'[o].pc = "next" /\ ~Recordable(g, orch[o].slot)
        BY <3>5, SlotRecorded
      <4>2. seen(g, "record", orch[o].slot) /\ Partners(o) = {}
        BY <3>1, <4>1
      <4>3. CASE orch'[o].pc = "write"
        <5>1. seen(g, "write", orch'[o].slot) /\ orch'[o].seen = g.manifest
          BY <4>1, <4>2, <4>3 DEF seen
        <5>. QED BY <1>0, <2>3, <3>2, <4>1, <4>2, <4>3, <5>1
      <4>4. CASE orch'[o].pc = "next"
        <5>1. g.doc[orch[o].slot] = NoDoc
          BY <4>1, <4>4 DEF Recordable
        <5>2. g.manifest.snapshot[orch[o].slot] = NoSnapshot
          BY <1>0, <3>2, <4>1, <5>1 DEF RoundKnown
        <5>3. seen(g, "next", orch'[o].slot)
          BY <1>1, <3>2, <4>2, <5>2 DEF NoSnapshot, seen
        <5>. QED BY <1>0, <2>3, <3>2, <4>1, <4>2, <4>4, <5>3
      <4>. QED BY <4>1, <4>3, <4>4
    <3>6. CASE WriteRecord(o)
      <4>1. /\ orch[o].pc = "write" /\ ~orch[o].shared /\ orch'[o].pc = "next"
            /\ Write(here, [g EXCEPT !.manifest = Recorded(orch[o].seen, orch[o].slot, tree)])
        BY <3>6, RecordWritten
      <4>2. PICK s \in Slots : s = orch[o].slot
        BY <1>0, <4>1
      <4>3. PICK m \in ManifestSet : m = g.manifest /\ orch[o].seen = m
        BY <1>0, <3>1, <4>1 DEF FileSet
      <4>4. PICK n \in ManifestSet :
              /\ n = Recorded(m, s, tree) /\ n.baseline = m.baseline
              /\ n.snapshot = [m.snapshot EXCEPT ![s] = tree]
        BY <1>0, ManifestRecorded
      <4>5. PICK f \in FileSet :
              f = [g EXCEPT !.manifest = n] /\ f.manifest = n /\ f.doc = g.doc
        BY <1>0, FileEdits
      <4>6. Write(here, f)
        BY <4>1, <4>2, <4>3, <4>4, <4>5
      <4>11. DOMAIN files' = DOMAIN files \cup {here}
        BY <4>6, WriteAt
      <4>12. files'[here] = f
        BY <4>6, WriteAt
      <4>7. files'[here] = f /\ here \in DOMAIN files'
        BY <4>11, <4>12
      <4>8. n.snapshot[s] = tree /\ \A t \in Slots \ {s} : n.snapshot[t] = m.snapshot[t]
        BY <4>4 DEF ManifestSet
      <4>9. g.doc[s] # NoDoc
        BY <4>1, <4>2 DEF RoundKnown, Recordable
      <4>13. base = m.baseline /\ f.manifest = n /\ f.doc = g.doc /\ n.baseline = base
        BY <4>3, <4>4, <4>5
      <4>14. g.doc[s].on = base \/ base < tree
        BY <3>1, <4>1, <4>2, <4>9 DEF seen
      <4>15. \A t \in Slots \ {s} : m.snapshot[t] = base => g.doc[t].on = base
        BY <3>1, <4>1, <4>2, <4>3 DEF seen
      <4>16. \A t \in Slots : n.snapshot[t] = base => g.doc[t].on = base
        BY <1>1, <4>8, <4>14, <4>15
      <4>10. seen(f, "next", orch'[o].slot)
        BY <4>13, <4>16 DEF seen
      <4>. QED BY <2>3, <3>1, <4>1, <4>7, <4>10
    <3>7. CASE Synthesize(o)
      <4>1. /\ UNCHANGED files /\ orch[o].pc = "synthesize" /\ ~orch[o].shared
            /\ orch'[o].pc = "next"
        BY <1>5, <3>7, Synthesized DEF InAudit
      <4>2. seen(g, "next", orch'[o].slot)
        BY <3>1, <4>1 DEF seen
      <4>. QED BY <1>0, <2>3, <3>1, <3>2, <4>1, <4>2
    <3>. QED BY <1>5, <2>5, <3>3, <3>4, <3>5, <3>6, <3>7, Calls DEF InAudit
  <2>. QED BY <2>4, <2>5
<1>. QED BY <1>2, <1>3, <1>4, <1>5, OneActs

\* A PASS of two verifiers is one of two families that saw the tree of the baseline,
\* unless a second orchestrator was at the round.
LEMMA DualPasses ==
  ASSUME GateType, RoundKnown, NEW o \in Orchs, RecordedWasSeen(o), Synthesize(o),
         orch'[o].pc = "decide", orch'[o].verdict = "PASS"
  PROVE  orch'[o].evidence \in {"dual", "shared"}
<1>0. /\ orch[o].pc = "synthesize" /\ orch'[o].evidence = EvidenceOf(o)
      /\ orch'[o].verdict = Synthesis(Round(o))
  BY Synthesized
<1>1. orch[o].path \in DOMAIN files /\ Round(o) = files[orch[o].path]
  BY <1>0 DEF GateType, FilesType, InAudit, Round, FilesAt
<1>2. ~Drifted(Round(o))
  BY <1>0 DEF Synthesis
<1>3. ~orch[o].shared => DualEvidence(Round(o))
  <2>1. \A s \in Slots : ~orch[o].shared => Round(o).doc[s].on = Round(o).manifest.baseline
    BY <1>0, <1>2 DEF Drifted, RecordedWasSeen, InAudit, Recording
  <2>2. TwoFamilies(Round(o).manifest)
    BY <1>1 DEF RoundKnown
  <2>. QED BY <2>1, <2>2 DEF DualEvidence, TwoFamilies
<1>. QED BY <1>0, <1>3 DEF EvidenceOf

\* A verdict PASS comes with what it rests on.
LEMMA PassNext ==
  ASSUME GateInv, EvidenceInv, Next
  PROVE  PassSuffices'
<1>0. GateType /\ StayedThere /\ task' = task
  BY TaskStays DEF GateInv
<1>. SUFFICES ASSUME NEW o \in Orchs, orch'[o].pc = "decide", orch'[o].verdict = "PASS"
              PROVE  /\ orch'[o].evidence # "none"
                     /\ Here(o)' => Suffices(orch[o].evidence)'
  BY DEF PassSuffices
<1>1. Here(o)' => Here(o) /\ node'.phase = node.phase
  BY <1>0, NoReturn, Iterated
<1>2. ASSUME NEW e, e # "none", Here(o) => Suffices(e), orch'[o].evidence = e
      PROVE  /\ orch'[o].evidence # "none"
             /\ Here(o)' => Suffices(orch[o].evidence)'
  BY <1>0, <1>1, <1>2 DEF Suffices
<1>3. CASE Keeps(o)
  BY <1>2, <1>3 DEF Keeps, EvidenceInv, PassSuffices
<1>4. CASE GateStep(o) \/ Crash(o)
  <2>0. orch \in [Orchs -> OrchSet]
    BY <1>0 DEF GateType, OrchType
  <2>1. CASE ShellCheck(o)
    <3>1. orch'[o].evidence = "shell"
      BY <1>0, <2>1, ShellPasses
    <3>2. Mode = "shell"
      BY <2>1 DEF ShellCheck
    <3>3. Suffices("shell")
      BY <1>0, <3>2, ModeIs DEF Suffices, DualTask
    <3>. QED BY <1>2, <3>1, <3>3
  <2>2. CASE Judge(o)
    <3>1. PICK v \in {"PASS", "FAIL"} : orch' = Decide(o, v, "single")
      BY <2>2 DEF Judge
    <3>2. orch'[o].evidence = "single"
      BY <2>0, <3>1 DEF Decide, OrchSet
    <3>3. Here(o) => ~DualTask
      BY <2>2 DEF Judge, EvidenceInv, AuditAsDeclared
    <3>4. Here(o) => Suffices("single")
      BY <3>3 DEF Suffices, DualTask
    <3>. QED BY <1>2, <3>2, <3>4
  <2>3. CASE Synthesize(o)
    <3>1. orch'[o].evidence \in {"dual", "shared"}
      BY <1>0, <2>3, DualPasses DEF EvidenceInv
    <3>. QED BY <1>2, <3>1 DEF Suffices
  <2>. QED BY <1>0, <1>4, <2>1, <2>2, <2>3, Calls
<1>. QED BY <1>0, <1>3, <1>4, OneActs

\* No verifier ends silently over an old file: what every verdict rests on, in
\* every reachable state.
THEOREM EvidenceInvariance == "silent" \notin Mishaps => (Spec => []EvidenceInv)
<1>1. Init => EvidenceInv
  <2>1. Init => DOMAIN files = {} /\ \A o \in Orchs : orch[o].pc = "idle"
    BY IdleTyped DEF Init
  <2>. QED BY <2>1 DEF EvidenceInv, AuditAsDeclared, RoundKnown, PassSuffices,
           RecordedWasSeen, InAudit
<1>2. ASSUME "silent" \notin Mishaps, GateInv, EvidenceInv, [Next]_vars
      PROVE  EvidenceInv'
  <2>1. CASE UNCHANGED vars
    BY <1>2, <2>1
       DEF vars, run, EvidenceInv, AuditAsDeclared, RoundKnown, PassSuffices, RecordedWasSeen,
           Busy, Here, DualTask, Suffices, InAudit, TwoFamilies, Round, FilesAt, Partners,
           Recording, Recordable
  <2>2. CASE Next
    <3>1. AuditAsDeclared' /\ PassSuffices'
      BY <1>2, <2>2, AuditNext, PassNext DEF EvidenceInv
    <3>2. RoundKnown'
      BY <1>2, <2>2, RoundKnownNext DEF GateInv, EvidenceInv
    <3>3. \A o \in Orchs : RecordedWasSeen(o)'
      BY <1>2, <2>2, SeenNext DEF GateInv, EvidenceInv
    <3>. QED BY <3>1, <3>2, <3>3 DEF EvidenceInv
  <2>. QED BY <1>2, <2>1, <2>2
<1>. SUFFICES ASSUME "silent" \notin Mishaps PROVE Spec => []EvidenceInv
  OBVIOUS
<1>3. GateInv /\ EvidenceInv /\ [Next]_vars => EvidenceInv'
  BY <1>2
<1>. QED BY <1>1, <1>3, GateInvariance, PTL DEF Spec

\* Every verifier writes its file (VerdictStale shows that it is not so otherwise).
\* Then a phase is passed on a judgement of this visit to it that is worth what the
\* task demands: a task with risk: high or a declared dual audit is passed by two
\* families that saw the same unchanged tree, if one orchestrator was at the round,
\* and the shell passes the implementation of a trivial task only, when all of its
\* checks ran and passed.  The judgement of an earlier visit passes pr_fix and
\* rebase_fix only: advance names the phase and no visit to it, and the phases of an
\* initial run are visited once.
THEOREM PassEarned == "silent" \notin Mishaps => (Spec => PassIsEarned)
<1>. SUFFICES ASSUME "silent" \notin Mishaps PROVE Spec => PassIsEarned
  OBVIOUS
<1>1. ASSUME GateInv, EvidenceInv, [Next]_vars, NEW o \in Orchs, Moves(o),
             orch[o].verdict = "PASS"
      PROVE  \/ orch[o].inPhase /\ Suffices(orch[o].evidence)
             \/ MayBeLate(o) /\ orch[o].evidence # "none"
  <2>1. Passes(o)
    BY <1>1, WhoMoves DEF GateInv, Fails
  <2>2. orch[o].pc = "decide" /\ Busy(o) /\ orch[o].phase = node.phase
    BY <2>1 DEF Passes, Advance, Busy
  <2>3. orch[o].evidence # "none" /\ (Here(o) => Suffices(orch[o].evidence))
    BY <1>1, <2>2 DEF EvidenceInv, PassSuffices
  <2>4. CASE Here(o)
    BY <2>3, <2>4 DEF Here
  <2>5. CASE ~Here(o)
    BY <1>1, <2>2, <2>3, <2>5 DEF GateInv, PassedOnce, MayBeLate, Here
  <2>. QED BY <2>4, <2>5
<1>2. GateInv /\ EvidenceInv /\ [Next]_vars =>
        [\A o \in Orchs : Moves(o) /\ orch[o].verdict = "PASS" =>
           \/ orch[o].inPhase /\ Suffices(orch[o].evidence)
           \/ MayBeLate(o) /\ orch[o].evidence # "none"]_vars
  BY <1>1
<1>. QED BY <1>2, GateInvariance, EvidenceInvariance, PTL DEF Spec, PassIsEarned

-----------------------------------------------------------------------------
(* No path is used twice. *)

\* An edge leads out of the phase, and to none that may be visited again.
LEMMA PassLeaves ==
  ASSUME GateType, NEW o \in Orchs, Passes(o)
  PROVE  /\ node.phase = orch[o].phase /\ node.phase \in VerifiedPhases
         /\ node'.phase \notin SequencedPhases /\ node'.kind = node.kind
<1>1. PICK to \in AllPhases : Advance(orch[o].phase, to)
  BY DEF Passes
<1>2. node.phase = orch[o].phase /\ node.phase \in VerifiedPhases /\ NodeType
  BY <1>1, JudgedPhases DEF Passes, Advance, Busy, GateType
<1>3. to \in {"plan", "implement", "report", "finalize"}
  BY <1>1, <1>2, Edges DEF Advance
<1>4. node'.phase = to /\ node'.kind = node.kind
  BY <1>1, <1>2 DEF Advance, NodeType
<1>. QED BY <1>2, <1>3, <1>4 DEF SequencedPhases

\* phase-fail counts the round and leaves the run where it is.
LEMMA FailStays ==
  ASSUME GateType, NEW o \in Orchs, Fails(o)
  PROVE  /\ node.phase = orch[o].phase /\ node.phase \in VerifiedPhases
         /\ node.attempts \in Nat /\ node'.attempts = node.attempts + 1
         /\ node'.phase = node.phase /\ node'.kind = node.kind
<1>1. node.phase = orch[o].phase /\ node.phase \in VerifiedPhases
  BY JudgedPhases DEF Fails, PhaseFail, Busy
<1>. QED BY <1>1, GateAssumption DEF Fails, PhaseFail, GateType, NodeType

\* What the paths of fixes and resolutions depend on.
LEMMA StandsStays ==
  ASSUME UNCHANGED <<node, resolved, open, asks>>, NEW p, NEW k, SequencedStands(p, k)
  PROVE  SequencedStands(p, k)'
<1>1. Resolution' = Resolution /\ UNCHANGED <<fixSeq, watched, runs>>
  BY DEF Resolution, asks
<1>. QED BY <1>1 DEF SequencedStands, FixStands, ResolutionStands, Over

\* The run of a fix ends with its findings, and a resolution with its number: a round
\* of theirs that is over stays over.
LEMMA FixStandsNext ==
  ASSUME GateType, Next, NEW p \in PathSet, NEW k \in Nat, FixStands(p, k)
  PROVE  FixStands(p, k)'
<1>0. /\ NodeType /\ FixIsAsked /\ Untouched /\ node.attempts \in Nat /\ watched \in Nat
      /\ p.seq \in Nat
  BY GateAssumption DEF GateType, NodeType, FixIsAsked, PathSet
<1>. SUFFICES ASSUME p.phase = "pr_fix"
              PROVE  FixStands(p, k)'
  BY DEF FixStands
<1>1. /\ p.seq \in 1 .. watched
      /\ p.seq = fixSeq =>
           Over \/ (node.kind = "pr_fix" /\ (node.phase = "pr_fix" => k <= node.attempts))
  BY DEF FixStands
<1>2. ASSUME UNCHANGED <<node, open, runs, fixSeq, watched>>
      PROVE  FixStands(p, k)'
  BY <1>1, <1>2 DEF FixStands, Over
<1>3. ASSUME UNCHANGED <<fixSeq, watched>>, node # NoRun, node'.kind = node.kind,
             node'.phase # "pr_fix" \/
               (node'.phase = node.phase /\ node'.attempts = node.attempts + 1)
      PROVE  FixStands(p, k)'
  BY <1>0, <1>1, <1>3 DEF FixStands, Over
<1>4. ASSUME p.seq # fixSeq', watched' \in {watched, watched + 1}
      PROVE  FixStands(p, k)'
  BY <1>0, <1>1, <1>4 DEF FixStands
<1>5. ASSUME ~Over, node.kind # "pr_fix"
      PROVE  p.seq # fixSeq
  BY <1>1, <1>5
<1>6. node.phase \in VerifiedPhases \cup {"finalize"} => node # NoRun /\ ~Over
  BY DEF NoRun, VerifiedPhases, AllPhases, Over
<1>7. ASSUME NEW o \in Orchs, GateStep(o) \/ Crash(o)
      PROVE  FixStands(p, k)'
  <2>1. CASE GoesOn(o) \/ Leaves(o) \/ Iterate(o)
    BY <1>2, <2>1, Iterated DEF GoesOn, Leaves, RunStays, asks
  <2>2. CASE Blocks(o)
    <3>1. Over' /\ UNCHANGED <<fixSeq, watched>>
      BY <1>0, <2>2 DEF Blocks, Over, Untouched, asks
    <3>. QED BY <1>1, <3>1 DEF FixStands
  <2>3. CASE Passes(o)
    BY <1>3, <1>6, <2>3, PassLeaves DEF Passes, asks, SequencedPhases
  <2>4. CASE Fails(o)
    BY <1>3, <1>6, <2>4, FailStays DEF Fails, asks
  <2>. QED BY <1>7, <2>1, <2>2, <2>3, <2>4, GateShape
<1>8. CASE TreeMoves \/ ExecutorDone
  BY <1>2, <1>8 DEF TreeMoves, ExecutorDone, run, asks
<1>9. CASE Start
  <2>1. ~Over /\ node.kind # "pr_fix" /\ UNCHANGED <<fixSeq, watched>>
    BY <1>9 DEF Start, StartRun, NoRun, Over
  <2>. QED BY <1>4, <1>5, <2>1
<1>10. CASE SetGate
  <2>1. ~Over /\ node.kind # "pr_fix" /\ UNCHANGED <<fixSeq, watched>>
    BY <1>0, <1>6, <1>10 DEF SetGate, ShortenGate, NodeType, asks, VerifiedPhases, AllPhases
  <2>. QED BY <1>4, <1>5, <2>1
<1>11. CASE RequestFix
  BY <1>0, <1>1, <1>4, <1>11 DEF RequestFix
<1>12. CASE StartAgain
  <2>1. ~Over /\ node.kind # "pr_fix" /\ UNCHANGED <<fixSeq, watched>>
    BY <1>12 DEF StartAgain, StartRun, NoRun, Over
  <2>. QED BY <1>4, <1>5, <2>1
<1>13. CASE TakeDetour
  <2>1. node.phase = "finalize" /\ node'.kind = node.kind /\ node'.phase = "rebase_fix"
    BY <1>0, <1>13 DEF TakeDetour, Detour, NodeType
  <2>. QED BY <1>3, <1>6, <1>13, <2>1 DEF TakeDetour, asks
<1>14. CASE GiveUpRebase
  <2>1. node.phase \in VerifiedPhases /\ UNCHANGED <<fixSeq, watched>>
    BY <1>14 DEF GiveUpRebase, asks, VerifiedPhases, AllPhases
  <2>2. CASE Forgo
    <3>1. node'.kind = node.kind /\ node'.phase = "finalize"
      BY <1>0, <2>2 DEF Forgo, NodeType
    <3>. QED BY <1>3, <1>6, <2>1, <3>1
  <2>3. CASE node.kind = "rebase_fix"
    BY <1>4, <1>5, <1>6, <2>1, <2>3
  <2>. QED BY <1>14, <2>2, <2>3 DEF GiveUpRebase
<1>15. CASE Ship
  <2>1. ~Over /\ watched' = watched
        /\ fixSeq' = IF node.kind = "pr_fix" THEN NoSeq ELSE fixSeq
    BY <1>6, <1>15 DEF Ship
  <2>2. p.seq # fixSeq'
    BY <1>1, <1>5, <2>1 DEF NoSeq
  <2>. QED BY <1>4, <2>1, <2>2
<1>. QED BY <1>7, <1>8, <1>9, <1>10, <1>11, <1>12, <1>13, <1>14, <1>15, GateAssumption
         DEF Next, Others

\* A round of a resolution that is over stays over.
LEMMA ResolutionStandsNext ==
  ASSUME GateType, Next, NEW p \in PathSet, NEW k \in Nat, ResolutionStands(p, k)
  PROVE  ResolutionStands(p, k)'
<1>0. /\ NodeType /\ node.attempts \in Nat /\ Resolution \in Nat /\ p.seq \in Nat
  BY GateAssumption DEF GateType, NodeType, ArtifactsNumbered, PathSet
<1>. SUFFICES ASSUME p.phase = "rebase_fix"
              PROVE  ResolutionStands(p, k)'
  BY DEF ResolutionStands
<1>1. /\ p.seq <= Resolution
      /\ node.phase = "rebase_fix" /\ resolved /\ p.seq = Resolution => k <= node.attempts
  BY DEF ResolutionStands
<1>2. UNCHANGED artifacts => Resolution' = Resolution
  BY DEF Resolution
<1>3. ASSUME Resolution' = Resolution,
             \/ UNCHANGED <<node, resolved>>
             \/ node'.phase # "rebase_fix"
             \/ ~resolved'
             \/ /\ resolved' = resolved /\ node'.phase = node.phase
                /\ node'.attempts = node.attempts + 1
      PROVE  ResolutionStands(p, k)'
  BY <1>0, <1>1, <1>3 DEF ResolutionStands
<1>4. ASSUME NEW o \in Orchs, GateStep(o) \/ Crash(o)
      PROVE  ResolutionStands(p, k)'
  <2>1. CASE GoesOn(o) \/ Leaves(o) \/ Iterate(o)
    BY <1>2, <1>3, <2>1, Iterated DEF GoesOn, Leaves, RunStays, asks
  <2>2. CASE Blocks(o)
    BY <1>2, <1>3, <2>2 DEF Blocks, NoRun, asks
  <2>3. CASE Passes(o)
    BY <1>2, <1>3, <2>3, PassLeaves DEF Passes, asks, SequencedPhases
  <2>4. CASE Fails(o)
    BY <1>2, <1>3, <2>4, FailStays DEF Fails, asks
  <2>. QED BY <1>4, <2>1, <2>2, <2>3, <2>4, GateShape
<1>5. CASE TreeMoves \/ RequestFix
  BY <1>2, <1>3, <1>5 DEF TreeMoves, RequestFix, run, asks
<1>6. CASE ExecutorDone
  <2>1. /\ node' = node /\ resolved' = (node.phase = "rebase_fix")
        /\ Resolution' = IF node.phase = "rebase_fix" /\ ~resolved
                         THEN Resolution + 1 ELSE Resolution
    BY <1>6, DoneNumbers DEF ExecutorDone
  <2>2. CASE node.phase = "rebase_fix" /\ ~resolved
    BY <1>0, <1>1, <2>1, <2>2 DEF ResolutionStands
  <2>3. CASE node.phase = "rebase_fix" /\ resolved
    BY <1>1, <2>1, <2>3 DEF ResolutionStands
  <2>4. CASE node.phase # "rebase_fix"
    BY <1>3, <2>1, <2>4
  <2>. QED BY <2>2, <2>3, <2>4
<1>7. CASE Start \/ SetGate \/ StartAgain \/ TakeDetour
  BY <1>2, <1>3, <1>7 DEF Start, SetGate, StartAgain, TakeDetour, Enter, asks
<1>8. CASE GiveUpRebase
  <2>1. Forgo => node'.phase # "rebase_fix"
    BY <1>0 DEF Forgo, NodeType
  <2>2. EndRun => node'.phase # "rebase_fix"
    BY DEF EndRun, NoRun
  <2>. QED BY <1>2, <1>3, <1>8, <2>1, <2>2 DEF GiveUpRebase, asks
<1>9. CASE Ship
  BY <1>2, <1>3, <1>9 DEF Ship, EndRun, NoRun
<1>. QED BY <1>4, <1>5, <1>6, <1>7, <1>8, <1>9, GateAssumption DEF Next, Others

\* Both.
LEMMA StandsNext ==
  ASSUME GateType, Next, NEW p \in PathSet, NEW k \in Nat, SequencedStands(p, k)
  PROVE  SequencedStands(p, k)'
BY FixStandsNext, ResolutionStandsNext DEF SequencedStands

\* The path of the round the run stands at.
LEMMA PathAsked ==
  ASSUME GateType, ResolutionFirst, NEW o \in Orchs, orch[o].phase = node.phase,
         node.phase \in VerifiedPhases
  PROVE  SequencedStands(CurrentPath, CurrentPath.attempt) /\ CurrentPath.attempt = node.attempts
<1>. DEFINE p == CurrentPath
<1>0. /\ p.phase = node.phase /\ p.attempt = node.attempts
      /\ node.phase = "pr_fix" => p.seq = fixSeq /\ fixSeq # NoSeq
      /\ node.phase = "rebase_fix" => p.seq = IF Resolution # NoSeq THEN Resolution ELSE FirstSeq
      /\ NodeType /\ FixIsAsked /\ node.attempts \in Nat /\ Resolution \in Nat
  BY PathNamed, GateAssumption DEF GateType, NodeType, ArtifactsNumbered
<1>. HIDE DEF p
<1>1. node.phase = "pr_fix" => node.kind = "pr_fix" /\ fixSeq \in 1 .. watched
  BY <1>0 DEF NodeType, FixIsAsked, NoSeq, NoRun
<1>2. FixStands(p, p.attempt)
  BY <1>0, <1>1 DEF FixStands
<1>3. node.phase = "rebase_fix" => p.seq = Resolution
  BY <1>0 DEF ResolutionFirst, NoSeq
<1>4. ResolutionStands(p, p.attempt)
  BY <1>0, <1>3 DEF ResolutionStands
<1>. QED BY <1>0, <1>2, <1>4 DEF SequencedStands, p

\* What an orchestrator was told stands.
LEMMA PathsStandNext ==
  ASSUME GateInv, PathsStand, ResolutionFirst, Next
  PROVE  PathsStand'
<1>0. /\ GateType /\ GateType' /\ NeverBehind /\ StayedThere /\ PassedOnce
      /\ node.attempts \in Nat /\ node'.attempts \in Nat
  BY TypeNext, GateAssumption DEF GateInv, GateType, NodeType
<1>00. PassedOnce'
  BY <1>0, PassedOnceNext
<1>. DEFINE Stands(o) ==
       \E p \in PathSet :
         /\ p = orch'[o].path /\ SequencedStands(p, p.attempt)'
         /\ orch'[o].phase \notin SequencedPhases /\ orch'[o].phase = node'.phase =>
              p.attempt <= node'.attempts
<1>1. ASSUME NEW o \in Orchs, Told(o)', Keeps(o)
      PROVE  Stands(o)
  <2>1. /\ Told(o) /\ Busy(o)' /\ orch'[o].path = orch[o].path
        /\ orch'[o].phase = orch[o].phase /\ orch'[o].pc # "path"
    BY <1>1 DEF Told, Busy, Keeps
  <2>2. PICK p \in PathSet : p = orch[o].path
    BY <1>0 DEF GateType, OrchType, OrchSet
  <2>3. /\ SequencedStands(p, p.attempt) /\ p.attempt \in Nat
        /\ orch[o].phase \notin SequencedPhases /\ orch[o].phase = node.phase =>
             p.attempt <= node.attempts
    BY <2>1, <2>2 DEF PathsStand, PathSet
  <2>4. SequencedStands(p, p.attempt)'
    BY <1>0, <2>3, StandsNext
  <2>5. ASSUME orch'[o].phase \notin SequencedPhases, orch'[o].phase = node'.phase
        PROVE  p.attempt <= node'.attempts
    <3>1. Here(o)'
      BY <1>00, <2>1, <2>5 DEF PassedOnce
    <3>2. /\ node'.phase = node.phase
          /\ node' = node \/ \E q \in Orchs : Fails(q)
      BY <1>0, <2>1, <3>1, NoReturn, Iterated
    <3>3. node.attempts <= node'.attempts
      BY <1>0, <3>2, FailStays
    <3>. QED BY <1>0, <2>1, <2>3, <2>5, <3>2, <3>3
  <2>. QED BY <2>1, <2>2, <2>4, <2>5
<1>2. ASSUME NEW o \in Orchs, Told(o)', GateStep(o) \/ Crash(o)
      PROVE  Stands(o)
  <2>1. orch'[o].pc \notin {"idle", "dead", "path"}
    BY <1>2 DEF Told, Busy
  <2>2. GoesOn(o)
    <3>1. ~Leaves(o) /\ ~Iterate(o)
      BY <1>0, <2>1, Iterated, IdleTyped DEF Leaves
    <3>2. ~Blocks(o) /\ ~Passes(o) /\ ~Fails(o)
      BY <1>0, <2>1, OneIsIdleThen DEF Blocks, Passes, Fails
    <3>. QED BY <1>0, <1>2, <3>1, <3>2, GateShape
  <2>3. UNCHANGED <<node, resolved, open, asks>> /\ orch'[o].phase = orch[o].phase /\ Busy(o)
    BY <2>2 DEF GoesOn, RunStays
  <2>4. orch'[o].path.phase = orch[o].phase
    BY <1>2, <2>3 DEF Told
  <2>5. PICK p \in PathSet : p = orch'[o].path
    BY <1>0 DEF GateType, OrchType, OrchSet
  <2>6. CASE orch[o].pc = "path"
    <3>1. node.phase \in VerifiedPhases /\ p = CurrentPath
      BY <2>2, <2>5, <2>6 DEF GoesOn
    <3>2. CurrentPath.phase = node.phase
      BY <1>0, <3>1, PathNamed
    <3>3. SequencedStands(p, p.attempt) /\ p.attempt = node.attempts
      BY <1>0, <2>4, <2>5, <3>1, <3>2, PathAsked
    <3>4. SequencedStands(p, p.attempt)'
      BY <2>3, <3>3, StandsStays
    <3>. QED BY <1>0, <2>3, <2>5, <3>3, <3>4
  <2>7. CASE orch[o].pc # "path"
    <3>1. p = orch[o].path /\ Told(o)
      BY <2>2, <2>3, <2>4, <2>5, <2>7 DEF GoesOn, Told
    <3>2. /\ SequencedStands(p, p.attempt)
          /\ orch[o].phase \notin SequencedPhases /\ orch[o].phase = node.phase =>
               p.attempt <= node.attempts
      BY <3>1 DEF PathsStand
    <3>3. SequencedStands(p, p.attempt)'
      BY <2>3, <3>2, StandsStays
    <3>. QED BY <2>3, <2>5, <3>2, <3>3
  <2>. QED BY <2>6, <2>7
<1>. HIDE DEF Stands
<1>3. \A o \in Orchs : Told(o)' => Stands(o)
  BY <1>0, <1>1, <1>2, OneActs
<1>. QED BY <1>3 DEF Stands, PathsStand, Told, Busy, SequencedStands, FixStands,
         ResolutionStands, Over

\* A decided round of a phase that is passed once is over: the run has left the phase,
\* or counts more rounds.
PlainStands(p) ==
  p.phase \notin SequencedPhases => Over \/ (p.phase = node.phase /\ p.attempt < node.attempts)

\* So it stays in every step.
LEMMA PlainNext ==
  ASSUME GateType, Next, NEW p \in PathSet, p \in decided, p \in decided',
         p.phase \in VerifiedPhases, PlainStands(p)
  PROVE  PlainStands(p)'
<1>. SUFFICES ASSUME p.phase \notin SequencedPhases
              PROVE  PlainStands(p)'
  BY DEF PlainStands
<1>0. /\ NodeType /\ Untouched /\ node.attempts \in Nat /\ p.attempt \in Nat
      /\ Over \/ (p.phase = node.phase /\ p.attempt < node.attempts)
  BY GateAssumption DEF GateType, NodeType, PathSet, PlainStands
<1>1. node.phase \in VerifiedPhases \cup {"finalize"} => node # NoRun /\ ~Over
  BY DEF NoRun, VerifiedPhases, AllPhases, Over
<1>2. p.phase \notin {"none", "finalize"} \cup SequencedPhases
  BY DEF VerifiedPhases, AllPhases
<1>3. ASSUME UNCHANGED <<node, open, runs>>
      PROVE  PlainStands(p)'
  BY <1>0, <1>3 DEF PlainStands, Over
<1>4. ASSUME NEW o \in Orchs, GateStep(o) \/ Crash(o)
      PROVE  PlainStands(p)'
  <2>1. CASE GoesOn(o) \/ Leaves(o) \/ Iterate(o)
    BY <1>3, <2>1, Iterated DEF GoesOn, Leaves, RunStays, asks
  <2>2. CASE Blocks(o)
    BY <1>0, <2>2 DEF Blocks, PlainStands, Over, Untouched, asks
  <2>3. CASE Passes(o)
    BY <2>3 DEF Passes, Lasting
  <2>4. CASE Fails(o)
    BY <1>0, <1>1, <2>4, FailStays DEF PlainStands
  <2>. QED BY <1>4, <2>1, <2>2, <2>3, <2>4, GateShape
<1>5. CASE TreeMoves \/ ExecutorDone
  BY <1>3, <1>5 DEF TreeMoves, ExecutorDone, run, asks
<1>6. CASE Start
  BY <1>6 DEF Start, GateType, Untouched
<1>7. CASE SetGate
  <2>1. node.phase = "research" /\ node.attempts = 0
    BY <1>7 DEF SetGate, ShortenGate
  <2>2. ~Over
    BY <1>1, <2>1 DEF VerifiedPhases, AllPhases
  <2>. QED BY <1>0, <2>1, <2>2
<1>8. CASE RequestFix \/ StartAgain
  <2>1. node = NoRun /\ open
    BY <1>8 DEF RequestFix, StartAgain, StartRun
  <2>. QED BY <1>0, <1>2, <2>1 DEF Over, NoRun
<1>9. CASE TakeDetour \/ GiveUpRebase \/ Ship
  <2>1. node.phase \in {"finalize", "rebase_fix"}
    BY <1>9 DEF TakeDetour, Detour, GiveUpRebase, Ship
  <2>2. ~Over
    BY <1>1, <2>1 DEF VerifiedPhases, AllPhases
  <2>. QED BY <1>0, <1>2, <2>1, <2>2 DEF SequencedPhases
<1>. QED BY <1>4, <1>5, <1>6, <1>7, <1>8, <1>9, GateAssumption DEF Next, Others

\* The decision of a round: the run stands at the phase of its path.
LEMMA NewlyDecided ==
  ASSUME GateInv, PathsStand, NEW o \in Orchs, Passes(o) \/ Fails(o),
         NEW p \in PathSet, p \in DecidedBy(o), p \in decided'
  PROVE  /\ p.phase \in VerifiedPhases /\ SequencedStands(p, p.attempt + 1)'
         /\ PlainStands(p)'
<1>0. /\ GateType /\ NodeType /\ node.attempts \in Nat /\ p.attempt \in Nat
      /\ p = orch[o].path /\ p.phase = orch[o].phase
  BY GateAssumption DEF GateInv, GateType, NodeType, PathSet, DecidedBy
<1>1. /\ node.phase = p.phase /\ p.phase \in VerifiedPhases
      /\ node'.kind = node.kind /\ UNCHANGED <<resolved, artifacts, fixSeq, watched>>
      /\ \/ node'.phase \notin SequencedPhases /\ p.phase \in SequencedPhases
         \/ node'.phase = node.phase /\ node'.attempts = node.attempts + 1
  <2>1. CASE Passes(o)
    BY <1>0, <2>1, PassLeaves DEF Passes, Lasting, asks
  <2>2. CASE Fails(o)
    BY <1>0, <2>2, FailStays DEF Fails, asks
  <2>. QED BY <2>1, <2>2
<1>2. Told(o)
  BY <1>0 DEF Told, Busy, Passes, Fails
<1>3. /\ FixStands(p, p.attempt) /\ ResolutionStands(p, p.attempt)
      /\ p.phase \notin SequencedPhases => p.attempt <= node.attempts
  BY <1>0, <1>1, <1>2 DEF PathsStand, SequencedStands
<1>4. ~Over
  BY <1>1 DEF Over, NoRun, VerifiedPhases, AllPhases
<1>5. FixStands(p, p.attempt + 1)'
  BY <1>0, <1>1, <1>3, <1>4 DEF FixStands, SequencedPhases
<1>6. Resolution' = Resolution
  BY <1>1 DEF Resolution
<1>7. ResolutionStands(p, p.attempt + 1)'
  BY <1>0, <1>1, <1>3, <1>6 DEF ResolutionStands, SequencedPhases
<1>8. PlainStands(p)'
  BY <1>0, <1>1, <1>3 DEF PlainStands
<1>. QED BY <1>1, <1>5, <1>7, <1>8 DEF SequencedStands

\* Every decided round is over, those of this step included.
LEMMA DecidedNext ==
  ASSUME GateInv, PathsStand, DecidedIsOver, Next
  PROVE  DecidedIsOver'
<1>0. GateType /\ decided \subseteq PathSet /\ decided' \subseteq PathSet
  BY TypeNext DEF GateInv, GateType
<1>. DEFINE Stands(p) == /\ p.phase \in VerifiedPhases
                         /\ SequencedStands(p, p.attempt + 1)' /\ PlainStands(p)'
<1>1. ASSUME NEW p \in PathSet, p \in decided', p \in decided
      PROVE  Stands(p)
  <2>1. p.phase \in VerifiedPhases /\ SequencedStands(p, p.attempt + 1) /\ PlainStands(p)
    BY <1>1 DEF DecidedIsOver, PlainStands
  <2>2. p.attempt + 1 \in Nat
    BY DEF PathSet
  <2>3. SequencedStands(p, p.attempt + 1)'
    BY <1>0, <2>1, <2>2, StandsNext
  <2>. QED BY <1>0, <1>1, <2>1, <2>3, PlainNext
<1>2. ASSUME NEW p \in PathSet, p \in decided', p \notin decided
      PROVE  \E o \in Orchs : (Passes(o) \/ Fails(o)) /\ p \in DecidedBy(o)
  <2>1. ASSUME NEW o \in Orchs, GateStep(o) \/ Crash(o)
        PROVE  (Passes(o) \/ Fails(o)) /\ p \in DecidedBy(o)
    <3>1. ~GoesOn(o) /\ ~Leaves(o) /\ ~Iterate(o) /\ ~Blocks(o)
      BY <1>0, <1>2, Iterated DEF GoesOn, Leaves, Blocks, RunStays
    <3>2. Passes(o) \/ Fails(o)
      BY <1>0, <2>1, <3>1, GateShape
    <3>. QED BY <1>2, <3>2 DEF Passes, Fails, Lasting
  <2>2. ~Others
    BY <1>2 DEF Others, TreeMoves, ExecutorDone, Start, SetGate, RequestFix, StartAgain,
       TakeDetour, GiveUpRebase, Ship, Enter
  <2>. QED BY <2>1, <2>2, GateAssumption DEF Next
<1>3. ASSUME NEW p \in PathSet, p \in decided', p \notin decided
      PROVE  Stands(p)
  BY <1>2, <1>3, NewlyDecided
<1>. HIDE DEF Stands
<1>4. \A p \in decided' : Stands(p)
  BY <1>0, <1>1, <1>3
<1>. QED BY <1>4 DEF Stands, DecidedIsOver, PlainStands, SequencedStands, FixStands,
         ResolutionStands, Over

\* A resolution is written before it is judged, and its number is not taken back.
LEMMA ResolutionFirstNext ==
  ASSUME GateType, ResolutionFirst, Next
  PROVE  ResolutionFirst'
<1>0. /\ NodeType /\ Resolution \in Nat /\ (done => node.phase \in VerifiedPhases)
      /\ done /\ node.phase = "rebase_fix" => Resolution > 0
      /\ resolved /\ node.phase = "rebase_fix" => Resolution > 0
  BY DEF GateType, ArtifactsNumbered, ResolutionFirst
<1>1. UNCHANGED artifacts => Resolution' = Resolution
  BY DEF Resolution
<1>2. UNCHANGED artifacts \/ ExecutorDone
  <2>1. ASSUME NEW o \in Orchs, GateStep(o) \/ Crash(o)
        PROVE  UNCHANGED artifacts
    BY <2>1, GateShape, Iterated DEF GoesOn, Leaves, Blocks, Passes, Fails, RunStays, asks
  <2>2. CASE Others
    BY <2>2 DEF Others, TreeMoves, Start, SetGate, RequestFix, StartAgain, TakeDetour,
       GiveUpRebase, Ship, run, asks
  <2>. QED BY <2>1, <2>2, GateAssumption DEF Next
<1>3. Resolution' >= Resolution /\ Resolution' \in Nat
  BY <1>0, <1>1, <1>2, DoneNumbers
<1>4. ASSUME NEW o \in Orchs, orch'[o].phase = "rebase_fix"
      PROVE  Resolution > 0
  <2>1. CASE Keeps(o)
    BY <1>4, <2>1 DEF Keeps, ResolutionFirst
  <2>2. CASE GateStep(o) \/ Crash(o)
    <3>1. CASE Iterate(o)
      BY <1>0, <1>4, <3>1, Iterated
    <3>2. CASE GoesOn(o)
      BY <1>4, <3>2 DEF GoesOn, ResolutionFirst
    <3>3. ~Leaves(o) /\ ~Blocks(o) /\ ~Passes(o) /\ ~Fails(o)
      BY <1>4, IdleTyped, OneIsIdleThen DEF Leaves, Blocks, Passes, Fails
    <3>. QED BY <2>2, <3>1, <3>2, <3>3, GateShape
  <2>. QED BY <2>1, <2>2, OneActs
<1>5. \A o \in Orchs : orch'[o].phase = "rebase_fix" => Resolution' > 0
  BY <1>0, <1>3, <1>4
<1>. DEFINE Goal == /\ done' /\ node'.phase = "rebase_fix" => resolved'
                    /\ resolved' /\ node'.phase = "rebase_fix" => Resolution' > 0
<1>6. ASSUME UNCHANGED resolved, node'.phase = node.phase, done' => done
      PROVE  Goal
  BY <1>0, <1>3, <1>6 DEF ResolutionFirst
<1>7. ASSUME node'.phase # "rebase_fix" \/ (~resolved' /\ ~done')
      PROVE  Goal
  BY <1>7
<1>. SUFFICES Goal
  BY <1>5 DEF ResolutionFirst
<1>. HIDE DEF Goal
<1>8. ASSUME NEW o \in Orchs, GateStep(o) \/ Crash(o)
      PROVE  Goal
  <2>1. CASE GoesOn(o) \/ Leaves(o) \/ Iterate(o)
    BY <1>6, <2>1, Iterated DEF GoesOn, Leaves, RunStays
  <2>2. CASE Blocks(o)
    BY <1>7, <2>2 DEF Blocks, NoRun
  <2>3. CASE Passes(o)
    BY <1>7, <2>3, PassLeaves DEF SequencedPhases
  <2>4. CASE Fails(o)
    BY <1>6, <2>4, FailStays DEF Fails
  <2>. QED BY <1>8, <2>1, <2>2, <2>3, <2>4, GateShape
<1>9. CASE TreeMoves \/ RequestFix
  BY <1>6, <1>9 DEF TreeMoves, RequestFix, run
<1>10. CASE ExecutorDone
  <2>1. /\ node' = node /\ resolved' = (node.phase = "rebase_fix")
        /\ Resolution' = IF node.phase = "rebase_fix" /\ ~resolved
                         THEN Resolution + 1 ELSE Resolution
    BY <1>10, DoneNumbers DEF ExecutorDone
  <2>2. node'.phase = node.phase /\ (node.phase = "rebase_fix" => resolved')
    BY <2>1
  <2>3. node.phase = "rebase_fix" => Resolution' > 0
    BY <1>0, <2>1
  <2>. QED BY <2>2, <2>3 DEF Goal
<1>11. CASE Start \/ SetGate \/ StartAgain \/ TakeDetour
  <2>1. ~done
    BY <1>0, <1>11 DEF Start, SetGate, StartAgain, StartRun, TakeDetour, Detour, NoRun,
       VerifiedPhases, AllPhases
  <2>. QED BY <1>7, <1>11, <2>1 DEF Start, SetGate, StartAgain, TakeDetour, Enter
<1>12. CASE GiveUpRebase \/ Ship
  <2>1. Forgo => node'.phase # "rebase_fix"
    BY <1>0 DEF Forgo, NodeType
  <2>2. EndRun => node'.phase # "rebase_fix"
    BY DEF EndRun, NoRun
  <2>. QED BY <1>7, <1>12, <2>1, <2>2 DEF GiveUpRebase, Ship
<1>. QED BY <1>8, <1>9, <1>10, <1>11, <1>12, GateAssumption DEF Next, Others

\* Which paths are used up, in every reachable state.
THEOREM PathInvariance == Spec => []PathInv
<1>1. Init => PathInv
  <2>1. Init => /\ decided = {} /\ node.phase # "rebase_fix"
                /\ \A o \in Orchs : ~Busy(o) /\ orch[o].phase = "none"
    BY IdleTyped DEF Init, NoRun, Busy
  <2>. QED BY <2>1 DEF PathInv, PathsStand, DecidedIsOver, ResolutionFirst, Told
<1>2. GateInv /\ PathInv /\ [Next]_vars => PathInv'
  <2>. SUFFICES ASSUME GateInv, PathInv, [Next]_vars PROVE PathInv'
    OBVIOUS
  <2>1. CASE UNCHANGED vars
    BY <2>1 DEF vars, run, asks, PathInv, PathsStand, DecidedIsOver, ResolutionFirst, Told,
       Busy, SequencedStands, FixStands, ResolutionStands, Over, Resolution
  <2>2. CASE Next
    BY <2>2, PathsStandNext, DecidedNext, ResolutionFirstNext DEF PathInv, GateInv
  <2>. QED BY <2>1, <2>2
<1>. QED BY <1>1, <1>2, GateInvariance, PTL DEF Spec

\* verdict-path never names a file on which a round was decided before: over all
\* fixes, resolutions and detours of a task, with several orchestrators that judge a
\* phase at once and with verdicts that come when the run has moved on, the round
\* about to be judged has a path of its own.
THEOREM PathFresh == Spec => []PathIsFresh
<1>1. GateInv /\ PathInv => PathIsFresh
  <2>. SUFFICES ASSUME GateInv, PathInv, done, CurrentPath \in decided PROVE FALSE
    BY DEF PathIsFresh
  <2>. DEFINE p == CurrentPath
  <2>0. /\ GateType /\ node.phase \in VerifiedPhases /\ node.attempts \in Nat
        /\ Resolution \in Nat
    BY GateAssumption DEF GateInv, GateType, NodeType, ArtifactsNumbered
  <2>1. ~Over
    BY <2>0 DEF NoRun, VerifiedPhases, AllPhases, Over
  <2>2. /\ p.phase = node.phase /\ p.attempt = node.attempts
        /\ node.phase = "pr_fix" => p.seq = fixSeq
        /\ node.phase = "rebase_fix" =>
             p.seq = IF Resolution # NoSeq THEN Resolution ELSE FirstSeq
    BY <2>0, PathNamed
  <2>3. /\ FixStands(p, p.attempt + 1) /\ ResolutionStands(p, p.attempt + 1)
        /\ p.phase \notin SequencedPhases => Over \/ p.attempt < node.attempts
    BY DEF PathInv, DecidedIsOver, SequencedStands
  <2>. HIDE DEF p
  <2>4. CASE node.phase \notin SequencedPhases
    BY <2>0, <2>1, <2>2, <2>3, <2>4
  <2>5. CASE node.phase = "pr_fix"
    BY <2>0, <2>1, <2>2, <2>3, <2>5 DEF FixStands
  <2>6. CASE node.phase = "rebase_fix"
    <3>1. resolved /\ Resolution > 0
      BY <2>6 DEF PathInv, ResolutionFirst
    <3>. QED BY <2>0, <2>2, <2>3, <2>6, <3>1 DEF ResolutionStands, NoSeq
  <2>. QED BY <2>4, <2>5, <2>6 DEF SequencedPhases
<1>. QED BY <1>1, GateInvariance, PathInvariance, PTL
===============================================================================

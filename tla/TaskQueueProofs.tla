--------------------------- MODULE TaskQueueProofs ---------------------------
(***************************************************************************)
(* The inductive invariant of TaskQueue, and what follows from it for      *)
(* every set of ids, sessions, agents and comments and every limit.        *)
(***************************************************************************)
EXTENDS TaskQueue, TLAPS

\* A follow that is not there carries no data, and is there only on an open
\* artifact.
FollowOnlyWhenOpen(j) ==
  /\ ~HasFollow(j) => follow[j] = NoFollow
  /\ HasFollow(j) => artifact[j] = "open"

\* Everything the checked invariants say of one item, and what makes it inductive.
ItemOK(j) ==
  /\ FollowOnlyWhenOpen(j)
  /\ RunProgressConsistent(j)
  /\ RunNodeLegal(j)
  /\ MergedImpliesResting(j)
  /\ PrFixImpliesOpenTaken(j)
  /\ ProbeProcImpliesResting(j)
  /\ TakenScope(j)
  /\ TakenKindMatchesRun(j)
  /\ BlockedReasonIffBlocked(j)
  /\ progress[j] = "running" => session[j] # None
  /\ progress[j] \in {"absent", "queued", "blocked"} => session[j] = None
  /\ progress[j] = "resting" /\ ~HasFollow(j) => session[j] = None
  /\ follow[j].attention \in HumanReasons =>
       /\ session[j] = None
       /\ ~follow[j].lease
       /\ progress[j] \in {"resting", "queued"}
  /\ progress[j] = "running" /\ run[j].kind = "pr_fix" =>
       follow[j].fixAttempts \in 1 .. FixAttemptLimit

IInv == TypeOK /\ \A j \in Ids : ItemOK(j)
-----------------------------------------------------------------------------
(* Facts about the run nodes. *)

\* The nodes of each axis, spelled out for the provers.
LEMMA RunNodes ==
  ASSUME NEW k, NEW g, NEW p
  PROVE  IsLegalRunNode(k, g, p) <=>
           \/ /\ k = "initial" /\ g = "full"
              /\ p \in {"research", "plan", "implement", "report", "finalize", "rebase_fix"}
           \/ /\ k = "initial" /\ g = "light"
              /\ p \in {"research+plan", "implement", "report", "finalize", "rebase_fix"}
           \/ /\ k = "pr_fix" /\ g = "none"
              /\ p \in {"pr_fix", "finalize", "rebase_fix"}
           \/ /\ k = "rebase_fix" /\ g = "none"
              /\ p \in {"rebase_fix", "finalize"}
<1>. USE DEF IsLegalRunNode, MainSequence, MainSequences, GateMatchesKind, Kinds, Gates
<1>1. CASE k = "initial" /\ g = "full"
  BY <1>1
<1>2. CASE k = "initial" /\ g = "light"
  BY <1>2
<1>3. CASE k = "initial" /\ g \notin {"full", "light"}
  BY <1>3
<1>4. CASE k = "pr_fix"
  BY <1>4
<1>5. CASE k = "rebase_fix"
  BY <1>5
<1>6. CASE k \notin Kinds
  BY <1>6
<1>. QED BY <1>1, <1>2, <1>3, <1>4, <1>5, <1>6

\* An advance edge stays on its axis.
LEMMA AdvanceStaysLegal ==
  ASSUME NEW k, NEW g, NEW from, NEW to,
         IsLegalRunNode(k, g, from), IsAdvanceEdge(k, g, from, to)
  PROVE  IsLegalRunNode(k, g, to) /\ to \in AllPhases
<1>. USE RunNodes DEF IsAdvanceEdge, MainSequence, MainSequences, AllPhases
<1>1. CASE k = "initial" /\ g = "full"
  BY <1>1
<1>2. CASE k = "initial" /\ g = "light"
  BY <1>2
<1>3. CASE k = "pr_fix"
  BY <1>3
<1>4. CASE k = "rebase_fix"
  BY <1>4
<1>. QED BY <1>1, <1>2, <1>3, <1>4

-----------------------------------------------------------------------------
(* What the operators on follow return. *)

\* Settling the asks leaves neither of them taken.
LEMMA SettledAsks ==
  ASSUME NEW f \in FollowType
  PROVE  /\ SettleAsks(f) \in FollowType
         /\ SettleAsks(f).attention = f.attention
         /\ SettleAsks(f).fix # "taken"
         /\ SettleAsks(f).rebase # "taken"
BY DEF SettleAsks, FollowType

\* A follow begins with no ask and no lease.
LEMMA FreshFollows ==
  /\ NoFollow \in FollowType /\ FreshFollow \in FollowType
  /\ NoFollow.attention = "none" /\ FreshFollow.attention = "auto"
  /\ NoFollow.fix = "none" /\ NoFollow.rebase = "none"
BY DEF NoFollow, FreshFollow, FollowType

\* What a ship leaves of the follow.
LEMMA ShippedFollowFields ==
  ASSUME TypeOK, NEW id \in Ids, FollowOnlyWhenOpen(id), NEW share \in Shares
  PROVE  /\ ShippedFollow(id, share).attention \in {follow[id].attention, "auto", "none"}
         /\ ShippedFollow(id, share).attention = "none" => ShippedFollow(id, share) = NoFollow
         /\ ShippedFollow(id, share).attention # "none" => ShippedArtifact(id, share) = "open"
         /\ ShippedFollow(id, share).fix # "taken"
         /\ ShippedFollow(id, share).rebase # "taken"
<1>1. follow[id] \in FollowType
  BY DEF TypeOK
<1>. QED BY <1>1, SettledAsks, FreshFollows DEF ShippedFollow, ShippedArtifact,
            FollowOnlyWhenOpen, HasFollow

\* Whatever a ship shares, the follow it leaves is well-formed.
LEMMA ShippedFollowType ==
  ASSUME TypeOK, NEW id \in Ids, NEW share \in Shares
  PROVE  ShippedFollow(id, share) \in FollowType
<1>1. follow[id] \in FollowType
  BY DEF TypeOK
<1>. QED BY <1>1, SettledAsks, FreshFollows DEF ShippedFollow

\* TypeOK without the record-valued variables.
OtherTypes ==
  /\ progress \in [Ids -> Progresses]
  /\ blockedReason \in [Ids -> BOOLEAN]
  /\ artifact \in [Ids -> ArtifactStates]
  /\ session \in [Ids -> Sessions \cup {None}]
  /\ worktree \in [Ids -> BOOLEAN]
  /\ relisted \in SUBSET Ids
  /\ withdrawnBranches \in [Ids -> Nat]

\* The words the verbs write are in the vocabularies of the types.
LEMMA Words ==
  /\ {"research", "research+plan", "pr_fix", "rebase_fix", "finalize"} \subseteq AllPhases
  /\ {"initial", "pr_fix", "rebase_fix"} \subseteq Kinds
  /\ {"full", "light", "none"} \subseteq Gates
  /\ {"fix_limit", "errors"} \subseteq HumanReasons
BY DEF AllPhases, Kinds, Gates, HumanReasons

\* There is no lease to drop where there is no follow.
LEMMA NoLeaseToDrop == WithoutLease(NoFollow) = NoFollow
<1>1. ASSUME NEW f \in FollowType, f.lease = FALSE
      PROVE  WithoutLease(f) = f
  BY <1>1, SMT DEF WithoutLease, FollowType
<1>2. NoFollow.lease = FALSE
  BY DEF NoFollow
<1>. QED BY <1>1, <1>2, FreshFollows

\* A fix run or a latch is at least the first attempt of its count.
LEMMA FixAttemptsPositive ==
  ASSUME TypeOK, NEW id \in Ids, NEW reset
  PROVE  FixAttempts(id, reset) \in Nat \ {0}
<1>1. follow[id] \in FollowType
  BY DEF TypeOK
<1>. QED BY <1>1 DEF FixAttempts, FollowType

\* An observation leaves a natural number of errors.
LEMMA ObservedErrorsTyped ==
  ASSUME TypeOK, NEW id \in Ids, NEW outcome
  PROVE  ObservedErrors(follow[id].errors, outcome) \in Nat
<1>1. follow[id] \in FollowType
  BY DEF TypeOK
<1>. QED BY <1>1 DEF ObservedErrors, FollowType

-----------------------------------------------------------------------------
(* Each group of verbs keeps the types and the state of every item; the     *)
(* items other than the verb's own are untouched.                           *)

\* Types: approve, restore.
LEMMA QueueStepType ==
  ASSUME TypeOK, NEW id \in Ids, QueueStep(id)
  PROVE  TypeOK'
<1>t. follow[id] \in FollowType /\ run[id] \in RunType /\ outbox[id] \in IntentType
  BY DEF TypeOK
<1>1. ASSUME Approve(id)
      PROVE  TypeOK'
  <2>1. OtherTypes' /\ UNCHANGED <<run, follow, outbox>>
    BY <1>1, LimitAssumption DEF Approve, TypeOK, OtherTypes, Progresses,
       ArtifactStates, WithdrawnStates,
      item, ledgers
  <2>. QED BY <2>1 DEF TypeOK, OtherTypes
<1>2. ASSUME Restore(id)
      PROVE  TypeOK'
  <2>1. run' \in [Ids -> RunType]
    BY <1>2, Words DEF Restore, TypeOK, RunType, NoRun
  <2>2. WithoutLease(follow[id]) \in FollowType
    BY <1>t DEF FollowType, WithoutLease
  <2>3. follow' \in [Ids -> FollowType]
    BY <1>2, <2>2 DEF Restore, TypeOK
  <2>4. OtherTypes' /\ UNCHANGED <<outbox>>
    BY <1>2, LimitAssumption DEF Restore, TypeOK, OtherTypes, Progresses,
       ArtifactStates, WithdrawnStates,
      item, ledgers
  <2>. QED BY <2>1, <2>2, <2>3, <2>4 DEF TypeOK, OtherTypes
<1>. QED BY <1>1, <1>2 DEF QueueStep

\* Items: approve, restore.
LEMMA QueueStepKeepsItem ==
  ASSUME TypeOK, NEW id \in Ids, QueueStep(id), NEW j \in Ids, ItemOK(j)
  PROVE  ItemOK(j)'
<1>t. follow[id] \in FollowType /\ run[id] \in RunType
  BY DEF TypeOK
<1>. USE NoneAssumption DEF HasFollow, HumanReasons, ItemOK, FollowOnlyWhenOpen,
       RunProgressConsistent, RunNodeLegal, MergedImpliesResting, PrFixImpliesOpenTaken,
       ProbeProcImpliesResting, TakenScope, TakenKindMatchesRun, BlockedReasonIffBlocked
<1>1. ASSUME Approve(id)
      PROVE  ItemOK(j)'
  BY <1>1, RunNodes, AdvanceStaysLegal DEF TypeOK, Approve, NoRun, NoFollow, item,
     ledgers
<1>2. ASSUME Restore(id)
      PROVE  ItemOK(j)'
  <2>1. follow' = [follow EXCEPT ![id] = WithoutLease(follow[id])]
    BY <1>2 DEF Restore
  <2>2. follow'[id] = WithoutLease(follow[id]) /\ \A k \in Ids : k # id => follow'[k] = follow[k]
    BY <2>1 DEF TypeOK
  <2>3. /\ follow'[id].attention = follow[id].attention
        /\ follow'[id].fix = follow[id].fix
        /\ follow'[id].fixIds = follow[id].fixIds
        /\ follow'[id].rebase = follow[id].rebase
        /\ follow'[id].handled = follow[id].handled
        /\ follow'[id].fixAttempts = follow[id].fixAttempts
        /\ follow'[id].errors = follow[id].errors
        /\ ~follow'[id].lease
    BY <2>2, <1>t DEF FollowType, WithoutLease
  <2>. QED BY <1>2, <2>2, <2>3, RunNodes, NoLeaseToDrop DEF Restore, NoRun, item,
              ledgers, TypeOK
<1>. QED BY <1>1, <1>2 DEF QueueStep

\* Types: claim, fix-start, rebase-start.
LEMMA StartStepType ==
  ASSUME TypeOK, NEW id \in Ids, StartStep(id)
  PROVE  TypeOK'
<1>t. follow[id] \in FollowType /\ run[id] \in RunType /\ outbox[id] \in IntentType
  BY DEF TypeOK
<1>1. ASSUME NEW s \in Sessions, Claim(id, s)
      PROVE  TypeOK'
  <2>1. run' \in [Ids -> RunType]
    BY <1>1, Words DEF Claim, TypeOK, RunType, NewRun
  <2>2. CycleReset(follow[id]) \in FollowType
    BY <1>t DEF FollowType, CycleReset
  <2>3. follow' \in [Ids -> FollowType]
    BY <1>1, <2>2 DEF Claim, TypeOK
  <2>4. OtherTypes' /\ UNCHANGED <<outbox>>
    BY <1>1, LimitAssumption DEF Claim, TypeOK, OtherTypes, Progresses,
       ArtifactStates, WithdrawnStates,
      item, ledgers
  <2>. QED BY <2>1, <2>2, <2>3, <2>4 DEF TypeOK, OtherTypes
<1>2. ASSUME NEW s \in Sessions, NEW reset, FixStart(id, s, reset)
      PROVE  TypeOK'
  <2>1. run' \in [Ids -> RunType]
    BY <1>2, Words DEF FixStart, TypeOK, RunType, NewRun
  <2>2. [follow[id] EXCEPT !.fix = "taken", !.lease = FALSE,
                  !.fixAttempts = FixAttempts(id, reset)] \in FollowType
    BY <1>t, FixAttemptsPositive DEF FollowType
  <2>3. [follow[id] EXCEPT !.attention = "fix_limit", !.lease = FALSE,
                  !.fixAttempts = FixAttempts(id, reset)] \in FollowType
    BY <1>t, FixAttemptsPositive, Words DEF FollowType
  <2>4. follow' \in [Ids -> FollowType]
    BY <1>2, <2>2, <2>3 DEF FixStart, TypeOK
  <2>5. OtherTypes' /\ UNCHANGED <<outbox>>
    BY <1>2, LimitAssumption DEF FixStart, RestsWithFollow, TypeOK, OtherTypes,
       Progresses, ArtifactStates, WithdrawnStates,
      item, ledgers
  <2>. QED BY <2>1, <2>2, <2>3, <2>4, <2>5 DEF TypeOK, OtherTypes
<1>3. ASSUME NEW s \in Sessions, RebaseCycleStart(id, s)
      PROVE  TypeOK'
  <2>1. run' \in [Ids -> RunType]
    BY <1>3, Words DEF RebaseCycleStart, TypeOK, RunType, NewRun
  <2>2. [follow[id] EXCEPT !.rebase = "taken", !.lease = FALSE] \in FollowType
    BY <1>t DEF FollowType
  <2>3. follow' \in [Ids -> FollowType]
    BY <1>3, <2>2 DEF RebaseCycleStart, TypeOK
  <2>4. OtherTypes' /\ UNCHANGED <<outbox>>
    BY <1>3, LimitAssumption DEF RebaseCycleStart, TypeOK, OtherTypes, Progresses,
       ArtifactStates, WithdrawnStates,
      item, ledgers
  <2>. QED BY <2>1, <2>2, <2>3, <2>4 DEF TypeOK, OtherTypes
<1>. QED BY <1>1, <1>2, <1>3 DEF StartStep

\* Items: claim, fix-start, rebase-start.
LEMMA StartStepKeepsItem ==
  ASSUME TypeOK, NEW id \in Ids, StartStep(id), NEW j \in Ids, ItemOK(j)
  PROVE  ItemOK(j)'
<1>t. follow[id] \in FollowType /\ run[id] \in RunType
  BY DEF TypeOK
<1>. USE NoneAssumption DEF HasFollow, HumanReasons, ItemOK, FollowOnlyWhenOpen,
       RunProgressConsistent, RunNodeLegal, MergedImpliesResting, PrFixImpliesOpenTaken,
       ProbeProcImpliesResting, TakenScope, TakenKindMatchesRun, BlockedReasonIffBlocked
<1>1. ASSUME NEW s \in Sessions, Claim(id, s)
      PROVE  ItemOK(j)'
  <2>1. follow' = [follow EXCEPT ![id] = CycleReset(follow[id])]
    BY <1>1 DEF Claim
  <2>2. follow'[id] = CycleReset(follow[id]) /\ \A k \in Ids : k # id => follow'[k] = follow[k]
    BY <2>1 DEF TypeOK
  <2>3. /\ ~HasFollow(id) => follow'[id] = follow[id]
        /\ HasFollow(id) => follow'[id].attention = "auto" /\ follow'[id].fix = "none" /\ follow'[id].rebase = "none"
        /\ follow'[id].lease = follow[id].lease
    BY <2>2, <1>t DEF FollowType, CycleReset
  <2>. QED BY <1>1, <2>2, <2>3, RunNodes, FreshFollows DEF Claim, NewRun, NoRun,
              item, ledgers, TypeOK
<1>2. ASSUME NEW s \in Sessions, NEW reset, FixStart(id, s, reset)
      PROVE  ItemOK(j)'
  <2>1. FixAttempts(id, reset) \in Nat \ {0}
    BY FixAttemptsPositive
  <2>2. CASE FixAttempts(id, reset) <= FixAttemptLimit
    <3>. DEFINE f == [follow[id] EXCEPT !.fix = "taken", !.lease = FALSE,
                                        !.fixAttempts = FixAttempts(id, reset)]
    <3>1. /\ f.attention = follow[id].attention /\ f.fix = "taken" /\ ~f.lease
          /\ f.rebase = follow[id].rebase /\ f.fixAttempts = FixAttempts(id, reset)
      BY <1>t DEF FollowType
    <3>2. follow' = [follow EXCEPT ![id] = f]
      BY <1>2, <2>2 DEF FixStart
    <3>. HIDE DEF f
    <3>3. f.fixAttempts \in 1 .. FixAttemptLimit
      BY <2>1, <2>2, <3>1, LimitAssumption
    <3>. QED BY <1>2, <2>2, <3>1, <3>2, <3>3, RunNodes DEF FixStart, TypeOK,
                RestsWithFollow, NewRun, ledgers
  <2>3. CASE ~(FixAttempts(id, reset) <= FixAttemptLimit)
    <3>. DEFINE f == [follow[id] EXCEPT !.attention = "fix_limit", !.lease = FALSE,
                                        !.fixAttempts = FixAttempts(id, reset)]
    <3>1. /\ f.attention = "fix_limit" /\ f.fix = follow[id].fix
          /\ f.rebase = follow[id].rebase /\ ~f.lease
      BY <1>t DEF FollowType
    <3>2. follow' = [follow EXCEPT ![id] = f]
      BY <1>2, <2>3 DEF FixStart
    <3>. HIDE DEF f
    <3>. QED BY <1>2, <2>3, <3>1, <3>2 DEF FixStart, TypeOK, RestsWithFollow, ledgers
  <2>. QED BY <2>2, <2>3
<1>3. ASSUME NEW s \in Sessions, RebaseCycleStart(id, s)
      PROVE  ItemOK(j)'
  <2>1. \A k \in Ids : k # id => follow'[k] = follow[k]
    BY <1>3 DEF RebaseCycleStart, TypeOK
  <2>2. /\ follow'[id].attention = follow[id].attention
        /\ follow'[id].fix = follow[id].fix
        /\ follow'[id].fixIds = follow[id].fixIds
        /\ follow'[id].handled = follow[id].handled
        /\ follow'[id].fixAttempts = follow[id].fixAttempts
        /\ follow'[id].errors = follow[id].errors
        /\ follow'[id].rebase = "taken"
        /\ ~follow'[id].lease
    BY <1>3 DEF RebaseCycleStart, TypeOK, FollowType
  <2>. QED BY <1>3, <2>1, <2>2, RunNodes DEF TypeOK, RebaseCycleStart, NewRun,
              RestsWithFollow, NoRun, item, ledgers
<1>. QED BY <1>1, <1>2, <1>3 DEF StartStep

\* Types: set-gate, advance, rebase-start in finalize, rebase-forgo.
LEMMA PhaseStepType ==
  ASSUME TypeOK, NEW id \in Ids, PhaseStep(id)
  PROVE  TypeOK'
<1>t. follow[id] \in FollowType /\ run[id] \in RunType /\ outbox[id] \in IntentType
  BY DEF TypeOK
<1>1. ASSUME SetGate(id)
      PROVE  TypeOK'
  <2>1. [run[id] EXCEPT !.gate = "light", !.phase = "research+plan", !.attempts = 0] \in RunType
    BY <1>t, Words DEF RunType
  <2>2. run' \in [Ids -> RunType]
    BY <1>1, <2>1 DEF SetGate, TypeOK
  <2>3. OtherTypes' /\ UNCHANGED <<follow, outbox>>
    BY <1>1, LimitAssumption DEF SetGate, TypeOK, OtherTypes, Progresses,
       ArtifactStates, WithdrawnStates,
      item, ledgers
  <2>. QED BY <2>1, <2>2, <2>3 DEF TypeOK, OtherTypes
<1>2. ASSUME NEW from \in AllPhases, NEW to \in AllPhases, Advance(id, from, to)
      PROVE  TypeOK'
  <2>1. [run[id] EXCEPT !.phase = to, !.attempts = 0, !.verifier = None] \in RunType
    BY <1>t DEF RunType
  <2>2. run' \in [Ids -> RunType]
    BY <1>2, <2>1 DEF Advance, TypeOK
  <2>3. OtherTypes' /\ UNCHANGED <<follow, outbox>>
    BY <1>2, LimitAssumption DEF Advance, TypeOK, OtherTypes, Progresses,
       ArtifactStates, WithdrawnStates,
      item, ledgers
  <2>. QED BY <2>1, <2>2, <2>3 DEF TypeOK, OtherTypes
<1>3. ASSUME RebaseDetourStart(id)
      PROVE  TypeOK'
  <2>1. [run[id] EXCEPT !.phase = "rebase_fix", !.attempts = 0] \in RunType
    BY <1>t, Words DEF RunType
  <2>2. run' \in [Ids -> RunType]
    BY <1>3, <2>1 DEF RebaseDetourStart, TypeOK
  <2>3. OtherTypes' /\ UNCHANGED <<follow, outbox>>
    BY <1>3, LimitAssumption DEF RebaseDetourStart, TypeOK, OtherTypes, Progresses,
       ArtifactStates, WithdrawnStates,
      item, ledgers
  <2>. QED BY <2>1, <2>2, <2>3 DEF TypeOK, OtherTypes
<1>4. ASSUME RebaseForgo(id)
      PROVE  TypeOK'
  <2>1. [run[id] EXCEPT !.phase = "finalize", !.attempts = 0] \in RunType
    BY <1>t, Words DEF RunType
  <2>2. run' \in [Ids -> RunType]
    BY <1>4, <2>1 DEF RebaseForgo, TypeOK
  <2>3. RebaseGuard(follow[id]) \in FollowType
    BY <1>t DEF FollowType, RebaseGuard
  <2>4. follow' \in [Ids -> FollowType]
    BY <1>4, <2>3 DEF RebaseForgo, TypeOK
  <2>5. OtherTypes' /\ UNCHANGED <<outbox>>
    BY <1>4, LimitAssumption DEF RebaseForgo, TypeOK, OtherTypes, Progresses,
       ArtifactStates, WithdrawnStates,
      item, ledgers
  <2>. QED BY <2>1, <2>2, <2>3, <2>4, <2>5 DEF TypeOK, OtherTypes
<1>. QED BY <1>1, <1>2, <1>3, <1>4 DEF PhaseStep

\* Items: set-gate, advance, rebase-start in finalize, rebase-forgo.
LEMMA PhaseStepKeepsItem ==
  ASSUME TypeOK, NEW id \in Ids, PhaseStep(id), NEW j \in Ids, ItemOK(j)
  PROVE  ItemOK(j)'
<1>t. follow[id] \in FollowType /\ run[id] \in RunType
  BY DEF TypeOK
<1>. USE NoneAssumption DEF HasFollow, HumanReasons, ItemOK, FollowOnlyWhenOpen,
       RunProgressConsistent, RunNodeLegal, MergedImpliesResting, PrFixImpliesOpenTaken,
       ProbeProcImpliesResting, TakenScope, TakenKindMatchesRun, BlockedReasonIffBlocked
<1>1. ASSUME SetGate(id)
      PROVE  ItemOK(j)'
  BY <1>1, RunNodes, AdvanceStaysLegal DEF TypeOK, SetGate, NoRun, NoFollow, item,
     ledgers
<1>2. ASSUME NEW from \in AllPhases, NEW to \in AllPhases, Advance(id, from, to)
      PROVE  ItemOK(j)'
  BY <1>2, RunNodes, AdvanceStaysLegal DEF TypeOK, Advance, NoRun, NoFollow, item,
     ledgers
<1>3. ASSUME RebaseDetourStart(id)
      PROVE  ItemOK(j)'
  BY <1>3, RunNodes, AdvanceStaysLegal DEF TypeOK, RebaseDetourStart, NoRun,
     NoFollow, item, ledgers
<1>4. ASSUME RebaseForgo(id)
      PROVE  ItemOK(j)'
  <2>1. \A k \in Ids : k # id => follow'[k] = follow[k]
    BY <1>4 DEF RebaseForgo, TypeOK
  <2>2. /\ follow'[id].attention = follow[id].attention
        /\ follow'[id].fix = follow[id].fix
        /\ follow'[id].fixIds = follow[id].fixIds
        /\ follow'[id].handled = follow[id].handled
        /\ follow'[id].fixAttempts = follow[id].fixAttempts
        /\ follow'[id].errors = follow[id].errors
        /\ follow'[id].lease = follow[id].lease
        /\ follow'[id].rebase = "quiet" \/ follow'[id].rebase = follow[id].rebase
        /\ ~HasFollow(id) => follow'[id] = follow[id]
    BY <1>4 DEF RebaseForgo, TypeOK, FollowType, NoFollow, RebaseGuard
  <2>. QED BY <1>4, <2>1, <2>2, RunNodes DEF TypeOK, RebaseForgo, NoRun, item, ledgers
<1>. QED BY <1>1, <1>2, <1>3, <1>4 DEF PhaseStep

\* Types: phase-fail, set-worktree, set-executor, touch-executor.
LEMMA RunStepType ==
  ASSUME TypeOK, NEW id \in Ids, RunStep(id)
  PROVE  TypeOK'
<1>t. follow[id] \in FollowType /\ run[id] \in RunType /\ outbox[id] \in IntentType
  BY DEF TypeOK
<1>1. ASSUME NEW phase, NEW expect, NEW v \in Agents \cup {None}, PhaseFail(id, phase, expect, v)
      PROVE  TypeOK'
  <2>. DEFINE n == expect + 1
  <2>0. n \in Nat
    BY <1>t, <1>1 DEF RunType, PhaseFail
  <2>. HIDE DEF n
  <2>1. [run[id] EXCEPT !.attempts = n, !.verifier = v] \in RunType
    BY <1>t, <2>0 DEF RunType
  <2>2. run' \in [Ids -> RunType]
    BY <1>1, <2>1 DEF n, PhaseFail, TypeOK
  <2>3. OtherTypes' /\ UNCHANGED <<follow, outbox>>
    BY <1>1, LimitAssumption DEF PhaseFail, TypeOK, OtherTypes, Progresses,
       ArtifactStates, WithdrawnStates,
      item, ledgers
  <2>. QED BY <2>1, <2>2, <2>3 DEF TypeOK, OtherTypes
<1>2. ASSUME NEW drop \in BOOLEAN, SetWorktree(id, drop)
      PROVE  TypeOK'
  <2>1. OtherTypes' /\ UNCHANGED <<run, follow, outbox>>
    BY <1>2, LimitAssumption DEF SetWorktree, TypeOK, OtherTypes, Progresses,
       ArtifactStates, WithdrawnStates,
      item, ledgers
  <2>. QED BY <2>1 DEF TypeOK, OtherTypes
<1>3. ASSUME NEW agent \in Agents, NEW s \in Sessions, NEW expect, SetExecutor(id, agent, s, expect)
      PROVE  TypeOK'
  <2>1. [run[id] EXCEPT !.executor = agent, !.verifier = None] \in RunType
    BY <1>t DEF RunType
  <2>2. run' \in [Ids -> RunType]
    BY <1>3, <2>1 DEF SetExecutor, TypeOK
  <2>3. OtherTypes' /\ UNCHANGED <<follow, outbox>>
    BY <1>3, LimitAssumption DEF SetExecutor, TypeOK, OtherTypes, Progresses,
       ArtifactStates, WithdrawnStates,
      item, ledgers
  <2>. QED BY <2>1, <2>2, <2>3 DEF TypeOK, OtherTypes
<1>4. ASSUME NEW s \in Sessions, TouchExecutor(id, s)
      PROVE  TypeOK'
  <2>1. OtherTypes' /\ UNCHANGED <<run, follow, outbox>>
    BY <1>4, LimitAssumption DEF TouchExecutor, TypeOK, OtherTypes, Progresses,
       ArtifactStates, WithdrawnStates,
      item, ledgers
  <2>. QED BY <2>1 DEF TypeOK, OtherTypes
<1>. QED BY <1>1, <1>2, <1>3, <1>4 DEF RunStep

\* Items: phase-fail, set-worktree, set-executor, touch-executor.
LEMMA RunStepKeepsItem ==
  ASSUME TypeOK, NEW id \in Ids, RunStep(id), NEW j \in Ids, ItemOK(j)
  PROVE  ItemOK(j)'
<1>t. follow[id] \in FollowType /\ run[id] \in RunType
  BY DEF TypeOK
<1>. USE NoneAssumption DEF HasFollow, HumanReasons, ItemOK, FollowOnlyWhenOpen,
       RunProgressConsistent, RunNodeLegal, MergedImpliesResting, PrFixImpliesOpenTaken,
       ProbeProcImpliesResting, TakenScope, TakenKindMatchesRun, BlockedReasonIffBlocked
<1>1. ASSUME NEW phase, NEW expect, NEW v \in Agents \cup {None}, PhaseFail(id, phase, expect, v)
      PROVE  ItemOK(j)'
  BY <1>1, RunNodes, AdvanceStaysLegal DEF TypeOK, PhaseFail, NoRun, NoFollow, item,
     ledgers
<1>2. ASSUME NEW drop \in BOOLEAN, SetWorktree(id, drop)
      PROVE  ItemOK(j)'
  BY <1>2, RunNodes, AdvanceStaysLegal DEF TypeOK, SetWorktree, NoRun, NoFollow,
     item, ledgers
<1>3. ASSUME NEW agent \in Agents, NEW s \in Sessions, NEW expect, SetExecutor(id, agent, s, expect)
      PROVE  ItemOK(j)'
  BY <1>3, RunNodes, AdvanceStaysLegal DEF TypeOK, SetExecutor, NoRun, NoFollow,
     item, ledgers
<1>4. ASSUME NEW s \in Sessions, TouchExecutor(id, s)
      PROVE  ItemOK(j)'
  BY <1>4, RunNodes, AdvanceStaysLegal DEF TypeOK, TouchExecutor, NoRun, NoFollow,
     item, ledgers
<1>. QED BY <1>1, <1>2, <1>3, <1>4 DEF RunStep

\* Types: block, dequeue, ship, rebase-giveup.
LEMMA EndStepType ==
  ASSUME TypeOK, NEW id \in Ids, EndStep(id)
  PROVE  TypeOK'
<1>t. follow[id] \in FollowType /\ run[id] \in RunType /\ outbox[id] \in IntentType
  BY DEF TypeOK
<1>1. ASSUME Block(id)
      PROVE  TypeOK'
  <2>1. run' \in [Ids -> RunType]
    BY <1>1, Words DEF Block, TypeOK, RunType, NoRun
  <2>2. OtherTypes' /\ UNCHANGED <<follow, outbox>>
    BY <1>1, LimitAssumption DEF Block, TypeOK, OtherTypes, Progresses,
       ArtifactStates, WithdrawnStates,
      item, ledgers
  <2>. QED BY <2>1, <2>2 DEF TypeOK, OtherTypes
<1>2. ASSUME Dequeue(id)
      PROVE  TypeOK'
  <2>1. run' \in [Ids -> RunType]
    BY <1>2, Words DEF Dequeue, TypeOK, RunType, RemoveItem, NoRun
  <2>2. follow' \in [Ids -> FollowType]
    BY <1>2 DEF Dequeue, TypeOK, FollowType, RemoveItem, NoFollow
  <2>3. OtherTypes' /\ UNCHANGED <<outbox>>
    BY <1>2, LimitAssumption DEF Dequeue, RemoveItem, TypeOK, OtherTypes, Progresses,
       ArtifactStates, WithdrawnStates,
      item, ledgers
  <2>. QED BY <2>1, <2>2, <2>3 DEF TypeOK, OtherTypes
<1>3. ASSUME NEW share \in Shares, Ship(id, share)
      PROVE  TypeOK'
  <2>1. run' \in [Ids -> RunType]
    BY <1>3, Words DEF Ship, TypeOK, RunType, NoRun
  <2>2. follow' \in [Ids -> FollowType]
    BY <1>3, ShippedFollowType DEF Ship, TypeOK
  <2>3. OtherTypes' /\ UNCHANGED <<outbox>>
    BY <1>3, LimitAssumption DEF Ship, ShippedArtifact, Shares, TypeOK, OtherTypes,
       Progresses, ArtifactStates, WithdrawnStates,
      item, ledgers
  <2>. QED BY <2>1, <2>2, <2>3 DEF TypeOK, OtherTypes
<1>4. ASSUME RebaseGiveUp(id)
      PROVE  TypeOK'
  <2>1. run' \in [Ids -> RunType]
    BY <1>4, Words DEF RebaseGiveUp, TypeOK, RunType, NoRun
  <2>2. RebaseGuard(follow[id]) \in FollowType
    BY <1>t DEF FollowType, RebaseGuard
  <2>3. follow' \in [Ids -> FollowType]
    BY <1>4, <2>2 DEF RebaseGiveUp, TypeOK
  <2>4. OtherTypes' /\ UNCHANGED <<outbox>>
    BY <1>4, LimitAssumption DEF RebaseGiveUp, TypeOK, OtherTypes, Progresses,
       ArtifactStates, WithdrawnStates,
      item, ledgers
  <2>. QED BY <2>1, <2>2, <2>3, <2>4 DEF TypeOK, OtherTypes
<1>. QED BY <1>1, <1>2, <1>3, <1>4 DEF EndStep

\* Items: block, dequeue, ship, rebase-giveup.
LEMMA EndStepKeepsItem ==
  ASSUME TypeOK, NEW id \in Ids, EndStep(id), NEW j \in Ids, ItemOK(j)
  PROVE  ItemOK(j)'
<1>t. follow[id] \in FollowType /\ run[id] \in RunType
  BY DEF TypeOK
<1>. USE NoneAssumption DEF HasFollow, HumanReasons, ItemOK, FollowOnlyWhenOpen,
       RunProgressConsistent, RunNodeLegal, MergedImpliesResting, PrFixImpliesOpenTaken,
       ProbeProcImpliesResting, TakenScope, TakenKindMatchesRun, BlockedReasonIffBlocked
<1>1. ASSUME Block(id)
      PROVE  ItemOK(j)'
  BY <1>1, RunNodes, AdvanceStaysLegal DEF TypeOK, Block, NoRun, NoFollow, item, ledgers
<1>2. ASSUME Dequeue(id)
      PROVE  ItemOK(j)'
  BY <1>2, RunNodes, AdvanceStaysLegal DEF TypeOK, Dequeue, RemoveItem, NoRun,
     NoFollow, item, ledgers
<1>3. ASSUME NEW share \in Shares, Ship(id, share)
      PROVE  ItemOK(j)'
  <2>1. /\ follow' = [follow EXCEPT ![id] = ShippedFollow(id, share)]
        /\ progress' = [progress EXCEPT ![id] = "resting"]
        /\ run' = [run EXCEPT ![id] = NoRun]
        /\ artifact' = [artifact EXCEPT ![id] = ShippedArtifact(id, share)]
        /\ progress[id] = "running"
        /\ UNCHANGED blockedReason
    BY <1>3 DEF Ship
  <2>2. session' = [session EXCEPT
          ![id] = IF ShippedFollow(id, share).attention = "none" THEN None ELSE @]
    BY <1>3 DEF Ship
  <2>3. CASE j # id
    BY <2>1, <2>2, <2>3 DEF TypeOK
  <2>4. CASE j = id
    <3>1. /\ ShippedFollow(id, share).attention \in {follow[id].attention, "auto", "none"}
          /\ ShippedFollow(id, share).attention = "none" => ShippedFollow(id, share) = NoFollow
          /\ ShippedFollow(id, share).attention # "none" => ShippedArtifact(id, share) = "open"
          /\ ShippedFollow(id, share).fix # "taken"
          /\ ShippedFollow(id, share).rebase # "taken"
      BY <2>4, ShippedFollowFields
    <3>2. /\ follow'[id] = ShippedFollow(id, share)
          /\ progress'[id] = "resting"
          /\ run'[id] = NoRun
          /\ artifact'[id] = ShippedArtifact(id, share)
          /\ session'[id] = IF ShippedFollow(id, share).attention = "none" THEN None ELSE session[id]
          /\ blockedReason'[id] = blockedReason[id]
      BY <2>1, <2>2 DEF TypeOK
    <3>3. follow[id].attention \notin HumanReasons /\ artifact[id] # "merged" /\ ~blockedReason[id]
      BY <2>1, <2>4
    <3>. QED BY <2>1, <2>4, <3>1, <3>2, <3>3 DEF NoRun
  <2>. QED BY <2>3, <2>4
<1>4. ASSUME RebaseGiveUp(id)
      PROVE  ItemOK(j)'
  <2>1. \A k \in Ids : k # id => follow'[k] = follow[k]
    BY <1>4 DEF RebaseGiveUp, TypeOK
  <2>2. /\ follow'[id].attention = follow[id].attention
        /\ follow'[id].fix = follow[id].fix
        /\ follow'[id].fixIds = follow[id].fixIds
        /\ follow'[id].handled = follow[id].handled
        /\ follow'[id].fixAttempts = follow[id].fixAttempts
        /\ follow'[id].errors = follow[id].errors
        /\ follow'[id].lease = follow[id].lease
        /\ follow'[id].rebase = "quiet"
    BY <1>4 DEF RebaseGiveUp, TypeOK, FollowType, RebaseGuard
  <2>. QED BY <1>4, <2>1, <2>2, RunNodes DEF TypeOK, RebaseGiveUp, NoRun, item, ledgers
<1>. QED BY <1>1, <1>2, <1>3, <1>4 DEF EndStep

\* Types: merged, retire, withdraw, withdraw-asked, withdraw-remove.
LEMMA ArtifactStepType ==
  ASSUME TypeOK, NEW id \in Ids, ArtifactStep(id)
  PROVE  TypeOK'
<1>t. follow[id] \in FollowType /\ run[id] \in RunType /\ outbox[id] \in IntentType
  BY DEF TypeOK
<1>1. ASSUME Merged(id)
      PROVE  TypeOK'
  <2>1. follow' \in [Ids -> FollowType]
    BY <1>1 DEF Merged, TypeOK, FollowType, NoFollow
  <2>2. OtherTypes' /\ UNCHANGED <<run, outbox>>
    BY <1>1, LimitAssumption DEF Merged, TypeOK, OtherTypes, Progresses,
       ArtifactStates, WithdrawnStates,
      item, ledgers
  <2>. QED BY <2>1, <2>2 DEF TypeOK, OtherTypes
<1>2. ASSUME Retire(id)
      PROVE  TypeOK'
  <2>1. run' \in [Ids -> RunType]
    BY <1>2, Words DEF Retire, TypeOK, RunType, RemoveItem, NoRun
  <2>2. follow' \in [Ids -> FollowType]
    BY <1>2 DEF Retire, TypeOK, FollowType, RemoveItem, NoFollow
  <2>3. outbox' \in [Ids -> IntentType]
    BY <1>2 DEF Retire, TypeOK, IntentType, AppendCleanupIntent
  <2>4. OtherTypes'
    BY <1>2, LimitAssumption DEF Retire, RemoveItem, TypeOK, OtherTypes, Progresses,
       ArtifactStates, WithdrawnStates,
      item, ledgers
  <2>. QED BY <2>1, <2>2, <2>3, <2>4 DEF TypeOK, OtherTypes
<1>3. ASSUME Withdraw(id)
      PROVE  TypeOK'
  <2>1. follow' \in [Ids -> FollowType]
    BY <1>3 DEF Withdraw, TypeOK, FollowType, NoFollow
  <2>2. outbox' \in [Ids -> IntentType]
    BY <1>3 DEF Withdraw, TypeOK, IntentType, AppendCleanupIntent
  <2>3. OtherTypes' /\ UNCHANGED <<run>>
    BY <1>3, LimitAssumption DEF Withdraw, TypeOK, OtherTypes, Progresses,
       ArtifactStates, WithdrawnStates,
      item, ledgers
  <2>. QED BY <2>1, <2>2, <2>3 DEF TypeOK, OtherTypes
<1>4. ASSUME WithdrawAsked(id)
      PROVE  TypeOK'
  <2>1. OtherTypes' /\ UNCHANGED <<run, follow, outbox>>
    BY <1>4, LimitAssumption DEF WithdrawAsked, TypeOK, OtherTypes, Progresses,
       ArtifactStates, WithdrawnStates,
      item, ledgers
  <2>. QED BY <2>1 DEF TypeOK, OtherTypes
<1>5. ASSUME WithdrawRemove(id)
      PROVE  TypeOK'
  <2>1. run' \in [Ids -> RunType]
    BY <1>5, Words DEF WithdrawRemove, TypeOK, RunType, RemoveItem, NoRun
  <2>2. follow' \in [Ids -> FollowType]
    BY <1>5 DEF WithdrawRemove, TypeOK, FollowType, RemoveItem, NoFollow
  <2>3. OtherTypes' /\ UNCHANGED <<outbox>>
    BY <1>5, LimitAssumption DEF WithdrawRemove, RemoveItem, TypeOK, OtherTypes,
       Progresses, ArtifactStates, WithdrawnStates,
      item, ledgers
  <2>. QED BY <2>1, <2>2, <2>3 DEF TypeOK, OtherTypes
<1>. QED BY <1>1, <1>2, <1>3, <1>4, <1>5 DEF ArtifactStep

\* Items: merged, retire, withdraw, withdraw-asked, withdraw-remove.
LEMMA ArtifactStepKeepsItem ==
  ASSUME TypeOK, NEW id \in Ids, ArtifactStep(id), NEW j \in Ids, ItemOK(j)
  PROVE  ItemOK(j)'
<1>t. follow[id] \in FollowType /\ run[id] \in RunType
  BY DEF TypeOK
<1>. USE NoneAssumption DEF HasFollow, HumanReasons, ItemOK, FollowOnlyWhenOpen,
       RunProgressConsistent, RunNodeLegal, MergedImpliesResting, PrFixImpliesOpenTaken,
       ProbeProcImpliesResting, TakenScope, TakenKindMatchesRun, BlockedReasonIffBlocked
<1>1. ASSUME Merged(id)
      PROVE  ItemOK(j)'
  BY <1>1, RunNodes, AdvanceStaysLegal DEF TypeOK, Merged, NoRun, NoFollow, item,
     ledgers
<1>2. ASSUME Retire(id)
      PROVE  ItemOK(j)'
  BY <1>2, RunNodes, AdvanceStaysLegal DEF TypeOK, Retire, RemoveItem,
     AppendCleanupIntent, NoRun, NoFollow, item, ledgers
<1>3. ASSUME Withdraw(id)
      PROVE  ItemOK(j)'
  BY <1>3, RunNodes, AdvanceStaysLegal DEF TypeOK, Withdraw, AppendCleanupIntent,
     NoRun, NoFollow, item, ledgers
<1>4. ASSUME WithdrawAsked(id)
      PROVE  ItemOK(j)'
  BY <1>4, RunNodes, AdvanceStaysLegal DEF TypeOK, WithdrawAsked, WithdrawnStates,
     NoRun, NoFollow, item, ledgers
<1>5. ASSUME WithdrawRemove(id)
      PROVE  ItemOK(j)'
  BY <1>5, RunNodes, AdvanceStaysLegal DEF TypeOK, WithdrawRemove, RemoveItem, NoRun,
     NoFollow, item, ledgers
<1>. QED BY <1>1, <1>2, <1>3, <1>4, <1>5 DEF ArtifactStep

\* Types: fix-request, rebase-request, rebase-applied, probe-run, probe-exit,
\* release, observe, attention-set.
LEMMA FollowStepType ==
  ASSUME TypeOK, NEW id \in Ids, FollowStep(id)
  PROVE  TypeOK'
<1>t. follow[id] \in FollowType /\ run[id] \in RunType /\ outbox[id] \in IntentType
  BY DEF TypeOK
<1>1. ASSUME NEW ids \in SUBSET Comments, FixRequest(id, ids)
      PROVE  TypeOK'
  <2>1. [follow[id] EXCEPT !.fix = "pending", !.fixIds = ids] \in FollowType
    BY <1>t DEF FollowType
  <2>2. follow' \in [Ids -> FollowType]
    BY <1>1, <2>1 DEF FixRequest, TypeOK
  <2>3. OtherTypes' /\ UNCHANGED <<run, outbox>>
    BY <1>1, LimitAssumption DEF FixRequest, UnchangedButFollow, TypeOK, OtherTypes,
       Progresses, ArtifactStates, WithdrawnStates,
      item, ledgers
  <2>. QED BY <2>1, <2>2, <2>3 DEF TypeOK, OtherTypes
<1>2. ASSUME NEW resolve, RebaseRequest(id, resolve)
      PROVE  TypeOK'
  <2>1. [follow[id] EXCEPT !.rebase = RequestedRebase(follow[id].rebase, resolve)] \in FollowType
    BY <1>t DEF FollowType, RequestedRebase
  <2>2. follow' \in [Ids -> FollowType]
    BY <1>2, <2>1 DEF RebaseRequest, TypeOK
  <2>3. OtherTypes' /\ UNCHANGED <<run, outbox>>
    BY <1>2, LimitAssumption DEF RebaseRequest, UnchangedButFollow, TypeOK,
       OtherTypes, Progresses, ArtifactStates, WithdrawnStates,
      item, ledgers
  <2>. QED BY <2>1, <2>2, <2>3 DEF TypeOK, OtherTypes
<1>3. ASSUME RebaseApplied(id)
      PROVE  TypeOK'
  <2>1. [follow[id] EXCEPT !.rebase = "none"] \in FollowType
    BY <1>t DEF FollowType
  <2>2. follow' \in [Ids -> FollowType]
    BY <1>3, <2>1 DEF RebaseApplied, TypeOK
  <2>3. OtherTypes' /\ UNCHANGED <<run, outbox>>
    BY <1>3, LimitAssumption DEF RebaseApplied, UnchangedButFollow, TypeOK,
       OtherTypes, Progresses, ArtifactStates, WithdrawnStates,
      item, ledgers
  <2>. QED BY <2>1, <2>2, <2>3 DEF TypeOK, OtherTypes
<1>4. ASSUME NEW s \in Sessions \cup {None}, ProbeRun(id, s)
      PROVE  TypeOK'
  <2>1. [follow[id] EXCEPT !.lease = TRUE] \in FollowType
    BY <1>t DEF FollowType
  <2>2. follow' \in [Ids -> FollowType]
    BY <1>4, <2>1 DEF ProbeRun, TypeOK
  <2>3. OtherTypes' /\ UNCHANGED <<run, outbox>>
    BY <1>4, LimitAssumption DEF ProbeRun, TypeOK, OtherTypes, Progresses,
       ArtifactStates, WithdrawnStates,
      item, ledgers
  <2>. QED BY <2>1, <2>2, <2>3 DEF TypeOK, OtherTypes
<1>5. ASSUME ProbeExit(id)
      PROVE  TypeOK'
  <2>1. [follow[id] EXCEPT !.lease = FALSE] \in FollowType
    BY <1>t DEF FollowType
  <2>2. follow' \in [Ids -> FollowType]
    BY <1>5, <2>1 DEF ProbeExit, TypeOK
  <2>3. OtherTypes' /\ UNCHANGED <<run, outbox>>
    BY <1>5, LimitAssumption DEF ProbeExit, UnchangedButFollow, TypeOK, OtherTypes,
       Progresses, ArtifactStates, WithdrawnStates,
      item, ledgers
  <2>. QED BY <2>1, <2>2, <2>3 DEF TypeOK, OtherTypes
<1>6. ASSUME Release(id)
      PROVE  TypeOK'
  <2>1. WithoutLease(follow[id]) \in FollowType
    BY <1>t DEF FollowType, WithoutLease
  <2>2. follow' \in [Ids -> FollowType]
    BY <1>6, <2>1 DEF Release, TypeOK
  <2>3. OtherTypes' /\ UNCHANGED <<run, outbox>>
    BY <1>6, LimitAssumption DEF Release, TypeOK, OtherTypes, Progresses,
       ArtifactStates, WithdrawnStates,
      item, ledgers
  <2>. QED BY <2>1, <2>2, <2>3 DEF TypeOK, OtherTypes
<1>7. ASSUME NEW outcome, Observe(id, outcome)
      PROVE  TypeOK'
  <2>1. [follow[id] EXCEPT !.errors = ObservedErrors(follow[id].errors, outcome),
                  !.attention = "errors", !.lease = FALSE] \in FollowType
    BY <1>t, Words, ObservedErrorsTyped DEF FollowType
  <2>2. [follow[id] EXCEPT !.errors = ObservedErrors(follow[id].errors, outcome)] \in FollowType
    BY <1>t, ObservedErrorsTyped DEF FollowType
  <2>3. follow' \in [Ids -> FollowType]
    BY <1>7, <2>1, <2>2 DEF Observe, TypeOK
  <2>4. OtherTypes' /\ UNCHANGED <<run, outbox>>
    BY <1>7, LimitAssumption DEF Observe, TypeOK, OtherTypes, Progresses,
       ArtifactStates, WithdrawnStates,
      item, ledgers
  <2>. QED BY <2>1, <2>2, <2>3, <2>4 DEF TypeOK, OtherTypes
<1>8. ASSUME AttentionAuto(id)
      PROVE  TypeOK'
  <2>1. [follow[id] EXCEPT !.attention = "auto", !.errors = 0] \in FollowType
    BY <1>t DEF FollowType
  <2>2. follow' \in [Ids -> FollowType]
    BY <1>8, <2>1 DEF AttentionAuto, TypeOK
  <2>3. OtherTypes' /\ UNCHANGED <<run, outbox>>
    BY <1>8, LimitAssumption DEF AttentionAuto, UnchangedButFollow, TypeOK,
       OtherTypes, Progresses, ArtifactStates, WithdrawnStates,
      item, ledgers
  <2>. QED BY <2>1, <2>2, <2>3 DEF TypeOK, OtherTypes
<1>9. ASSUME NEW reason \in HumanReasons, AttentionHuman(id, reason)
      PROVE  TypeOK'
  <2>1. [follow[id] EXCEPT !.attention = reason, !.lease = FALSE] \in FollowType
    BY <1>t DEF FollowType
  <2>2. follow' \in [Ids -> FollowType]
    BY <1>9, <2>1 DEF AttentionHuman, TypeOK
  <2>3. OtherTypes' /\ UNCHANGED <<run, outbox>>
    BY <1>9, LimitAssumption DEF AttentionHuman, TypeOK, OtherTypes, Progresses,
       ArtifactStates, WithdrawnStates,
      item, ledgers
  <2>. QED BY <2>1, <2>2, <2>3 DEF TypeOK, OtherTypes
<1>. QED BY <1>1, <1>2, <1>3, <1>4, <1>5, <1>6, <1>7, <1>8, <1>9 DEF FollowStep

\* Items: fix-request, rebase-request, rebase-applied, probe-run, probe-exit,
\* release, observe, attention-set.
LEMMA FollowStepKeepsItem ==
  ASSUME TypeOK, NEW id \in Ids, FollowStep(id), NEW j \in Ids, ItemOK(j)
  PROVE  ItemOK(j)'
<1>t. follow[id] \in FollowType /\ run[id] \in RunType
  BY DEF TypeOK
<1>. USE NoneAssumption DEF HasFollow, HumanReasons, ItemOK, FollowOnlyWhenOpen,
       RunProgressConsistent, RunNodeLegal, MergedImpliesResting, PrFixImpliesOpenTaken,
       ProbeProcImpliesResting, TakenScope, TakenKindMatchesRun, BlockedReasonIffBlocked
<1>1. ASSUME NEW ids \in SUBSET Comments, FixRequest(id, ids)
      PROVE  ItemOK(j)'
  <2>1. \A k \in Ids : k # id => follow'[k] = follow[k]
    BY <1>1 DEF FixRequest, TypeOK
  <2>2. /\ follow'[id].attention = follow[id].attention
        /\ follow'[id].rebase = follow[id].rebase
        /\ follow'[id].handled = follow[id].handled
        /\ follow'[id].fixAttempts = follow[id].fixAttempts
        /\ follow'[id].errors = follow[id].errors
        /\ follow'[id].lease = follow[id].lease
        /\ follow'[id].fix = "pending"
    BY <1>1 DEF FixRequest, TypeOK, FollowType
  <2>. QED BY <1>1, <2>1, <2>2, RunNodes DEF TypeOK, FixRequest, RestsWithFollow,
              UnchangedButFollow, NoRun, item, ledgers
<1>2. ASSUME NEW resolve, RebaseRequest(id, resolve)
      PROVE  ItemOK(j)'
  <2>1. follow' = [follow EXCEPT ![id] = [follow[id] EXCEPT !.rebase = RequestedRebase(follow[id].rebase, resolve)]]
    BY <1>2 DEF RebaseRequest
  <2>2. follow'[id] = [follow[id] EXCEPT !.rebase = RequestedRebase(follow[id].rebase, resolve)] /\ \A k \in Ids : k # id => follow'[k] = follow[k]
    BY <2>1 DEF TypeOK
  <2>3. /\ follow'[id].attention = follow[id].attention
        /\ follow'[id].fix = follow[id].fix
        /\ follow'[id].fixIds = follow[id].fixIds
        /\ follow'[id].handled = follow[id].handled
        /\ follow'[id].fixAttempts = follow[id].fixAttempts
        /\ follow'[id].errors = follow[id].errors
        /\ follow'[id].lease = follow[id].lease
        /\ follow[id].rebase # "taken" => follow'[id].rebase # "taken"
    BY <2>2, <1>t DEF FollowType, RequestedRebase
  <2>. QED BY <1>2, <2>2, <2>3, RunNodes DEF RebaseRequest, RestsWithFollow,
              UnchangedButFollow, NoRun, item, ledgers, TypeOK
<1>3. ASSUME RebaseApplied(id)
      PROVE  ItemOK(j)'
  <2>1. \A k \in Ids : k # id => follow'[k] = follow[k]
    BY <1>3 DEF RebaseApplied, TypeOK
  <2>2. /\ follow'[id].attention = follow[id].attention
        /\ follow'[id].fix = follow[id].fix
        /\ follow'[id].fixIds = follow[id].fixIds
        /\ follow'[id].handled = follow[id].handled
        /\ follow'[id].fixAttempts = follow[id].fixAttempts
        /\ follow'[id].errors = follow[id].errors
        /\ follow'[id].lease = follow[id].lease
        /\ follow'[id].rebase = "none"
    BY <1>3 DEF RebaseApplied, TypeOK, FollowType
  <2>. QED BY <1>3, <2>1, <2>2, RunNodes DEF TypeOK, RebaseApplied, RestsWithFollow,
              UnchangedButFollow, NoRun, item, ledgers
<1>4. ASSUME NEW s \in Sessions \cup {None}, ProbeRun(id, s)
      PROVE  ItemOK(j)'
  <2>1. \A k \in Ids : k # id => follow'[k] = follow[k]
    BY <1>4 DEF ProbeRun, TypeOK
  <2>2. /\ follow'[id].attention = follow[id].attention
        /\ follow'[id].fix = follow[id].fix
        /\ follow'[id].fixIds = follow[id].fixIds
        /\ follow'[id].rebase = follow[id].rebase
        /\ follow'[id].handled = follow[id].handled
        /\ follow'[id].fixAttempts = follow[id].fixAttempts
        /\ follow'[id].errors = follow[id].errors
    BY <1>4 DEF ProbeRun, TypeOK, FollowType
  <2>. QED BY <1>4, <2>1, <2>2, RunNodes DEF TypeOK, ProbeRun, RestsWithFollow,
              IsFollowTarget, NoRun, item, ledgers
<1>5. ASSUME ProbeExit(id)
      PROVE  ItemOK(j)'
  <2>1. \A k \in Ids : k # id => follow'[k] = follow[k]
    BY <1>5 DEF ProbeExit, TypeOK
  <2>2. /\ follow'[id].attention = follow[id].attention
        /\ follow'[id].fix = follow[id].fix
        /\ follow'[id].fixIds = follow[id].fixIds
        /\ follow'[id].rebase = follow[id].rebase
        /\ follow'[id].handled = follow[id].handled
        /\ follow'[id].fixAttempts = follow[id].fixAttempts
        /\ follow'[id].errors = follow[id].errors
        /\ ~follow'[id].lease
    BY <1>5 DEF ProbeExit, TypeOK, FollowType
  <2>. QED BY <1>5, <2>1, <2>2, RunNodes DEF TypeOK, ProbeExit, RestsWithFollow,
              UnchangedButFollow, NoRun, item, ledgers
<1>6. ASSUME Release(id)
      PROVE  ItemOK(j)'
  <2>1. follow' = [follow EXCEPT ![id] = WithoutLease(follow[id])]
    BY <1>6 DEF Release
  <2>2. follow'[id] = WithoutLease(follow[id]) /\ \A k \in Ids : k # id => follow'[k] = follow[k]
    BY <2>1 DEF TypeOK
  <2>3. /\ follow'[id].attention = follow[id].attention
        /\ follow'[id].fix = follow[id].fix
        /\ follow'[id].fixIds = follow[id].fixIds
        /\ follow'[id].rebase = follow[id].rebase
        /\ follow'[id].handled = follow[id].handled
        /\ follow'[id].fixAttempts = follow[id].fixAttempts
        /\ follow'[id].errors = follow[id].errors
        /\ ~follow'[id].lease
    BY <2>2, <1>t DEF FollowType, WithoutLease
  <2>. QED BY <1>6, <2>2, <2>3, RunNodes, NoLeaseToDrop DEF Release, NoRun, item,
              ledgers, TypeOK
<1>7. ASSUME NEW outcome, Observe(id, outcome)
      PROVE  ItemOK(j)'
  <2>. DEFINE n == ObservedErrors(follow[id].errors, outcome)
              human == [follow[id] EXCEPT !.errors = n, !.attention = "errors", !.lease = FALSE]
              auto  == [follow[id] EXCEPT !.errors = n]
  <2>1. /\ human.attention = "errors" /\ ~human.lease
        /\ human.fix = follow[id].fix /\ human.rebase = follow[id].rebase
        /\ auto.attention = follow[id].attention /\ auto.lease = follow[id].lease
        /\ auto.fix = follow[id].fix /\ auto.rebase = follow[id].rebase
    BY <1>t DEF FollowType
  <2>2. \/ /\ follow' = [follow EXCEPT ![id] = human]
           /\ session' = [session EXCEPT ![id] = None]
        \/ /\ follow' = [follow EXCEPT ![id] = auto]
           /\ session' = session
    BY <1>7 DEF Observe
  <2>3. /\ UNCHANGED <<progress, run, blockedReason, artifact>>
        /\ progress[id] = "resting" /\ HasFollow(id)
    BY <1>7 DEF Observe, RestsWithFollow
  <2>. HIDE DEF human, auto
  <2>. QED BY <2>1, <2>2, <2>3 DEF TypeOK, OtherTypes
<1>8. ASSUME AttentionAuto(id)
      PROVE  ItemOK(j)'
  <2>1. \A k \in Ids : k # id => follow'[k] = follow[k]
    BY <1>8 DEF AttentionAuto, TypeOK
  <2>2. /\ follow'[id].fix = follow[id].fix
        /\ follow'[id].fixIds = follow[id].fixIds
        /\ follow'[id].rebase = follow[id].rebase
        /\ follow'[id].handled = follow[id].handled
        /\ follow'[id].fixAttempts = follow[id].fixAttempts
        /\ follow'[id].lease = follow[id].lease
        /\ follow'[id].attention = "auto"
    BY <1>8 DEF AttentionAuto, TypeOK, FollowType
  <2>. QED BY <1>8, <2>1, <2>2, RunNodes DEF TypeOK, AttentionAuto, RestsWithFollow,
              UnchangedButFollow, NoRun, item, ledgers
<1>9. ASSUME NEW reason \in HumanReasons, AttentionHuman(id, reason)
      PROVE  ItemOK(j)'
  <2>1. \A k \in Ids : k # id => follow'[k] = follow[k]
    BY <1>9 DEF AttentionHuman, TypeOK
  <2>2. /\ follow'[id].fix = follow[id].fix
        /\ follow'[id].fixIds = follow[id].fixIds
        /\ follow'[id].rebase = follow[id].rebase
        /\ follow'[id].handled = follow[id].handled
        /\ follow'[id].fixAttempts = follow[id].fixAttempts
        /\ follow'[id].errors = follow[id].errors
        /\ follow'[id].attention = reason
        /\ ~follow'[id].lease
    BY <1>9 DEF AttentionHuman, TypeOK, FollowType
  <2>. QED BY <1>9, <2>1, <2>2, RunNodes DEF TypeOK, AttentionHuman, RestsWithFollow,
              NoRun, item, ledgers
<1>. QED BY <1>1, <1>2, <1>3, <1>4, <1>5, <1>6, <1>7, <1>8, <1>9 DEF FollowStep

\* Types: relisted-add, relisted-drop, cleanup-resolve.
LEMMA LedgerStepType ==
  ASSUME TypeOK, NEW id \in Ids, LedgerStep(id)
  PROVE  TypeOK'
<1>t. follow[id] \in FollowType /\ run[id] \in RunType /\ outbox[id] \in IntentType
  BY DEF TypeOK
<1>1. ASSUME RelistedAdd(id)
      PROVE  TypeOK'
  <2>1. OtherTypes' /\ UNCHANGED <<run, follow, outbox>>
    BY <1>1, LimitAssumption DEF RelistedAdd, TypeOK, OtherTypes, Progresses,
       ArtifactStates, WithdrawnStates,
      item, ledgers
  <2>. QED BY <2>1 DEF TypeOK, OtherTypes
<1>2. ASSUME RelistedDrop(id)
      PROVE  TypeOK'
  <2>1. OtherTypes' /\ UNCHANGED <<run, follow, outbox>>
    BY <1>2, LimitAssumption DEF RelistedDrop, TypeOK, OtherTypes, Progresses,
       ArtifactStates, WithdrawnStates,
      item, ledgers
  <2>. QED BY <2>1 DEF TypeOK, OtherTypes
<1>3. ASSUME NEW ok \in BOOLEAN, CleanupResolve(id, ok)
      PROVE  TypeOK'
  <2>1. [outbox[id] EXCEPT !.attempts = outbox[id].attempts + 1] \in IntentType /\ NoIntent \in IntentType
    BY <1>t DEF IntentType, NoIntent
  <2>2. outbox' \in [Ids -> IntentType]
    BY <1>3, <2>1 DEF CleanupResolve, TypeOK
  <2>3. OtherTypes' /\ UNCHANGED <<run, follow>>
    BY <1>3, LimitAssumption DEF CleanupResolve, TypeOK, OtherTypes, Progresses,
       ArtifactStates, WithdrawnStates,
      item, ledgers
  <2>. QED BY <2>1, <2>2, <2>3 DEF TypeOK, OtherTypes
<1>. QED BY <1>1, <1>2, <1>3 DEF LedgerStep

\* Items: relisted-add, relisted-drop, cleanup-resolve.
LEMMA LedgerStepKeepsItem ==
  ASSUME TypeOK, NEW id \in Ids, LedgerStep(id), NEW j \in Ids, ItemOK(j)
  PROVE  ItemOK(j)'
<1>t. follow[id] \in FollowType /\ run[id] \in RunType
  BY DEF TypeOK
<1>. USE NoneAssumption DEF HasFollow, HumanReasons, ItemOK, FollowOnlyWhenOpen,
       RunProgressConsistent, RunNodeLegal, MergedImpliesResting, PrFixImpliesOpenTaken,
       ProbeProcImpliesResting, TakenScope, TakenKindMatchesRun, BlockedReasonIffBlocked
<1>1. ASSUME RelistedAdd(id)
      PROVE  ItemOK(j)'
  BY <1>1, RunNodes, AdvanceStaysLegal DEF TypeOK, RelistedAdd, NoRun, NoFollow,
     item, ledgers
<1>2. ASSUME RelistedDrop(id)
      PROVE  ItemOK(j)'
  BY <1>2, RunNodes, AdvanceStaysLegal DEF TypeOK, RelistedDrop, NoRun, NoFollow,
     item, ledgers
<1>3. ASSUME NEW ok \in BOOLEAN, CleanupResolve(id, ok)
      PROVE  ItemOK(j)'
  BY <1>3, RunNodes, AdvanceStaysLegal DEF TypeOK, CleanupResolve, NoRun, NoFollow,
     item, ledgers
<1>. QED BY <1>1, <1>2, <1>3 DEF LedgerStep

-----------------------------------------------------------------------------
(* The inductive invariant. *)

\* The empty queue satisfies the invariant.
LEMMA InitKeeps == Init => IInv
<1>. SUFFICES ASSUME Init PROVE IInv
  OBVIOUS
<1>1. NoRun \in RunType /\ NoIntent \in IntentType
  BY DEF RunType, NoRun, IntentType, NoIntent, Gates
<1>2. TypeOK
  BY <1>1, FreshFollows DEF Init, TypeOK, Progresses, ArtifactStates
<1>3. ASSUME NEW j \in Ids
      PROVE  ItemOK(j)
  BY FreshFollows DEF Init, ItemOK, FollowOnlyWhenOpen, HasFollow, HumanReasons, NoRun,
     NoFollow, RunProgressConsistent, RunNodeLegal, MergedImpliesResting,
     PrFixImpliesOpenTaken, ProbeProcImpliesResting, TakenScope, TakenKindMatchesRun,
     BlockedReasonIffBlocked
<1>. QED BY <1>2, <1>3 DEF IInv

\* Every verb preserves the invariant, and so does a step that changes nothing.
LEMMA NextKeeps == IInv /\ [Next]_vars => IInv'
<1>. SUFFICES ASSUME IInv, [Next]_vars PROVE IInv'
  OBVIOUS
<1>1. TypeOK /\ \A j \in Ids : ItemOK(j)
  BY DEF IInv
<1>2. CASE UNCHANGED vars
  <2>1. TypeOK'
    BY <1>1, <1>2 DEF TypeOK, vars
  <2>2. \A j \in Ids : ItemOK(j)'
    BY <1>1, <1>2 DEF vars, ItemOK, FollowOnlyWhenOpen, HasFollow,
       RunProgressConsistent,
       RunNodeLegal, MergedImpliesResting, PrFixImpliesOpenTaken, ProbeProcImpliesResting,
       TakenScope, TakenKindMatchesRun, BlockedReasonIffBlocked
  <2>. QED BY <2>1, <2>2 DEF IInv
<1>3. ASSUME NEW id \in Ids,
             \/ QueueStep(id) \/ StartStep(id) \/ PhaseStep(id) \/ RunStep(id)
             \/ EndStep(id) \/ ArtifactStep(id) \/ FollowStep(id) \/ LedgerStep(id)
      PROVE  IInv'
  <2>1. TypeOK'
    BY <1>1, <1>3, QueueStepType, StartStepType, PhaseStepType, RunStepType,
       EndStepType, ArtifactStepType, FollowStepType, LedgerStepType
  <2>2. ASSUME NEW j \in Ids
        PROVE  ItemOK(j)'
    BY <1>1, <1>3, QueueStepKeepsItem, StartStepKeepsItem, PhaseStepKeepsItem,
       RunStepKeepsItem, EndStepKeepsItem, ArtifactStepKeepsItem, FollowStepKeepsItem,
       LedgerStepKeepsItem
  <2>. QED BY <2>1, <2>2 DEF IInv
<1>. QED BY <1>2, <1>3 DEF Next

\* IInv holds in every state the verbs can produce.
THEOREM Invariance == Spec => []IInv
BY InitKeeps, NextKeeps, PTL DEF Spec

\* Every field of the state keeps the shape its schema declares.
THEOREM TypeCorrectness == Spec => []TypeOK
<1>1. IInv => TypeOK
  BY DEF IInv
<1>. QED BY <1>1, Invariance, PTL

\* The assertion assertItemInvariantsV2 in front of every write never fails.
THEOREM ItemsStayLegal == Spec => []ItemInvariants
<1>1. IInv => ItemInvariants
  BY DEF IInv, ItemOK, ItemInvariants
<1>. QED BY <1>1, Invariance, PTL

\* Running items are owned, items without anything volatile are not.
THEOREM OwnersMatch == Spec => []OwnerMatchesProgress
<1>1. IInv => OwnerMatchesProgress
  BY DEF IInv, ItemOK, OwnerMatchesProgress
<1>. QED BY <1>1, Invariance, PTL

\* A pull request handed to a human has no session, no watch lease and no run.
THEOREM HumanLatchHolds == Spec => []HumanLatch
<1>1. IInv => HumanLatch
  BY DEF IInv, ItemOK, HumanLatch
<1>. QED BY <1>1, Invariance, PTL

\* A fix run is one of the first FixAttemptLimit of its count.
THEOREM FixRunsPaid == Spec => []FixRunWithinLimit
<1>1. IInv => FixRunWithinLimit
  BY DEF IInv, ItemOK, FixRunWithinLimit
<1>. QED BY <1>1, Invariance, PTL

=============================================================================

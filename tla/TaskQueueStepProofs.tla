------------------------- MODULE TaskQueueStepProofs -------------------------
(***************************************************************************)
(* What a step of TaskQueue may do to an item, for every set of ids,       *)
(* sessions, agents and comments and every limit: the action properties,   *)
(* and the abstract specifications the queue implements.                   *)
(***************************************************************************)
EXTENDS TaskQueueProofs, TaskQueueHistory

\* The steps of one item.
ItemStep(id) ==
  \/ QueueStep(id) \/ StartStep(id) \/ PhaseStep(id) \/ RunStep(id)
  \/ EndStep(id) \/ ArtifactStep(id) \/ FollowStep(id) \/ LedgerStep(id)

\* An item that is not running has no node, no executor and no round.
NoRunAtRest == \A j \in Ids : progress[j] # "running" => run[j] = NoRun

\* What the steps are judged from.
StepInv == IInv /\ NoRunAtRest

-----------------------------------------------------------------------------
(* The items other than the verb's own. *)

\* Every field of another item stays what it is.
SameItem(j) ==
  UNCHANGED <<progress[j], run[j], artifact[j], follow[j], session[j], worktree[j],
              outbox[j]>>

\* No verb touches an item other than its own.
LEMMA OthersUntouched ==
  ASSUME TypeOK, NEW id \in Ids, ItemStep(id), NEW j \in Ids \ {id}
  PROVE  SameItem(j)
<1> USE DEF TypeOK, SameItem
<1>1. CASE QueueStep(id)
  BY <1>1 DEF QueueStep, Approve, Restore, ledgers
<1>2. CASE StartStep(id)
  BY <1>2 DEF StartStep, Claim, FixStart, RebaseCycleStart, ledgers
<1>3. CASE PhaseStep(id)
  BY <1>3 DEF PhaseStep, SetGate, Advance, RebaseDetourStart, RebaseForgo, ledgers
<1>4. CASE RunStep(id)
  BY <1>4 DEF RunStep, PhaseFail, SetWorktree, SetExecutor, TouchExecutor, ledgers
<1>5. CASE EndStep(id)
  BY <1>5 DEF EndStep, Block, Dequeue, RemoveItem, Ship, RebaseGiveUp, ledgers
<1>6. CASE ArtifactStep(id)
  BY <1>6 DEF ArtifactStep, Merged, Retire, RemoveItem, AppendCleanupIntent, Withdraw,
     WithdrawAsked, WithdrawRemove, ledgers
<1>7. CASE FollowStep(id)
  BY <1>7 DEF FollowStep, FixRequest, RebaseRequest, RebaseApplied, ProbeRun, ProbeExit,
     Release, Observe, AttentionAuto, AttentionHuman, UnchangedButFollow, ledgers
<1>8. CASE LedgerStep(id)
  BY <1>8 DEF LedgerStep, RelistedAdd, RelistedDrop, CleanupResolve, item
<1>. QED
  BY <1>1, <1>2, <1>3, <1>4, <1>5, <1>6, <1>7, <1>8 DEF ItemStep

-----------------------------------------------------------------------------
(* What the groups of verbs do to the item they name. *)

\* What a verb of the follow leaves alone.
KeepsRest(id) ==
  /\ progress[id] = "resting"
  /\ UNCHANGED <<progress, run, artifact, worktree, relisted, outbox>>
  /\ follow'[id].handled = follow[id].handled
  /\ session' = [session EXCEPT ![id] = session'[id]]
  /\ session'[id] \in Sessions \cup {None}
  /\ session'[id] # session[id] => artifact[id] # "merged"

\* The verbs of the follow act on a resting task and keep what was handled.
LEMMA FollowKeepsRest ==
  ASSUME IInv, NEW id \in Ids, FollowStep(id)
  PROVE  KeepsRest(id)
<1> USE DEF KeepsRest
<1>1. /\ TypeOK /\ follow[id] \in FollowType /\ FollowOnlyWhenOpen(id)
      /\ progress[id] = "resting" /\ ~HasFollow(id) => session[id] = None
      /\ follow \in [Ids -> FollowType] /\ session \in [Ids -> Sessions \cup {None}]
  BY DEF IInv, TypeOK, ItemOK
<1>2. RestsWithFollow(id) => progress[id] = "resting" /\ artifact[id] = "open"
  BY <1>1 DEF RestsWithFollow, FollowOnlyWhenOpen
<1>a. CASE \/ \E ids \in SUBSET Comments : FixRequest(id, ids)
           \/ \E resolve \in {"keep", "true", "false"} : RebaseRequest(id, resolve)
           \/ RebaseApplied(id) \/ ProbeExit(id) \/ AttentionAuto(id)
  <2>1. RestsWithFollow(id) /\ UnchangedButFollow /\ follow'[id].handled = follow[id].handled
    <3>1. ASSUME NEW ids \in SUBSET Comments, FixRequest(id, ids)
          PROVE  follow'[id].handled = follow[id].handled
      BY <1>1, <3>1 DEF FixRequest, FollowType
    <3>2. ASSUME NEW resolve, RebaseRequest(id, resolve)
          PROVE  follow'[id].handled = follow[id].handled
      BY <1>1, <3>2 DEF RebaseRequest, FollowType
    <3>3. RebaseApplied(id) => follow'[id].handled = follow[id].handled
      BY <1>1 DEF RebaseApplied, FollowType
    <3>4. ProbeExit(id) => follow'[id].handled = follow[id].handled
      BY <1>1 DEF ProbeExit, FollowType
    <3>5. AttentionAuto(id) => follow'[id].handled = follow[id].handled
      BY <1>1 DEF AttentionAuto, FollowType
    <3>. QED
      BY <1>a, <3>1, <3>2, <3>3, <3>4, <3>5 DEF FixRequest, RebaseRequest, RebaseApplied,
         ProbeExit, AttentionAuto
  <2>. QED
    BY <1>1, <1>2, <2>1 DEF UnchangedButFollow, ledgers
<1>b. ASSUME NEW s \in Sessions \cup {None}, ProbeRun(id, s)
      PROVE  KeepsRest(id)
  BY <1>1, <1>2, <1>b DEF ProbeRun, FollowType, ledgers
<1>c. CASE Release(id)
  BY <1>1, <1>2, <1>c DEF Release, WithoutLease, FollowType, FollowOnlyWhenOpen, ledgers
<1>d. ASSUME NEW outcome \in {"error", "reset", "other"}, Observe(id, outcome)
      PROVE  KeepsRest(id)
  <2>. DEFINE errors == ObservedErrors(follow[id].errors, outcome)
  <2>1. CASE errors >= ObserveErrorLimit
    <3>1. /\ RestsWithFollow(id)
          /\ follow' = [follow EXCEPT ![id] = [follow[id] EXCEPT
                          !.errors = errors, !.attention = "errors", !.lease = FALSE]]
          /\ session' = [session EXCEPT ![id] = None]
          /\ UNCHANGED <<progress, run, artifact, worktree, relisted, outbox>>
      BY <1>d, <2>1 DEF Observe, ledgers
    <3>. HIDE DEF errors
    <3>2. follow'[id].handled = follow[id].handled
      BY <1>1, <3>1 DEF FollowType
    <3>. QED
      BY <1>1, <1>2, <3>1, <3>2
  <2>2. CASE ~(errors >= ObserveErrorLimit)
    BY <1>1, <1>2, <1>d, <2>2 DEF Observe, FollowType, ledgers
  <2>. QED
    BY <2>1, <2>2
<1>e. ASSUME NEW reason \in HumanReasons, AttentionHuman(id, reason)
      PROVE  KeepsRest(id)
  BY <1>1, <1>2, <1>e DEF AttentionHuman, FollowType, ledgers
<1>. QED
  BY <1>a, <1>b, <1>c, <1>d, <1>e DEF FollowStep

\* A run ends where the progress leaves running, and begins with a fresh node.
LEMMA StepKeepsNoRunAtRest ==
  ASSUME StepInv, NEW id \in Ids, ItemStep(id)
  PROVE  NoRunAtRest'
<1> SUFFICES ASSUME NEW j \in Ids, progress'[j] # "running" PROVE run'[j] = NoRun
  BY DEF NoRunAtRest
<1>1. TypeOK /\ progress \in [Ids -> Progresses] /\ run \in [Ids -> RunType]
      /\ (progress[j] # "running" => run[j] = NoRun)
  BY DEF StepInv, IInv, TypeOK, NoRunAtRest
<1>2. CASE j # id
  BY <1>1, <1>2, OthersUntouched DEF SameItem
<1>3. CASE j = id
  <2>1. CASE QueueStep(id)
    BY <1>1, <1>3, <2>1 DEF QueueStep, Approve, Restore
  <2>2. CASE StartStep(id)
    BY <1>1, <1>3, <2>2 DEF StartStep, Claim, FixStart, RestsWithFollow, RebaseCycleStart
  <2>3. CASE PhaseStep(id)
    BY <1>1, <1>3, <2>3 DEF PhaseStep, SetGate, Advance, RebaseDetourStart, RebaseForgo
  <2>4. CASE RunStep(id)
    BY <1>1, <1>3, <2>4 DEF RunStep, PhaseFail, SetWorktree, SetExecutor, TouchExecutor
  <2>5. CASE EndStep(id)
    BY <1>1, <1>3, <2>5 DEF EndStep, Block, Dequeue, RemoveItem, Ship, RebaseGiveUp
  <2>6. CASE ArtifactStep(id)
    BY <1>1, <1>3, <2>6 DEF ArtifactStep, Merged, Retire, RemoveItem, Withdraw,
       WithdrawAsked, WithdrawRemove
  <2>7. CASE FollowStep(id)
    BY <1>1, <1>3, <2>7, FollowKeepsRest DEF StepInv, KeepsRest
  <2>8. CASE LedgerStep(id)
    BY <1>1, <1>3, <2>8 DEF LedgerStep, RelistedAdd, RelistedDrop, CleanupResolve, item
  <2>. QED
    BY <2>1, <2>2, <2>3, <2>4, <2>5, <2>6, <2>7, <2>8 DEF ItemStep
<1>. QED
  BY <1>2, <1>3

\* A step of the specification is the step of one item.
LEMMA NextIsItemStep == Next <=> \E id \in Ids : ItemStep(id)
BY DEF Next, ItemStep

\* StepInv holds in every state the verbs can produce.
THEOREM StepInvariance == Spec => []StepInv
<1>1. Init => NoRunAtRest
  BY DEF Init, NoRunAtRest
<1>2. StepInv /\ [Next]_vars => NoRunAtRest'
  <2> SUFFICES ASSUME StepInv, [Next]_vars PROVE NoRunAtRest'
    OBVIOUS
  <2>1. CASE UNCHANGED vars
    BY <2>1 DEF StepInv, vars, NoRunAtRest
  <2>. QED
    BY <2>1, NextIsItemStep, StepKeepsNoRunAtRest
<1>. QED
  BY <1>1, <1>2, Invariance, PTL DEF Spec, StepInv

-----------------------------------------------------------------------------
(* The memory of the pull request. *)

\* What a ship makes of the comments of the follow it keeps.
LEMMA ShippedComments ==
  ASSUME IInv, NEW id \in Ids, NEW share \in Shares, HasFollow(id)
  PROVE  LET f == ShippedFollow(id, share) IN
         /\ follow[id].fix = "taken" => f.handled = follow[id].handled \cup follow[id].fixIds
         /\ follow[id].fix # "taken" => f.handled = follow[id].handled
<1>1. follow[id] \in FollowType /\ artifact[id] = "open" /\ follow[id].attention # "none"
  BY DEF IInv, TypeOK, ItemOK, FollowOnlyWhenOpen, HasFollow
<1>2. ShippedFollow(id, share) = SettleAsks(follow[id])
  BY <1>1 DEF ShippedFollow
<1>. QED
  BY <1>1, <1>2 DEF SettleAsks, FollowType

\* A fix that starts, or latches, leaves what was handled.
LEMMA FixStartKeepsHandled ==
  ASSUME IInv, NEW id \in Ids, NEW s, NEW reset, FixStart(id, s, reset)
  PROVE  follow'[id].handled = follow[id].handled
<1>1. follow \in [Ids -> FollowType] /\ follow[id] \in FollowType
  BY DEF IInv, TypeOK
<1>2. ASSUME NEW f \in FollowType, NEW n
      PROVE  /\ [f EXCEPT !.fix = "taken", !.lease = FALSE, !.fixAttempts = n].handled = f.handled
             /\ [f EXCEPT !.attention = "fix_limit", !.lease = FALSE,
                          !.fixAttempts = n].handled = f.handled
  BY <1>2 DEF FollowType
<1>. DEFINE started == [follow[id] EXCEPT !.fix = "taken", !.lease = FALSE,
                                          !.fixAttempts = FixAttempts(id, reset)]
            latched == [follow[id] EXCEPT !.attention = "fix_limit", !.lease = FALSE,
                                          !.fixAttempts = FixAttempts(id, reset)]
<1>3. started.handled = follow[id].handled /\ latched.handled = follow[id].handled
  BY <1>1, <1>2
<1>4. \/ follow' = [follow EXCEPT ![id] = started]
      \/ follow' = [follow EXCEPT ![id] = latched]
  BY DEF FixStart
<1>. HIDE DEF started, latched
<1>. QED
  BY <1>1, <1>3, <1>4

\* Whatever becomes of the comments of an item in one step.
CommentsOf(id) ==
  \/ UNCHANGED <<follow[id].handled, follow[id].fix, follow[id].fixIds>>
  \/ follow[id].fix # "taken" /\ UNCHANGED follow[id].handled
  \/ /\ follow[id].fix = "taken" /\ run[id].kind = "pr_fix" /\ run[id].phase = "finalize"
     /\ progress'[id] = "resting"
     /\ follow'[id].handled = follow[id].handled \cup follow[id].fixIds
  \/ /\ progress[id] = "queued" /\ progress'[id] = "running" /\ UNCHANGED follow[id].handled
  \/ progress'[id] = "absent" /\ ~HasFollow(id)'
  \/ follow[id].fix # "taken" /\ (~HasFollow(id) \/ ~HasFollow(id)')

\* Every step leaves the comments of every item, or settles them in one of the ways
\* there are.
LEMMA StepSettlesComments ==
  ASSUME IInv, IInv', NEW id \in Ids, ItemStep(id), NEW j \in Ids
  PROVE  CommentsOf(j)
<1>1. /\ TypeOK /\ follow \in [Ids -> FollowType] /\ run \in [Ids -> RunType]
      /\ progress \in [Ids -> Progresses] /\ follow[id] \in FollowType
      /\ TakenScope(id) /\ TakenKindMatchesRun(id) /\ FollowOnlyWhenOpen(id)
  BY DEF IInv, TypeOK, ItemOK
<1>2. CASE j # id
  BY <1>1, <1>2, OthersUntouched DEF SameItem, CommentsOf
<1>3. ASSUME QueueStep(id) PROVE CommentsOf(id)
  BY <1>1, <1>3 DEF QueueStep, Approve, Restore, WithoutLease, FollowType, CommentsOf
<1>4. ASSUME StartStep(id) PROVE CommentsOf(id)
  <2>1. ASSUME NEW s \in Sessions, Claim(id, s) PROVE CommentsOf(id)
    BY <1>1, <2>1 DEF Claim, CycleReset, FollowType, CommentsOf
  <2>2. ASSUME NEW s \in Sessions, FixStart(id, s, NextResetsAttempts(id)) PROVE CommentsOf(id)
    <3>1. follow[id].fix # "taken"
      BY <2>2 DEF FixStart
    <3>2. follow'[id].handled = follow[id].handled
      BY <2>2, FixStartKeepsHandled
    <3>. QED
      BY <3>1, <3>2 DEF CommentsOf
  <2>3. ASSUME NEW s \in Sessions, RebaseCycleStart(id, s) PROVE CommentsOf(id)
    BY <1>1, <2>3 DEF RebaseCycleStart, FollowType, CommentsOf
  <2>. QED
    BY <1>4, <2>1, <2>2, <2>3 DEF StartStep
<1>5. ASSUME PhaseStep(id) PROVE CommentsOf(id)
  <2>1. CASE RebaseForgo(id)
    <3>1. follow'[id] \in {follow[id], RebaseGuard(follow[id])}
      BY <1>1, <2>1 DEF RebaseForgo
    <3>. QED
      BY <1>1, <3>1 DEF RebaseGuard, FollowType, CommentsOf
  <2>. QED
    BY <1>5, <2>1 DEF PhaseStep, SetGate, Advance, RebaseDetourStart, CommentsOf
<1>6. ASSUME RunStep(id) PROVE CommentsOf(id)
  BY <1>6 DEF RunStep, PhaseFail, SetWorktree, SetExecutor, TouchExecutor, CommentsOf
<1>7. ASSUME EndStep(id) PROVE CommentsOf(id)
  <2>1. CASE Block(id) \/ Dequeue(id)
    BY <1>1, <2>1, FreshFollows DEF Block, Dequeue, RemoveItem, HasFollow, CommentsOf
  <2>2. ASSUME NEW share \in Shares, Ship(id, share) PROVE CommentsOf(id)
    <3>1. /\ follow'[id] = ShippedFollow(id, share) /\ progress'[id] = "resting"
          /\ progress[id] = "running" /\ run[id].phase = "finalize"
      BY <1>1, <2>2 DEF Ship
    <3>2. ~HasFollow(id) => follow[id].fix # "taken"
      BY <1>1, FreshFollows DEF FollowOnlyWhenOpen
    <3>. QED
      BY <1>1, <3>1, <3>2, ShippedComments DEF CommentsOf, TakenKindMatchesRun
  <2>3. CASE RebaseGiveUp(id)
    BY <1>1, <2>3 DEF RebaseGiveUp, RebaseGuard, FollowType, CommentsOf
  <2>. QED
    BY <1>7, <2>1, <2>2, <2>3 DEF EndStep
<1>8. ASSUME ArtifactStep(id) PROVE CommentsOf(id)
  <2>1. progress[id] = "resting" /\ follow[id].fix # "taken"
    BY <1>1, <1>8 DEF ArtifactStep, Merged, Retire, Withdraw, WithdrawAsked, WithdrawRemove,
       TakenScope
  <2>. QED
    BY <1>1, <1>8, <2>1, FreshFollows DEF ArtifactStep, Merged, Retire, RemoveItem, Withdraw,
       WithdrawAsked, WithdrawRemove, HasFollow, CommentsOf
<1>9. ASSUME FollowStep(id) PROVE CommentsOf(id)
  BY <1>1, <1>9, FollowKeepsRest DEF KeepsRest, TakenScope, CommentsOf
<1>10. ASSUME LedgerStep(id) PROVE CommentsOf(id)
  BY <1>10 DEF LedgerStep, RelistedAdd, RelistedDrop, CleanupResolve, item, CommentsOf
<1>. QED
  BY <1>2, <1>3, <1>4, <1>5, <1>6, <1>7, <1>8, <1>9, <1>10 DEF ItemStep

\* Over the life of a pull request a comment is marked handled by the ship of the run
\* that answered it and by nothing else, and no mark is lost.
THEOREM HandledByShipOnly == Spec => HandledOnlyByShip
<1> DEFINE A == \A id \in Ids : HasFollow(id) /\ HasFollow(id)' =>
       \/ follow'[id].handled = follow[id].handled
       \/ /\ run[id].kind = "pr_fix" /\ run[id].phase = "finalize"
          /\ progress'[id] = "resting"
          /\ follow'[id].handled = follow[id].handled \cup follow[id].fixIds
<1>1. IInv /\ IInv' /\ [Next]_vars => [A]_vars
  <2> SUFFICES ASSUME IInv, IInv', Next, NEW j \in Ids, HasFollow(j), HasFollow(j)'
               PROVE  \/ follow'[j].handled = follow[j].handled
                      \/ /\ run[j].kind = "pr_fix" /\ run[j].phase = "finalize"
                         /\ progress'[j] = "resting"
                         /\ follow'[j].handled = follow[j].handled \cup follow[j].fixIds
    OBVIOUS
  <2>1. CommentsOf(j)
    BY NextIsItemStep, StepSettlesComments
  <2>. QED
    BY <2>1 DEF CommentsOf
<1>. QED
  BY <1>1, Invariance, PTL DEF Spec, HandledOnlyByShip

\* A fix ask that a run has taken is settled: by its comments being handled, by a claim
\* that starts the task over, or with the item.
THEOREM TakenFixSettled == Spec => TakenFixIsSettled
<1> DEFINE A == \A id \in Ids : follow[id].fix = "taken" =>
       \/ follow'[id].fix = "taken" /\ follow'[id].fixIds = follow[id].fixIds
       \/ follow[id].fixIds \subseteq follow'[id].handled /\ progress'[id] = "resting"
       \/ progress[id] = "queued" /\ progress'[id] = "running"
       \/ progress'[id] = "absent"
<1>1. IInv /\ IInv' /\ [Next]_vars => [A]_vars
  BY NextIsItemStep, StepSettlesComments DEF CommentsOf
<1>. QED
  BY <1>1, Invariance, PTL DEF Spec, TakenFixIsSettled

-----------------------------------------------------------------------------
(* The life cycle. *)

\* The derived status of one item that changes is a move of the life cycle.
LEMMA MoveIsMove ==
  ASSUME TypeOK, TypeOK', NEW id \in Ids, NEW s,
         \A j \in Ids \ {id} : DerivedStatus(j)' = DerivedStatus(j),
         session' = [session EXCEPT ![id] = s]
  PROVE  Lifecycle!Move(id, DerivedStatus(id), DerivedStatus(id)', s)
BY DEF Lifecycle!Move

\* The derived status, case by case.
LEMMA Statuses ==
  ASSUME NEW id
  PROVE  /\ progress[id] = "absent" => DerivedStatus(id) = "absent"
         /\ progress[id] = "queued" => DerivedStatus(id) = "approved"
         /\ progress[id] = "running" => DerivedStatus(id) = "in_progress"
         /\ progress[id] = "blocked" => DerivedStatus(id) = "blocked"
         /\ progress[id] = "resting" /\ artifact[id] # "merged" => DerivedStatus(id) = "in_review"
         /\ progress[id] = "resting" /\ artifact[id] = "merged" => DerivedStatus(id) = "done"
BY DEF DerivedStatus, StatusOf

\* The same of the next state.
LEMMA NextStatuses ==
  ASSUME NEW id
  PROVE  /\ progress'[id] = "absent" => DerivedStatus(id)' = "absent"
         /\ progress'[id] = "queued" => DerivedStatus(id)' = "approved"
         /\ progress'[id] = "running" => DerivedStatus(id)' = "in_progress"
         /\ progress'[id] = "blocked" => DerivedStatus(id)' = "blocked"
         /\ progress'[id] = "resting" /\ artifact'[id] # "merged" =>
              DerivedStatus(id)' = "in_review"
         /\ progress'[id] = "resting" /\ artifact'[id] = "merged" => DerivedStatus(id)' = "done"
BY DEF DerivedStatus, StatusOf

\* A step that moves no item, owner or consent is none of the life cycle.
LEMMA NoMove ==
  ASSUME UNCHANGED <<progress, artifact, session, relisted>>
  PROVE  UNCHANGED Lifecycle!vars
BY DEF Lifecycle!vars, DerivedStatus

\* Every verb is a step of the life cycle or none.
LEMMA StepIsLifecycle ==
  ASSUME IInv, IInv', NEW id \in Ids, ItemStep(id)
  PROVE  Lifecycle!Next \/ UNCHANGED Lifecycle!vars
<1>1. /\ TypeOK /\ TypeOK' /\ progress \in [Ids -> Progresses]
      /\ artifact \in [Ids -> ArtifactStates] /\ session \in [Ids -> Sessions \cup {None}]
      /\ MergedImpliesResting(id) /\ FollowOnlyWhenOpen(id)
      /\ progress[id] \in {"absent", "queued", "blocked"} => session[id] = None
  BY DEF IInv, TypeOK, ItemOK
<1>2. \A j \in Ids \ {id} : DerivedStatus(j)' = DerivedStatus(j)
  BY <1>1, OthersUntouched DEF SameItem, DerivedStatus
<1>3. ASSUME NEW s, session' = [session EXCEPT ![id] = s]
      PROVE  Lifecycle!Move(id, DerivedStatus(id), DerivedStatus(id)', s)
  BY <1>1, <1>2, <1>3, MoveIsMove
<1> USE DEF Lifecycle!Next
<1>4. CASE Approve(id)
  <2>1. Lifecycle!Approve(id)
    BY <1>1, <1>3, <1>4, Statuses, NextStatuses DEF Approve, ledgers, Lifecycle!Approve
  <2>. QED
    BY <2>1
<1>5. CASE Restore(id)
  <2>1. Lifecycle!Return(id)
    BY <1>1, <1>3, <1>5, Statuses, NextStatuses DEF Restore, Lifecycle!Return
  <2>. QED
    BY <2>1
<1>6. CASE StartStep(id)
  <2>1. ASSUME NEW s \in Sessions, Claim(id, s) PROVE Lifecycle!Start(id, s)
    BY <1>1, <1>3, <2>1, Statuses, NextStatuses DEF Claim, ledgers, Lifecycle!Start
  <2>2. ASSUME NEW s \in Sessions, FixStart(id, s, NextResetsAttempts(id))
        PROVE  Lifecycle!Start(id, s) \/ Lifecycle!Watch(id, None)
    <3>1. progress[id] = "resting" /\ artifact[id] = "open" /\ UNCHANGED <<artifact, relisted>>
      BY <1>1, <2>2 DEF FixStart, RestsWithFollow, FollowOnlyWhenOpen, ledgers
    <3>2. \/ progress'[id] = "running" /\ session' = [session EXCEPT ![id] = s]
          \/ progress'[id] = "resting" /\ session' = [session EXCEPT ![id] = None]
      BY <1>1, <2>2, <3>1 DEF FixStart
    <3>. QED
      BY <1>3, <3>1, <3>2, Statuses, NextStatuses DEF Lifecycle!Start, Lifecycle!Watch
  <2>3. ASSUME NEW s \in Sessions, RebaseCycleStart(id, s) PROVE Lifecycle!Start(id, s)
    <3>1. /\ progress[id] = "resting" /\ artifact[id] = "open" /\ progress'[id] = "running"
          /\ UNCHANGED relisted
          /\ session' = [session EXCEPT ![id] = s]
      BY <1>1, <2>3 DEF RebaseCycleStart, RestsWithFollow, FollowOnlyWhenOpen, ledgers
    <3>. QED
      BY <1>3, <3>1, Statuses, NextStatuses DEF Lifecycle!Start
  <2>. QED
    BY <1>6, <2>1, <2>2, <2>3 DEF StartStep
<1>7. CASE PhaseStep(id)
  BY <1>7, NoMove DEF PhaseStep, SetGate, Advance, RebaseDetourStart, RebaseForgo, ledgers
<1>8. CASE RunStep(id)
  <2>1. ASSUME NEW agent, NEW s \in Sessions, NEW expect, SetExecutor(id, agent, s, expect)
        PROVE  Lifecycle!TakeOver(id, s)
    BY <1>1, <1>3, <2>1, Statuses, NextStatuses DEF SetExecutor, ledgers, Lifecycle!TakeOver
  <2>2. ASSUME NEW s \in Sessions, TouchExecutor(id, s)
        PROVE  Lifecycle!TakeOver(id, s) \/ UNCHANGED Lifecycle!vars
    <3>1. CASE session[id] = None
      <4>1. session' = [session EXCEPT ![id] = s]
        BY <2>2, <3>1 DEF TouchExecutor
      <4>. QED
        BY <1>1, <1>3, <2>2, <4>1, Statuses, NextStatuses DEF TouchExecutor, ledgers,
           Lifecycle!TakeOver
    <3>2. CASE session[id] # None
      <4>1. session' = session
        BY <1>1, <2>2, <3>2 DEF TouchExecutor
      <4>. QED
        BY <2>2, <4>1, NoMove DEF TouchExecutor, ledgers
    <3>. QED
      BY <3>1, <3>2
  <2>. QED
    BY <1>8, <2>1, <2>2, NoMove DEF RunStep, PhaseFail, SetWorktree, ledgers
<1>9. CASE EndStep(id)
  <2>1. CASE Block(id)
    <3>1. Lifecycle!Block(id)
      BY <1>1, <1>3, <2>1, Statuses, NextStatuses DEF Block, ledgers, Lifecycle!Block
    <3>. QED
      BY <3>1
  <2>2. CASE Dequeue(id)
    <3>1. Lifecycle!Leave(id)
      BY <1>1, <1>3, <2>2, Statuses, NextStatuses DEF Dequeue, RemoveItem, ledgers,
         Lifecycle!Leave
    <3>. QED
      BY <3>1
  <2>3. ASSUME NEW share \in Shares, Ship(id, share) PROVE Lifecycle!Deliver(id)
    <3>1. /\ progress[id] = "running" /\ progress'[id] = "resting" /\ artifact'[id] # "merged"
          /\ UNCHANGED relisted
      BY <1>1, <2>3 DEF Ship, ShippedArtifact, MergedImpliesResting, ledgers
    <3>2. \E s \in {session[id], None} : session' = [session EXCEPT ![id] = s]
      BY <2>3 DEF Ship
    <3>. QED
      BY <1>3, <3>1, <3>2, Statuses, NextStatuses DEF Lifecycle!Deliver
  <2>4. CASE RebaseGiveUp(id)
    <3>1. /\ progress[id] = "running" /\ progress'[id] = "resting" /\ artifact'[id] # "merged"
          /\ UNCHANGED relisted
          /\ session' = [session EXCEPT ![id] = None]
      BY <1>1, <2>4 DEF RebaseGiveUp, MergedImpliesResting, ledgers
    <3>2. Lifecycle!Deliver(id)
      BY <1>3, <3>1, Statuses, NextStatuses DEF Lifecycle!Deliver
    <3>. QED
      BY <3>2
  <2>. QED
    BY <1>9, <2>1, <2>2, <2>3, <2>4 DEF EndStep
<1>10. CASE ArtifactStep(id)
  <2>1. CASE Merged(id)
    <3>1. Lifecycle!Finish(id)
      BY <1>1, <1>3, <2>1, Statuses, NextStatuses DEF Merged, ledgers, Lifecycle!Finish
    <3>. QED
      BY <3>1
  <2>2. CASE Retire(id) \/ WithdrawRemove(id)
    <3>1. Lifecycle!Leave(id)
      BY <1>1, <1>3, <2>2, Statuses, NextStatuses DEF Retire, WithdrawRemove, RemoveItem,
         WithdrawnStates, Lifecycle!Leave
    <3>. QED
      BY <3>1
  <2>3. CASE Withdraw(id)
    <3>1. Lifecycle!Watch(id, None)
      BY <1>1, <1>3, <2>3, Statuses, NextStatuses DEF Withdraw, Lifecycle!Watch
    <3>. QED
      BY <3>1
  <2>4. CASE WithdrawAsked(id)
    <3>1. Lifecycle!Watch(id, session[id])
      BY <1>1, <1>3, <2>4, Statuses, NextStatuses DEF WithdrawAsked, WithdrawnStates, ledgers,
         Lifecycle!Watch
    <3>. QED
      BY <1>1, <3>1
  <2>. QED
    BY <1>10, <2>1, <2>2, <2>3, <2>4 DEF ArtifactStep
<1>11. CASE FollowStep(id)
  <2>1. KeepsRest(id)
    BY <1>11, FollowKeepsRest
  <2>2. CASE session'[id] = session[id]
    <3>1. session' = session
      BY <1>1, <2>1, <2>2 DEF KeepsRest
    <3>. QED
      BY <2>1, <3>1, NoMove DEF KeepsRest
  <2>3. CASE session'[id] # session[id]
    <3>1. Lifecycle!Watch(id, session'[id])
      BY <1>3, <2>1, <2>3, Statuses, NextStatuses DEF KeepsRest, Lifecycle!Watch
    <3>. QED
      BY <2>1, <3>1 DEF KeepsRest
  <2>. QED
    BY <2>2, <2>3
<1>12. CASE LedgerStep(id)
  <2>1. CASE RelistedAdd(id) \/ RelistedDrop(id)
    <3>1. Lifecycle!Consent(id)
      BY <2>1 DEF RelistedAdd, RelistedDrop, item, DerivedStatus, Lifecycle!Consent
    <3>. QED
      BY <3>1
  <2>. QED
    BY <1>12, <2>1, NoMove DEF LedgerStep, CleanupResolve, item
<1>. QED
  BY <1>4, <1>5, <1>6, <1>7, <1>8, <1>9, <1>10, <1>11, <1>12 DEF ItemStep, QueueStep

\* Seen through the derived status, every verb is a step of the life cycle: done is
\* final, and a task comes back only by spending a listing of the tracker.
THEOREM LifecycleImplemented == Spec => ImplementsLifecycle
<1>1. Init => Lifecycle!Init
  BY Statuses DEF Init, Lifecycle!Init
<1>2. IInv /\ IInv' /\ [Next]_vars => [Lifecycle!Next]_Lifecycle!vars
  <2> SUFFICES ASSUME IInv, IInv', [Next]_vars
               PROVE  Lifecycle!Next \/ UNCHANGED Lifecycle!vars
    OBVIOUS
  <2>1. CASE UNCHANGED vars
    BY <2>1, NoMove DEF vars
  <2>. QED
    BY <2>1, NextIsItemStep, StepIsLifecycle
<1>. QED
  BY <1>1, <1>2, Invariance, PTL DEF Spec, ImplementsLifecycle, Lifecycle!Spec

-----------------------------------------------------------------------------
(* The task as the Driver sees it. *)

\* The stages, case by case.
LEMMA Stages ==
  /\ StageOf["absent"] = "absent" /\ StageOf["queued"] = "queued"
  /\ StageOf["running"] = "running"
  /\ StageOf["resting"] = "idle" /\ StageOf["blocked"] = "idle"
BY DEF StageOf

\* What a Driver sees of one item: a step of TaskRun or nothing.
TaskRunStep(id) == UNCHANGED TaskView(id)!task \/ TaskView(id)!Next

\* An item whose own fields stay shows the Driver nothing new.
LEMMA NothingForTheDriver ==
  ASSUME NEW j, UNCHANGED <<progress[j], run[j], worktree[j], outbox[j]>>
  PROVE  UNCHANGED TaskView(j)!task
BY DEF TaskView!task

\* Every verb is a step of TaskRun for its item, or none.
LEMMA StepIsTaskRun ==
  ASSUME StepInv, NEW id \in Ids, ItemStep(id)
  PROVE  TaskRunStep(id)
<1>1. /\ progress \in [Ids -> Progresses] /\ run \in [Ids -> RunType]
      /\ worktree \in [Ids -> BOOLEAN] /\ outbox \in [Ids -> IntentType]
      /\ progress[id] # "running" => run[id] = NoRun
      /\ run[id] \in RunType /\ outbox[id] \in IntentType
  BY DEF StepInv, IInv, TypeOK, NoRunAtRest
<1>2. NoRun.executor = None /\ \A k, g, p : NewRun(k, g, p).executor = None
  BY DEF NoRun, NewRun
<1>3. NoIntent.reason = "none" /\ TaskView(id)!NoIntent = -1
  BY DEF NoIntent, TaskView!NoIntent
<1> USE DEF TaskRunStep, TaskView!Next
<1>4. CASE QueueStep(id)
  <2>1. Approve(id) => TaskView(id)!Approve
    BY <1>1, Stages DEF Approve, ledgers, TaskView!Approve
  <2>2. Restore(id) => TaskView(id)!Restore
    BY <1>1, <1>2, Stages DEF Restore, TaskView!Restore
  <2>. QED
    BY <1>4, <2>1, <2>2 DEF QueueStep
<1>5. CASE StartStep(id)
  <2>1. ASSUME NEW s \in Sessions, Claim(id, s) PROVE TaskView(id)!Claim
    BY <1>1, <1>2, <2>1, Stages DEF Claim, ledgers, TaskView!Claim
  <2>2. ASSUME NEW s \in Sessions, FixStart(id, s, NextResetsAttempts(id)),
               progress'[id] = "running"
        PROVE  TaskView(id)!StartFinishing
    BY <1>1, <1>2, <2>2, Stages DEF FixStart, RestsWithFollow, ledgers,
       TaskView!StartFinishing
  <2>3. ASSUME NEW s \in Sessions, FixStart(id, s, NextResetsAttempts(id)),
               progress'[id] # "running"
        PROVE  UNCHANGED TaskView(id)!task
    BY <1>1, <2>3, NothingForTheDriver DEF FixStart, ledgers
  <2>4. ASSUME NEW s \in Sessions, RebaseCycleStart(id, s)
        PROVE  TaskView(id)!StartFinishing
    BY <1>1, <1>2, <2>4, Stages DEF RebaseCycleStart, RestsWithFollow, ledgers,
       TaskView!StartFinishing
  <2>. QED
    BY <1>5, <2>1, <2>2, <2>3, <2>4 DEF StartStep
<1>6. CASE PhaseStep(id)
  <2>1. run'[id].executor = run[id].executor /\ UNCHANGED <<progress, worktree, outbox>>
    <3>1. CASE SetGate(id)
      BY <1>1, <3>1 DEF SetGate, RunType, ledgers
    <3>2. ASSUME NEW from \in AllPhases, NEW to \in AllPhases, Advance(id, from, to)
          PROVE  run'[id].executor = run[id].executor /\ UNCHANGED <<progress, worktree, outbox>>
      BY <1>1, <3>2 DEF Advance, RunType, ledgers
    <3>3. CASE RebaseDetourStart(id)
      BY <1>1, <3>3 DEF RebaseDetourStart, RunType, ledgers
    <3>4. CASE RebaseForgo(id)
      BY <1>1, <3>4 DEF RebaseForgo, RunType, ledgers
    <3>. QED
      BY <1>6, <3>1, <3>2, <3>3, <3>4 DEF PhaseStep
  <2>. QED
    BY <2>1 DEF TaskView!task
<1>7. CASE RunStep(id)
  <2>1. ASSUME NEW v, PhaseFail(id, run[id].phase, run[id].attempts, v)
        PROVE  UNCHANGED TaskView(id)!task
    <3>1. run'[id].executor = run[id].executor /\ UNCHANGED <<progress, worktree, outbox>>
      BY <1>1, <2>1 DEF PhaseFail, RunType, ledgers
    <3>. QED
      BY <3>1 DEF TaskView!task
  <2>2. ASSUME NEW drop, SetWorktree(id, drop) PROVE TaskView(id)!SetWorktree
    BY <1>1, <2>2, Stages DEF SetWorktree, TaskView!SetWorktree
  <2>3. ASSUME NEW a \in Agents, NEW s, SetExecutor(id, a, s, run[id].executor)
        PROVE  TaskView(id)!SetExecutor(a, run[id].executor)
    <3>1. run'[id].executor = a
      BY <1>1, <2>3 DEF SetExecutor, RunType
    <3>. QED
      BY <1>1, <2>3, <3>1, Stages DEF SetExecutor, ledgers, TaskView!SetExecutor
  <2>4. ASSUME NEW s, TouchExecutor(id, s) PROVE UNCHANGED TaskView(id)!task
    BY <2>4, NothingForTheDriver DEF TouchExecutor, ledgers
  <2>. QED
    BY <1>7, <2>1, <2>2, <2>3, <2>4 DEF RunStep
<1>8. CASE EndStep(id)
  <2>1. Block(id) \/ RebaseGiveUp(id) => TaskView(id)!EndRun
    BY <1>1, <1>2, Stages DEF Block, RebaseGiveUp, ledgers, TaskView!EndRun
  <2>2. ASSUME NEW share \in Shares, Ship(id, share) PROVE TaskView(id)!EndRun
    BY <1>1, <1>2, <2>2, Stages DEF Ship, ledgers, TaskView!EndRun
  <2>3. Dequeue(id) => TaskView(id)!Drop
    BY <1>1, <1>2, Stages DEF Dequeue, RemoveItem, ledgers, TaskView!Drop, TaskView!Leave
  <2>. QED
    BY <1>8, <2>1, <2>2, <2>3 DEF EndStep
<1>9. CASE ArtifactStep(id)
  <2>1. Merged(id) \/ WithdrawAsked(id) => UNCHANGED TaskView(id)!task
    BY NothingForTheDriver DEF Merged, WithdrawAsked, ledgers
  <2>2. ASSUME NEW reason \in {"retire", "withdraw"}, outbox' = AppendCleanupIntent(id, reason)
        PROVE  (IF outbox[id].reason = "none" THEN -1 ELSE outbox[id].attempts)'
                 = TaskView(id)!RequestedIntent
    BY <1>1, <1>3, <2>2 DEF AppendCleanupIntent, IntentType, TaskView!RequestedIntent
  <2>3. Retire(id) => TaskView(id)!Retire
    BY <1>1, <1>2, <2>2, Stages DEF Retire, RemoveItem, TaskView!Retire, TaskView!Leave
  <2>4. Withdraw(id) => TaskView(id)!Withdraw
    BY <1>1, <2>2, Stages DEF Withdraw, TaskView!Withdraw
  <2>5. WithdrawRemove(id) => TaskView(id)!Drop
    BY <1>1, <1>2, Stages DEF WithdrawRemove, RemoveItem, TaskView!Drop, TaskView!Leave
  <2>. QED
    BY <1>9, <2>1, <2>3, <2>4, <2>5 DEF ArtifactStep
<1>10. CASE FollowStep(id)
  BY <1>10, FollowKeepsRest, NothingForTheDriver DEF StepInv, KeepsRest
<1>11. CASE LedgerStep(id)
  <2>1. RelistedAdd(id) \/ RelistedDrop(id) => UNCHANGED TaskView(id)!task
    BY NothingForTheDriver DEF RelistedAdd, RelistedDrop, item
  <2>2. ASSUME NEW ok \in BOOLEAN, CleanupResolve(id, ok),
               outbox[id].attempts < CleanupMaxAttempts
        PROVE  /\ TaskView(id)!CleanupResolve(ok)
               /\ (IF outbox[id].reason = "none" THEN -1 ELSE outbox[id].attempts)
                    < CleanupMaxAttempts
    BY <1>1, <1>3, <2>2 DEF CleanupResolve, item, IntentType, TaskView!CleanupResolve
  <2>. QED
    BY <1>11, <2>1, <2>2 DEF LedgerStep
<1>. QED
  BY <1>4, <1>5, <1>6, <1>7, <1>8, <1>9, <1>10, <1>11 DEF ItemStep

\* What the Driver relies on holds of every task of the queue, whatever the others do.
THEOREM TaskRunImplemented == Spec => ImplementsTaskRun
<1>1. Init => \A id \in Ids : TaskView(id)!Init
  BY Stages DEF Init, NoRun, NoIntent, TaskView!Init, TaskView!NoIntent
<1>2. StepInv /\ [Next]_vars =>
        [\A id \in Ids : UNCHANGED TaskView(id)!task \/ TaskView(id)!Next]_vars
  <2> SUFFICES ASSUME StepInv, Next, NEW j \in Ids PROVE TaskRunStep(j)
    BY DEF TaskRunStep
  <2>1. PICK id \in Ids : ItemStep(id)
    BY NextIsItemStep
  <2>2. CASE j = id
    BY <2>1, <2>2, StepIsTaskRun
  <2>3. CASE j # id
    BY <2>1, <2>3, OthersUntouched, NothingForTheDriver DEF StepInv, IInv, SameItem,
       TaskRunStep
  <2>. QED
    BY <2>2, <2>3
<1>. QED
  BY <1>1, <1>2, StepInvariance, PTL DEF Spec, ImplementsTaskRun

-----------------------------------------------------------------------------
(* The run as the verification gate sees it. *)

\* What the gate sees of a run: its node and its round.
NodeOf(r) == [kind |-> r.kind, gate |-> r.gate, phase |-> r.phase, attempts |-> r.attempts]

\* The nodes of all runs, and what moving one makes of it.
NodeType == [kind : Kinds \cup {"none"}, gate : Gates, phase : AllPhases \cup {"none"},
             attempts : Nat]

\* What the verbs make of a run, as the gate sees it.
LEMMA NodeMoves ==
  ASSUME NEW m \in NodeType, NEW p, NEW n
  PROVE  /\ [m EXCEPT !.phase = p, !.attempts = n]
              = [kind |-> m.kind, gate |-> m.gate, phase |-> p, attempts |-> n]
         /\ [m EXCEPT !.gate = "light", !.phase = "research+plan", !.attempts = 0]
              = [kind |-> m.kind, gate |-> "light", phase |-> "research+plan",
                 attempts |-> 0]
<1>1. PICK s, t : /\ s = [m EXCEPT !.phase = p, !.attempts = n]
                  /\ t = [m EXCEPT !.gate = "light", !.phase = "research+plan",
                                    !.attempts = 0]
  OBVIOUS
<1>2. s = [kind |-> m.kind, gate |-> m.gate, phase |-> p, attempts |-> n]
  BY <1>1 DEF NodeType
<1>3. t = [kind |-> m.kind, gate |-> "light", phase |-> "research+plan", attempts |-> 0]
  BY <1>1 DEF NodeType
<1>. QED
  BY <1>1, <1>2, <1>3

\* The run of an item has the type of a run of the gate.
LEMMA NodeTyped == ASSUME NEW r \in RunType PROVE NodeOf(r) \in NodeType
BY DEF NodeOf, NodeType, RunType

\* What the gate sees of one item: a step of GateRun or nothing.
GateRunStep(id) == UNCHANGED GateView(id)!gateRun \/ GateView(id)!RunNext

\* An item whose node and round stay shows the gate nothing new.
LEMMA NothingForTheGate ==
  ASSUME NEW j, NodeOf(run'[j]) = NodeOf(run[j])
  PROVE  GateRunStep(j)
BY DEF NodeOf, GateRunStep, GateView!gateRun

\* Where a run begins.
LEMMA FirstNodes ==
  /\ MainSequence("initial", "full")[1] = "research"
  /\ MainSequence("pr_fix", "none")[1] = "pr_fix"
  /\ MainSequence("rebase_fix", "none")[1] = "rebase_fix"
  /\ GateMatchesKind("initial", "full") /\ GateMatchesKind("pr_fix", "none")
  /\ GateMatchesKind("rebase_fix", "none")
BY DEF MainSequence, MainSequences, GateMatchesKind

\* GateRun draws its nodes and edges from the same tables.
LEMMA SamePhases ==
  ASSUME NEW id
  PROVE  /\ GateView(id)!Kinds = Kinds /\ GateView(id)!AllPhases = AllPhases
         /\ \A k, g : GateView(id)!GateMatchesKind(k, g) <=> GateMatchesKind(k, g)
         /\ \A k, g : GateView(id)!MainSequence(k, g) = MainSequence(k, g)
         /\ \A k, g, from, to :
              GateView(id)!IsAdvanceEdge(k, g, from, to) <=> IsAdvanceEdge(k, g, from, to)
BY DEF Kinds, AllPhases, GateMatchesKind, MainSequence, MainSequences, IsAdvanceEdge,
       GateView!Kinds, GateView!AllPhases, GateView!GateMatchesKind, GateView!MainSequence,
       GateView!MainSequences, GateView!IsAdvanceEdge

\* Every verb is a step of GateRun for its item, or none.
LEMMA StepIsGateRun ==
  ASSUME StepInv, NEW id \in Ids, ItemStep(id)
  PROVE  GateRunStep(id)
<1>1. /\ progress \in [Ids -> Progresses] /\ run \in [Ids -> RunType]
      /\ progress[id] # "running" => run[id] = NoRun
      /\ progress[id] = "running" => run[id].kind # "none"
      /\ run[id] \in RunType
  BY DEF StepInv, IInv, TypeOK, NoRunAtRest, ItemOK, RunProgressConsistent
<1>2. NodeOf(NoRun) = GateView(id)!NoRun
  BY DEF NodeOf, NoRun, GateView!NoRun
<1>3. \A k, g, p : NodeOf(NewRun(k, g, p)) = [kind |-> k, gate |-> g, phase |-> p, attempts |-> 0]
  BY DEF NodeOf, NewRun
<1> USE DEF GateRunStep, GateView!RunNext
<1>4. ASSUME progress[id] = "running", run'[id] = NoRun PROVE GateRunStep(id)
  <2>1. GateView(id)!EndRun
    BY <1>1, <1>2, <1>4 DEF NodeOf, GateView!EndRun, GateView!NoRun
  <2>. QED
    BY <2>1
<1>5. ASSUME progress[id] # "running", NEW k \in Kinds, NEW g \in {"full", "none"},
             GateMatchesKind(k, g), run'[id] = NewRun(k, g, MainSequence(k, g)[1])
      PROVE  GateRunStep(id)
  <2>1. NodeOf(run[id]) = GateView(id)!NoRun
    BY <1>1, <1>2, <1>5
  <2>2. NodeOf(run'[id]) = [kind |-> k, gate |-> g, phase |-> MainSequence(k, g)[1],
                            attempts |-> 0]
    BY <1>3, <1>5
  <2>3. GateView(id)!StartRun(k, g)
    BY <1>5, <2>1, <2>2, SamePhases DEF NodeOf, GateView!StartRun
  <2>. QED
    BY <2>3, <1>5, SamePhases
<1>6. CASE QueueStep(id)
  BY <1>1, <1>6, NothingForTheGate DEF QueueStep, Approve, Restore
<1>7. CASE StartStep(id)
  <2>1. {"initial", "pr_fix", "rebase_fix"} \subseteq Kinds
    BY Words
  <2>2. ASSUME NEW s \in Sessions, Claim(id, s) PROVE GateRunStep(id)
    BY <1>1, <1>5, <2>1, <2>2, FirstNodes DEF Claim
  <2>3. ASSUME NEW s \in Sessions, FixStart(id, s, NextResetsAttempts(id)) PROVE GateRunStep(id)
    <3>1. run' = run \/ run'[id] = NewRun("pr_fix", "none", "pr_fix")
      BY <1>1, <2>3 DEF FixStart
    <3>2. progress[id] # "running"
      BY <2>3 DEF FixStart, RestsWithFollow
    <3>. QED
      BY <1>5, <2>1, <3>1, <3>2, FirstNodes, NothingForTheGate
  <2>4. ASSUME NEW s \in Sessions, RebaseCycleStart(id, s) PROVE GateRunStep(id)
    BY <1>1, <1>5, <2>1, <2>4, FirstNodes DEF RebaseCycleStart, RestsWithFollow
  <2>. QED
    BY <1>7, <2>2, <2>3, <2>4 DEF StartStep
<1>8. CASE PhaseStep(id)
  <2>0. NodeOf(run[id]) \in NodeType
    BY <1>1, NodeTyped
  <2>1. ASSUME SetGate(id)
        PROVE  GateView(id)!ShortenGate
    <3>1. /\ run'[id].kind = run[id].kind /\ run'[id].gate = "light"
          /\ run'[id].phase = "research+plan" /\ run'[id].attempts = 0
      BY <1>1, <2>1 DEF SetGate, RunType
    <3>2. NodeOf(run'[id]) = [kind |-> NodeOf(run[id]).kind, gate |-> "light",
                              phase |-> "research+plan", attempts |-> 0]
      BY <3>1 DEF NodeOf
    <3>3. NodeOf(run'[id]) = [NodeOf(run[id]) EXCEPT !.gate = "light",
                                !.phase = "research+plan", !.attempts = 0]
      BY <2>0, <3>2, NodeMoves
    <3>. QED
      BY <2>1, <3>3, SamePhases DEF SetGate, NodeOf, GateView!ShortenGate
  <2>2. ASSUME NEW from \in AllPhases, NEW to \in AllPhases, Advance(id, from, to)
        PROVE  GateView(id)!Advance(from, to)
    <3>1. /\ run'[id].kind = run[id].kind /\ run'[id].gate = run[id].gate
          /\ run'[id].phase = to /\ run'[id].attempts = 0
      BY <1>1, <2>2 DEF Advance, RunType
    <3>2. NodeOf(run'[id]) = [kind |-> NodeOf(run[id]).kind, gate |-> NodeOf(run[id]).gate,
                              phase |-> to, attempts |-> 0]
      BY <3>1 DEF NodeOf
    <3>3. NodeOf(run'[id]) = [NodeOf(run[id]) EXCEPT !.phase = to, !.attempts = 0]
      BY <2>0, <3>2, NodeMoves
    <3>. QED
      BY <2>2, <3>3, SamePhases DEF Advance, NodeOf, GateView!Advance
  <2>3. ASSUME RebaseDetourStart(id)
        PROVE  GateView(id)!Detour
    <3>1. /\ run'[id].kind = run[id].kind /\ run'[id].gate = run[id].gate
          /\ run'[id].phase = "rebase_fix" /\ run'[id].attempts = 0
      BY <1>1, <2>3 DEF RebaseDetourStart, RunType
    <3>2. NodeOf(run'[id]) = [kind |-> NodeOf(run[id]).kind, gate |-> NodeOf(run[id]).gate,
                              phase |-> "rebase_fix", attempts |-> 0]
      BY <3>1 DEF NodeOf
    <3>3. NodeOf(run'[id]) = [NodeOf(run[id]) EXCEPT !.phase = "rebase_fix", !.attempts = 0]
      BY <2>0, <3>2, NodeMoves
    <3>. QED
      BY <2>3, <3>3, SamePhases DEF RebaseDetourStart, NodeOf, GateView!Detour
  <2>4. ASSUME RebaseForgo(id)
        PROVE  GateView(id)!Forgo
    <3>1. /\ run'[id].kind = run[id].kind /\ run'[id].gate = run[id].gate
          /\ run'[id].phase = "finalize" /\ run'[id].attempts = 0
      BY <1>1, <2>4 DEF RebaseForgo, RunType
    <3>2. NodeOf(run'[id]) = [kind |-> NodeOf(run[id]).kind, gate |-> NodeOf(run[id]).gate,
                              phase |-> "finalize", attempts |-> 0]
      BY <3>1 DEF NodeOf
    <3>3. NodeOf(run'[id]) = [NodeOf(run[id]) EXCEPT !.phase = "finalize", !.attempts = 0]
      BY <2>0, <3>2, NodeMoves
    <3>. QED
      BY <2>4, <3>3, SamePhases DEF RebaseForgo, NodeOf, GateView!Forgo
  <2>. QED
    BY <1>8, <2>1, <2>2, <2>3, <2>4, SamePhases DEF PhaseStep
<1>9. CASE RunStep(id)
  <2>1. ASSUME NEW v, PhaseFail(id, run[id].phase, run[id].attempts, v)
        PROVE  GateRunStep(id)
    <3>1. /\ GateView(id)!PhaseFail(run[id].phase, run[id].attempts)
      BY <1>1, <2>1 DEF PhaseFail, RunType, GateView!PhaseFail
    <3>2. run[id].phase \in AllPhases
      BY <1>1, <2>1, RunNodes DEF PhaseFail, StepInv, IInv, ItemOK, RunNodeLegal, AllPhases
    <3>3. \E from \in GateView(id)!AllPhases : GateView(id)!PhaseFail(from, run[id].attempts)
      BY <3>1, <3>2, SamePhases
    <3>. QED
      BY <3>3
  <2>2. ASSUME NEW drop, SetWorktree(id, drop) PROVE GateRunStep(id)
    BY <2>2, NothingForTheGate DEF SetWorktree
  <2>3. ASSUME NEW a \in Agents, NEW s, SetExecutor(id, a, s, run[id].executor)
        PROVE  GateRunStep(id)
    <3>1. NodeOf(run'[id]) = NodeOf(run[id])
      BY <1>1, <2>3 DEF SetExecutor, RunType, NodeOf
    <3>. QED
      BY <3>1, NothingForTheGate
  <2>4. ASSUME NEW s, TouchExecutor(id, s) PROVE GateRunStep(id)
    BY <2>4, NothingForTheGate DEF TouchExecutor
  <2>. QED
    BY <1>9, <2>1, <2>2, <2>3, <2>4 DEF RunStep
<1>10. CASE EndStep(id)
  BY <1>1, <1>4, <1>10 DEF EndStep, Block, Dequeue, RemoveItem, Ship, RebaseGiveUp
<1>11. CASE ArtifactStep(id)
  BY <1>1, <1>11, NothingForTheGate DEF ArtifactStep, Merged, Retire, RemoveItem, Withdraw,
     WithdrawAsked, WithdrawRemove
<1>12. CASE FollowStep(id)
  BY <1>12, FollowKeepsRest, NothingForTheGate DEF StepInv, KeepsRest
<1>13. CASE LedgerStep(id)
  BY <1>13, NothingForTheGate DEF LedgerStep, RelistedAdd, RelistedDrop, CleanupResolve, item
<1>. QED
  BY <1>6, <1>7, <1>8, <1>9, <1>10, <1>11, <1>12, <1>13 DEF ItemStep

\* The run of every task of the queue is one of GateRun: the phase and the round move by
\* its verbs only, each of them one step.
THEOREM GateRunImplemented == Spec => ImplementsGateRun
<1>1. Init => \A id \in Ids : GateView(id)!RunInit
  BY DEF Init, NoRun, GateView!RunInit, GateView!NoRun
<1>2. StepInv /\ [Next]_vars =>
        [\A id \in Ids : UNCHANGED GateView(id)!gateRun \/ GateView(id)!RunNext]_vars
  <2> SUFFICES ASSUME StepInv, Next, NEW j \in Ids PROVE GateRunStep(j)
    BY DEF GateRunStep
  <2>1. PICK id \in Ids : ItemStep(id)
    BY NextIsItemStep
  <2>2. CASE j = id
    BY <2>1, <2>2, StepIsGateRun
  <2>3. CASE j # id
    BY <2>1, <2>3, OthersUntouched, NothingForTheGate DEF StepInv, IInv, SameItem
  <2>. QED
    BY <2>2, <2>3
<1>. QED
  BY <1>1, <1>2, StepInvariance, PTL DEF Spec, ImplementsGateRun

-----------------------------------------------------------------------------
(* TaskQueueHistory: what the runs of an item have behind them. *)

\* The judgements a run that stands at a phase has still before it.
StillAhead(phase) ==
  CASE phase = "research" -> {"research", "plan", "implement", "report"}
    [] phase = "plan" -> {"plan", "implement", "report"}
    [] phase = "research+plan" -> {"research+plan", "implement", "report"}
    [] phase = "implement" -> {"implement", "report"}
    [] phase = "report" -> {"report"}
    [] phase = "pr_fix" -> {"pr_fix"}
    [] phase = "rebase_fix" -> {"rebase_fix"}
    [] OTHER -> {}

\* A run owes no phase that lies behind it.
OwesAheadOnly(j) == progress[j] = "running" => owed[j] \subseteq StillAhead(run[j].phase)

\* The fix runs since a human had a say are among those the follow counts, and
\* there is none where its count has passed the limit, or is yet to begin.
RunsAreCounted(j) ==
  /\ fixRuns[j] <= FixAttemptLimit
  /\ progress[j] = "running" /\ ~HasFollow(j) => fixRuns[j] = 0
  /\ progress[j] \in {"running", "resting"} /\ follow[j].attention = "auto" =>
       IF follow[j].fixAttempts > FixAttemptLimit THEN fixRuns[j] = 0
       ELSE fixRuns[j] <= follow[j].fixAttempts

HistoryOK ==
  /\ owed \in [Ids -> SUBSET AllPhases] /\ fixRuns \in [Ids -> Nat]
  /\ \A j \in Ids : OwesAheadOnly(j) /\ RunsAreCounted(j)

\* The records of the past restrict no step.
LEMMA HistoryAddsNothing ==
  ASSUME NEW id \in Ids, HStart(id) \/ HPhase(id) \/ HEnd(id) \/ HFollow(id) \/ HOther(id)
  PROVE  ItemStep(id)
BY DEF HStart, HPhase, HEnd, HFollow, HOther, ItemStep, StartStep, PhaseStep

\* The history only watches.
LEMMA HistoryIsQueue == HSpec => Spec
<1>1. HInit => Init
  BY DEF HInit
<1>2. [HNext]_<<vars, hvars>> => [Next]_vars
  BY HistoryAddsNothing, NextIsItemStep DEF HNext
<1>. QED
  BY <1>1, <1>2, PTL DEF HSpec, Spec

\* A pass leads to a phase that has the rest of the judgements before it.
LEMMA EdgePaysOne ==
  ASSUME NEW k, NEW g, NEW from, NEW to,
         IsLegalRunNode(k, g, from), IsAdvanceEdge(k, g, from, to)
  PROVE  StillAhead(from) \ {from} \subseteq StillAhead(to)
<1>. USE RunNodes DEF IsAdvanceEdge, MainSequence, MainSequences, StillAhead
<1>1. CASE k = "initial" /\ g = "full"
  BY <1>1
<1>2. CASE k = "initial" /\ g = "light"
  BY <1>2
<1>3. CASE k = "pr_fix"
  BY <1>3
<1>4. CASE k = "rebase_fix"
  BY <1>4
<1>. QED
  BY <1>1, <1>2, <1>3, <1>4

\* An engagement begins with every judgement of its axis before it.
LEMMA AxesBefore ==
  /\ JudgedPhases("initial", "full") = StillAhead("research")
  /\ JudgedPhases("initial", "light") = StillAhead("research+plan")
  /\ JudgedPhases("pr_fix", "none") = StillAhead("pr_fix")
  /\ JudgedPhases("rebase_fix", "none") = StillAhead("rebase_fix")
BY DEF JudgedPhases, MainSequence, MainSequences, StillAhead

\* What a run has ahead of it are phases.
LEMMA AheadArePhases == \A p \in AllPhases : StillAhead(p) \subseteq AllPhases
BY DEF StillAhead, AllPhases

\* A verb of the follow leaves the count, and who may touch the task only changes
\* into the hands of a human or back.
LEMMA FollowKeepsCount ==
  ASSUME IInv, NEW id \in Ids, FollowStep(id)
  PROVE  /\ follow'[id].fixAttempts = follow[id].fixAttempts
         /\ \/ follow'[id].attention = follow[id].attention
            \/ follow'[id].attention \in HumanReasons
            \/ follow[id].attention \in HumanReasons /\ follow'[id].attention = "auto"
<1>1. /\ follow[id] \in FollowType /\ follow \in [Ids -> FollowType]
  BY DEF IInv, TypeOK
<1> USE <1>1 DEF FollowType
<1>2. ASSUME NEW ids \in SUBSET Comments, FixRequest(id, ids)
      PROVE  UNCHANGED <<follow[id].fixAttempts, follow[id].attention>>
  BY <1>2 DEF FixRequest
<1>3. ASSUME NEW resolve, RebaseRequest(id, resolve)
      PROVE  UNCHANGED <<follow[id].fixAttempts, follow[id].attention>>
  BY <1>3 DEF RebaseRequest
<1>4. RebaseApplied(id) => UNCHANGED <<follow[id].fixAttempts, follow[id].attention>>
  BY DEF RebaseApplied
<1>5. ASSUME NEW s, ProbeRun(id, s)
      PROVE  UNCHANGED <<follow[id].fixAttempts, follow[id].attention>>
  BY <1>5 DEF ProbeRun
<1>6. ProbeExit(id) => UNCHANGED <<follow[id].fixAttempts, follow[id].attention>>
  BY DEF ProbeExit
<1>7. Release(id) => UNCHANGED <<follow[id].fixAttempts, follow[id].attention>>
  BY DEF Release, WithoutLease
<1>8. ASSUME NEW outcome, Observe(id, outcome)
      PROVE  /\ follow'[id].fixAttempts = follow[id].fixAttempts
             /\ \/ follow'[id].attention = follow[id].attention
                \/ follow'[id].attention \in HumanReasons
  <2>. DEFINE errors == ObservedErrors(follow[id].errors, outcome)
  <2>1. \/ follow' = [follow EXCEPT ![id] = [follow[id] EXCEPT
                        !.errors = errors, !.attention = "errors", !.lease = FALSE]]
        \/ follow' = [follow EXCEPT ![id] = [follow[id] EXCEPT !.errors = errors]]
    BY <1>8 DEF Observe
  <2>. HIDE DEF errors
  <2>2. "errors" \in HumanReasons
    BY Words
  <2>3. CASE follow' = [follow EXCEPT ![id] = [follow[id] EXCEPT
                         !.errors = errors, !.attention = "errors", !.lease = FALSE]]
    BY <2>2, <2>3
  <2>4. CASE follow' = [follow EXCEPT ![id] = [follow[id] EXCEPT !.errors = errors]]
    BY <2>4
  <2>. QED
    BY <2>1, <2>3, <2>4
<1>9. ASSUME AttentionAuto(id)
      PROVE  /\ follow'[id].fixAttempts = follow[id].fixAttempts
             /\ \/ follow'[id].attention = follow[id].attention
                \/ follow[id].attention \in HumanReasons /\ follow'[id].attention = "auto"
  BY <1>9 DEF AttentionAuto, RestsWithFollow, HasFollow
<1>10. ASSUME NEW reason \in HumanReasons, AttentionHuman(id, reason)
       PROVE  /\ follow'[id].fixAttempts = follow[id].fixAttempts
              /\ follow'[id].attention \in HumanReasons
  BY <1>10 DEF AttentionHuman
<1>. QED
  BY <1>2, <1>3, <1>4, <1>5, <1>6, <1>7, <1>8, <1>9, <1>10 DEF FollowStep

\* A step changes the records of its own item only, and keeps their types.
RecordsOf(id) ==
  /\ owed' \in [Ids -> SUBSET AllPhases] /\ fixRuns' \in [Ids -> Nat]
  /\ \A j \in Ids \ {id} : owed'[j] = owed[j] /\ fixRuns'[j] = fixRuns[j]

\* What the step leaves right for its own item, it leaves right for all.
LEMMA HistoryOfOne ==
  ASSUME IInv, HistoryOK, NEW id \in Ids, ItemStep(id), RecordsOf(id),
         OwesAheadOnly(id)', RunsAreCounted(id)'
  PROVE  HistoryOK'
<1> SUFFICES ASSUME NEW j \in Ids \ {id} PROVE OwesAheadOnly(j)' /\ RunsAreCounted(j)'
  BY DEF HistoryOK, RecordsOf
<1>1. SameItem(j) /\ owed'[j] = owed[j] /\ fixRuns'[j] = fixRuns[j]
  BY OthersUntouched DEF IInv, RecordsOf
<1>2. OwesAheadOnly(j) /\ RunsAreCounted(j)
  BY DEF HistoryOK
<1>. QED
  BY <1>1, <1>2 DEF SameItem, OwesAheadOnly, RunsAreCounted, HasFollow

\* claim, fix-start and rebase-start.
LEMMA StartKeepsHistory ==
  ASSUME IInv, HistoryOK, NEW id \in Ids, HStart(id)
  PROVE  RecordsOf(id) /\ OwesAheadOnly(id)' /\ RunsAreCounted(id)'
<1>1. /\ progress \in [Ids -> Progresses] /\ run \in [Ids -> RunType]
      /\ follow \in [Ids -> FollowType] /\ follow[id] \in FollowType
      /\ FollowOnlyWhenOpen(id) /\ FixAttemptLimit \in Nat \ {0}
  BY LimitAssumption DEF IInv, TypeOK, ItemOK
<1>2. /\ owed \in [Ids -> SUBSET AllPhases] /\ fixRuns \in [Ids -> Nat]
      /\ fixRuns[id] \in Nat /\ RunsAreCounted(id) /\ OwesAheadOnly(id)
  BY DEF HistoryOK
<1>3. \A k, g, p : NewRun(k, g, p).phase = p
  BY DEF NewRun
<1>4. /\ StillAhead("research") \subseteq AllPhases /\ StillAhead("pr_fix") \subseteq AllPhases
      /\ StillAhead("rebase_fix") \subseteq AllPhases
  BY Words, AheadArePhases
<1>5. ASSUME NEW s \in Sessions, Claim(id, s),
             owed' = [owed EXCEPT ![id] = JudgedPhases("initial", "full")],
             fixRuns' = [fixRuns EXCEPT ![id] = 0]
      PROVE  RecordsOf(id) /\ OwesAheadOnly(id)' /\ RunsAreCounted(id)'
  <2>1. run'[id].phase = "research" /\ follow'[id] = CycleReset(follow[id])
    BY <1>1, <1>3, <1>5 DEF Claim
  <2>2. CycleReset(follow[id]).fixAttempts \in Nat
    BY <1>1 DEF CycleReset, FollowType
  <2>3. owed'[id] = StillAhead("research") /\ fixRuns'[id] = 0 /\ RecordsOf(id)
    BY <1>2, <1>4, <1>5, AxesBefore DEF RecordsOf
  <2>. QED
    BY <1>1, <2>1, <2>2, <2>3 DEF OwesAheadOnly, RunsAreCounted
<1>6. ASSUME NEW s \in Sessions, FixStart(id, s, NextResetsAttempts(id)),
             FixAttempts(id, NextResetsAttempts(id)) <= FixAttemptLimit,
             owed' = [owed EXCEPT ![id] = JudgedPhases("pr_fix", "none")],
             fixRuns' = [fixRuns EXCEPT ![id] = @ + 1]
      PROVE  RecordsOf(id) /\ OwesAheadOnly(id)' /\ RunsAreCounted(id)'
  <2> DEFINE n == FixAttempts(id, NextResetsAttempts(id))
  <2>1. /\ progress[id] = "resting" /\ follow[id].attention = "auto"
        /\ run' = [run EXCEPT ![id] = NewRun("pr_fix", "none", "pr_fix")]
        /\ follow' = [follow EXCEPT ![id] = [follow[id] EXCEPT
                        !.fix = "taken", !.lease = FALSE, !.fixAttempts = n]]
    BY <1>6 DEF FixStart, RestsWithFollow
  <2>2. fixRuns[id] + 1 <= n
    BY <1>1, <1>2, <2>1 DEF FixAttempts, NextResetsAttempts, RunsAreCounted, FollowType
  <2>3. n \in Nat /\ n <= FixAttemptLimit
    BY <1>6, FixAttemptsPositive DEF IInv
  <2> HIDE DEF n
  <2>4. run'[id].phase = "pr_fix"
    BY <1>1, <1>3, <2>1
  <2>5. follow'[id].fixAttempts = n /\ follow'[id].attention = "auto"
    BY <1>1, <2>1 DEF FollowType
  <2>6. owed'[id] = StillAhead("pr_fix") /\ fixRuns'[id] = fixRuns[id] + 1 /\ RecordsOf(id)
    BY <1>2, <1>4, <1>6, AxesBefore DEF RecordsOf
  <2>. QED
    BY <1>1, <1>2, <2>2, <2>3, <2>4, <2>5, <2>6 DEF OwesAheadOnly, RunsAreCounted, HasFollow
<1>7. ASSUME NEW s \in Sessions, FixStart(id, s, NextResetsAttempts(id)),
             ~(FixAttempts(id, NextResetsAttempts(id)) <= FixAttemptLimit), UNCHANGED hvars
      PROVE  RecordsOf(id) /\ OwesAheadOnly(id)' /\ RunsAreCounted(id)'
  <2> DEFINE n == FixAttempts(id, NextResetsAttempts(id))
  <2>1. /\ progress[id] = "resting" /\ UNCHANGED <<progress, run>>
        /\ follow' = [follow EXCEPT ![id] = [follow[id] EXCEPT
                        !.attention = "fix_limit", !.lease = FALSE, !.fixAttempts = n]]
    BY <1>7 DEF FixStart, RestsWithFollow
  <2> HIDE DEF n
  <2>2. follow'[id].attention = "fix_limit"
    BY <1>1, <2>1 DEF FollowType
  <2>. QED
    BY <1>2, <1>7, <2>1, <2>2 DEF hvars, RecordsOf, OwesAheadOnly, RunsAreCounted
<1>8. ASSUME NEW s \in Sessions, RebaseCycleStart(id, s),
             owed' = [owed EXCEPT ![id] = JudgedPhases("rebase_fix", "none")],
             UNCHANGED fixRuns
      PROVE  RecordsOf(id) /\ OwesAheadOnly(id)' /\ RunsAreCounted(id)'
  <2>1. /\ run'[id].phase = "rebase_fix" /\ progress[id] = "resting"
        /\ follow[id].attention = "auto"
    BY <1>1, <1>3, <1>8 DEF RebaseCycleStart, RestsWithFollow
  <2>2. UNCHANGED <<follow[id].fixAttempts, follow[id].attention>>
    BY <1>1, <1>8 DEF RebaseCycleStart, FollowType
  <2>3. owed'[id] = StillAhead("rebase_fix") /\ RecordsOf(id)
    BY <1>2, <1>4, <1>8, AxesBefore DEF RecordsOf
  <2>. QED
    BY <1>2, <1>8, <2>1, <2>2, <2>3 DEF OwesAheadOnly, RunsAreCounted, HasFollow
<1>9. ASSUME NEW s \in Sessions, FixStart(id, s, NextResetsAttempts(id))
      PROVE  progress'[id] = "running"
               <=> FixAttempts(id, NextResetsAttempts(id)) <= FixAttemptLimit
  BY <1>1, <1>9 DEF FixStart, RestsWithFollow
<1>. QED
  BY <1>5, <1>6, <1>7, <1>8, <1>9 DEF HStart

\* set-gate, advance, rebase-start and rebase-forgo.
LEMMA PhaseKeepsHistory ==
  ASSUME IInv, HistoryOK, NEW id \in Ids, HPhase(id)
  PROVE  RecordsOf(id) /\ OwesAheadOnly(id)' /\ RunsAreCounted(id)'
<1>1. /\ progress \in [Ids -> Progresses] /\ run \in [Ids -> RunType]
      /\ follow \in [Ids -> FollowType] /\ run[id] \in RunType
      /\ follow[id] \in FollowType /\ RunNodeLegal(id) /\ FollowOnlyWhenOpen(id)
  BY DEF IInv, TypeOK, ItemOK
<1>2. /\ owed \in [Ids -> SUBSET AllPhases] /\ fixRuns' = fixRuns
      /\ fixRuns \in [Ids -> Nat] /\ RunsAreCounted(id) /\ OwesAheadOnly(id)
  BY DEF HistoryOK, HPhase
<1>3. PhaseStep(id)
  BY DEF HPhase, PhaseStep
<1>4. progress[id] = "running" /\ UNCHANGED progress
  BY <1>3 DEF PhaseStep, SetGate, Advance, RebaseDetourStart, RebaseForgo
<1>5. UNCHANGED <<follow[id].fixAttempts, follow[id].attention>>
  <2>1. CASE RebaseForgo(id)
    BY <1>1, <2>1 DEF RebaseForgo, RebaseGuard, FollowType
  <2>2. CASE SetGate(id) \/ RebaseDetourStart(id)
    BY <2>2 DEF SetGate, RebaseDetourStart
  <2>3. ASSUME NEW from, NEW to, Advance(id, from, to)
        PROVE  UNCHANGED <<follow[id].fixAttempts, follow[id].attention>>
    BY <2>3 DEF Advance
  <2>. QED
    BY <1>3, <2>1, <2>2, <2>3 DEF PhaseStep
<1>6. RunsAreCounted(id)'
  BY <1>2, <1>4, <1>5 DEF RunsAreCounted, HasFollow
<1>7. ASSUME SetGate(id), owed' = [owed EXCEPT ![id] = JudgedPhases("initial", "light")]
      PROVE  RecordsOf(id) /\ OwesAheadOnly(id)'
  <2>1. run'[id].phase = "research+plan"
    BY <1>1, <1>7 DEF SetGate, RunType
  <2>2. StillAhead("research+plan") \subseteq AllPhases
    BY Words, AheadArePhases
  <2>. QED
    BY <1>2, <1>7, <2>1, <2>2, AxesBefore DEF RecordsOf, OwesAheadOnly
<1>8. ASSUME NEW from \in AllPhases, NEW to \in AllPhases, Advance(id, from, to),
             owed' = [owed EXCEPT ![id] = @ \ {from}]
      PROVE  RecordsOf(id) /\ OwesAheadOnly(id)'
  <2>1. run'[id].phase = to /\ run[id].phase = from
    BY <1>1, <1>8 DEF Advance, RunType
  <2>2. StillAhead(from) \ {from} \subseteq StillAhead(to)
    BY <1>1, <1>4, <1>8, <2>1, EdgePaysOne DEF Advance, RunNodeLegal
  <2>. QED
    BY <1>2, <1>4, <1>8, <2>1, <2>2 DEF RecordsOf, OwesAheadOnly
<1>9. ASSUME RebaseDetourStart(id), owed' = [owed EXCEPT ![id] = @ \cup {"rebase_fix"}]
      PROVE  RecordsOf(id) /\ OwesAheadOnly(id)'
  <2>1. run'[id].phase = "rebase_fix" /\ run[id].phase = "finalize"
    BY <1>1, <1>9 DEF RebaseDetourStart, RunType
  <2>2. owed[id] = {}
    BY <1>2, <1>4, <2>1 DEF OwesAheadOnly, StillAhead
  <2>. QED
    BY <1>2, <1>9, <2>1, <2>2, Words DEF RecordsOf, OwesAheadOnly, StillAhead
<1>10. ASSUME RebaseForgo(id), owed' = [owed EXCEPT ![id] = @ \ {"rebase_fix"}]
       PROVE  RecordsOf(id) /\ OwesAheadOnly(id)'
  <2>1. run'[id].phase = "finalize" /\ run[id].phase = "rebase_fix"
    BY <1>1, <1>10 DEF RebaseForgo, RunType
  <2>2. owed[id] \subseteq {"rebase_fix"}
    BY <1>2, <1>4, <2>1 DEF OwesAheadOnly, StillAhead
  <2>. QED
    BY <1>2, <1>10, <2>1, <2>2 DEF RecordsOf, OwesAheadOnly
<1>. QED
  BY <1>6, <1>7, <1>8, <1>9, <1>10 DEF HPhase

\* block, dequeue, ship and rebase-give-up.
LEMMA EndKeepsHistory ==
  ASSUME IInv, HistoryOK, NEW id \in Ids, HEnd(id)
  PROVE  RecordsOf(id) /\ OwesAheadOnly(id)' /\ RunsAreCounted(id)'
<1>1. /\ TypeOK /\ progress \in [Ids -> Progresses] /\ follow \in [Ids -> FollowType]
      /\ follow[id] \in FollowType /\ FollowOnlyWhenOpen(id)
      /\ follow[id].attention \in HumanReasons => progress[id] \in {"resting", "queued"}
  BY DEF IInv, TypeOK, ItemOK
<1>2. /\ owed \in [Ids -> SUBSET AllPhases] /\ fixRuns \in [Ids -> Nat]
      /\ RunsAreCounted(id) /\ EndStep(id) /\ UNCHANGED fixRuns
      /\ owed' = [owed EXCEPT ![id] = {}]
  BY DEF HistoryOK, HEnd
<1>3. RecordsOf(id)
  BY <1>2 DEF RecordsOf
<1>4. progress[id] = "running" /\ progress'[id] # "running"
  BY <1>1, <1>2 DEF EndStep, Block, Dequeue, RemoveItem, Ship, RebaseGiveUp
<1>5. ASSUME UNCHANGED <<follow[id].fixAttempts, follow[id].attention>>
      PROVE  RunsAreCounted(id)'
  BY <1>2, <1>4, <1>5 DEF RunsAreCounted, HasFollow
<1>6. ASSUME Block(id) PROVE RunsAreCounted(id)'
  BY <1>5, <1>6 DEF Block
<1>7. ASSUME Dequeue(id) PROVE RunsAreCounted(id)'
  BY <1>1, <1>2, <1>7 DEF Dequeue, RemoveItem, RunsAreCounted
<1>8. ASSUME RebaseGiveUp(id) PROVE RunsAreCounted(id)'
  <2>1. UNCHANGED <<follow[id].fixAttempts, follow[id].attention>>
    BY <1>1, <1>8 DEF RebaseGiveUp, RebaseGuard, FollowType
  <2>. QED
    BY <1>5, <2>1
<1>9. ASSUME NEW share \in Shares, Ship(id, share) PROVE RunsAreCounted(id)'
  <2>1. follow'[id] = ShippedFollow(id, share)
    BY <1>1, <1>9 DEF Ship
  <2>2. ASSUME NEW f \in FollowType
        PROVE  SettleAsks(f).fixAttempts = f.fixAttempts /\ SettleAsks(f).attention = f.attention
    BY DEF SettleAsks, FollowType
  <2>3. CASE share = "nothing" \/ artifact[id] = "open"
    <3>1. UNCHANGED <<follow[id].fixAttempts, follow[id].attention>>
      BY <1>1, <2>1, <2>2, <2>3 DEF ShippedFollow
    <3>. QED
      BY <1>5, <3>1
  <2>4. CASE ~(share = "nothing" \/ artifact[id] = "open")
    <3>1. fixRuns[id] = 0
      BY <1>1, <1>2, <1>4, <2>4 DEF RunsAreCounted, FollowOnlyWhenOpen
    <3>2. follow'[id].fixAttempts \in Nat
      BY <1>1, <1>9, <2>1, ShippedFollowType DEF FollowType
    <3>. QED
      BY <1>2, <1>4, <3>1, <3>2, LimitAssumption DEF RunsAreCounted
  <2>. QED
    BY <2>3, <2>4
<1>. QED
  BY <1>2, <1>3, <1>4, <1>6, <1>7, <1>8, <1>9 DEF EndStep, OwesAheadOnly

\* The verbs of the follow: a human that resumes the task starts a new count.
LEMMA FollowKeepsHistory ==
  ASSUME IInv, HistoryOK, NEW id \in Ids, HFollow(id)
  PROVE  RecordsOf(id) /\ OwesAheadOnly(id)' /\ RunsAreCounted(id)'
<1>1. /\ owed \in [Ids -> SUBSET AllPhases] /\ fixRuns \in [Ids -> Nat]
      /\ RunsAreCounted(id) /\ FollowStep(id) /\ UNCHANGED owed
      /\ fixRuns' = IF Resumed(id) THEN [fixRuns EXCEPT ![id] = 0] ELSE fixRuns
  BY DEF HistoryOK, HFollow
<1>2. progress[id] = "resting" /\ UNCHANGED progress
  BY <1>1, FollowKeepsRest DEF KeepsRest
<1>3. RecordsOf(id) /\ fixRuns'[id] = IF Resumed(id) THEN 0 ELSE fixRuns[id]
  BY <1>1 DEF RecordsOf
<1>4. follow[id].fixAttempts \in Nat /\ FixAttemptLimit \in Nat \ {0}
  BY LimitAssumption DEF IInv, TypeOK, FollowType
<1>5. "auto" \notin HumanReasons
  BY DEF HumanReasons
<1>6. RunsAreCounted(id)'
  BY <1>1, <1>2, <1>3, <1>4, <1>5, FollowKeepsCount DEF RunsAreCounted, Resumed
<1>. QED
  BY <1>2, <1>3, <1>6 DEF OwesAheadOnly

\* Every other verb starts no run, moves none and counts none.
LEMMA OtherKeepsHistory ==
  ASSUME IInv, HistoryOK, NEW id \in Ids, HOther(id)
  PROVE  RecordsOf(id) /\ OwesAheadOnly(id)' /\ RunsAreCounted(id)'
<1>1. /\ progress \in [Ids -> Progresses] /\ run \in [Ids -> RunType]
      /\ run[id] \in RunType /\ follow \in [Ids -> FollowType] /\ follow[id] \in FollowType
  BY DEF IInv, TypeOK
<1>2. /\ owed \in [Ids -> SUBSET AllPhases] /\ fixRuns \in [Ids -> Nat]
      /\ RunsAreCounted(id) /\ OwesAheadOnly(id) /\ UNCHANGED <<owed, fixRuns>>
  BY DEF HistoryOK, HOther, hvars
<1>3. RecordsOf(id)
  BY <1>2 DEF RecordsOf
<1>4. CASE QueueStep(id)
  BY <1>1, <1>2, <1>3, <1>4 DEF QueueStep, Approve, Restore, OwesAheadOnly, RunsAreCounted
<1>5. CASE RunStep(id)
  <2>1. progress[id] = "running" /\ UNCHANGED <<progress, follow>>
    BY <1>5 DEF RunStep, PhaseFail, SetWorktree, SetExecutor, TouchExecutor
  <2>2. ASSUME NEW v, PhaseFail(id, run[id].phase, run[id].attempts, v)
        PROVE  run'[id].phase = run[id].phase
    BY <1>1, <2>2 DEF PhaseFail, RunType
  <2>3. ASSUME NEW a, NEW s, SetExecutor(id, a, s, run[id].executor)
        PROVE  run'[id].phase = run[id].phase
    BY <1>1, <2>3 DEF SetExecutor, RunType
  <2>4. run'[id].phase = run[id].phase
    BY <1>5, <2>2, <2>3 DEF RunStep, SetWorktree, TouchExecutor
  <2>. QED
    BY <1>2, <1>3, <2>1, <2>4 DEF OwesAheadOnly, RunsAreCounted, HasFollow
<1>6. CASE ArtifactStep(id)
  <2>1. progress[id] = "resting" /\ progress'[id] \in {"resting", "absent"}
    BY <1>1, <1>6 DEF ArtifactStep, Merged, Retire, RemoveItem, Withdraw, WithdrawAsked,
       WithdrawRemove
  <2>2. follow'[id] \in {follow[id], NoFollow}
    BY <1>1, <1>6 DEF ArtifactStep, Merged, Retire, RemoveItem, Withdraw, WithdrawAsked,
       WithdrawRemove
  <2>. QED
    BY <1>2, <1>3, <2>1, <2>2, FreshFollows DEF OwesAheadOnly, RunsAreCounted
<1>7. CASE LedgerStep(id)
  <2>1. UNCHANGED <<progress, run, follow>>
    BY <1>7 DEF LedgerStep, RelistedAdd, RelistedDrop, CleanupResolve, item
  <2>. QED
    BY <1>2, <1>3, <2>1 DEF OwesAheadOnly, RunsAreCounted, HasFollow
<1>. QED
  BY <1>4, <1>5, <1>6, <1>7 DEF HOther

\* The history goes with the state of the queue, whatever the verbs do.
THEOREM HistoryInvariance == HSpec => []HistoryOK
<1>1. HInit => HistoryOK
  BY LimitAssumption DEF HInit, Init, HistoryOK, OwesAheadOnly, RunsAreCounted
<1>2. IInv /\ HistoryOK /\ [HNext]_<<vars, hvars>> => HistoryOK'
  <2> SUFFICES ASSUME IInv, HistoryOK, [HNext]_<<vars, hvars>> PROVE HistoryOK'
    OBVIOUS
  <2>1. CASE UNCHANGED <<vars, hvars>>
    BY <2>1 DEF vars, item, ledgers, hvars, HistoryOK, OwesAheadOnly, RunsAreCounted, HasFollow
  <2>2. ASSUME NEW id \in Ids,
               HStart(id) \/ HPhase(id) \/ HEnd(id) \/ HFollow(id) \/ HOther(id)
        PROVE  HistoryOK'
    <3>1. RecordsOf(id) /\ OwesAheadOnly(id)' /\ RunsAreCounted(id)'
      BY <2>2, StartKeepsHistory, PhaseKeepsHistory, EndKeepsHistory, FollowKeepsHistory,
         OtherKeepsHistory
    <3>. QED
      BY <2>2, <3>1, HistoryAddsNothing, HistoryOfOne
  <2>. QED
    BY <2>1, <2>2 DEF HNext
<1>. QED
  BY <1>1, <1>2, HistoryIsQueue, Invariance, PTL DEF HSpec

\* What a run ships has passed every judgement its kind and gate prescribe.
THEOREM FinalizeJudged == HSpec => []FinalizeIsJudged
<1>1. HistoryOK => FinalizeIsJudged
  BY DEF HistoryOK, OwesAheadOnly, StillAhead, FinalizeIsJudged
<1>. QED
  BY <1>1, HistoryInvariance, PTL

\* No order of verbs buys a review more fix runs than the limit before a human
\* resumes the task or the tracker lists it again.
THEOREM FixRunsLimited == HSpec => []FixRunsBounded
<1>1. HistoryOK => FixRunsBounded
  BY DEF HistoryOK, RunsAreCounted, FixRunsBounded
<1>. QED
  BY <1>1, HistoryInvariance, PTL
=============================================================================

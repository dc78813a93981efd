------------------------------ MODULE TaskQueue ------------------------------
(***************************************************************************)
(* The queue of .task-pipeline/state.json and the verbs of the state CLI   *)
(* that change it.  Every verb runs under the state lock (StateLock.tla),  *)
(* so each one is a single step here: its preconditions (VERB_SPEC and the *)
(* checks of the apply function) are the guard, the object it writes is    *)
(* the primed state.                                                       *)
(*                                                                         *)
(* An item lives at the product of two coordinates: P, its progress        *)
(* (queued, running at a node of its run, resting, blocked), and A, its    *)
(* artifact (none, open with or without follow, merged, withdrawn).        *)
(* Timestamps, titles, refs, shas, findings and notes are left out, and    *)
(* with them the verbs that write nothing else (set-takeover,              *)
(* fix-rerun-mark, review-only, answered-set): in this state they are      *)
(* stuttering steps.                                                       *)
(***************************************************************************)
EXTENDS Integers, FiniteSets, Phases

CONSTANTS
  Ids,                \* task ids the tracker may hand out
  Sessions,           \* orchestrator sessions
  Agents,             \* execution and verification agents
  Comments,           \* review comments a fix request may name
  None,               \* the null of state.json
  FixAttemptLimit,    \* FIX_ATTEMPT_LIMIT (3 in the code)
  ObserveErrorLimit,  \* OBSERVE_ERROR_LIMIT (3 in the code)
  CleanupMaxAttempts, \* CLEANUP_MAX_ATTEMPTS (3 in the code)
  MaxAttempts,        \* bound: judgements that fail within one phase
  MaxErrors,          \* bound: value probe.errors may reach
  MaxWithdrawn        \* bound: withdrawn_branches entries of one id

ASSUME NoneAssumption == None \notin Sessions /\ None \notin Agents
ASSUME LimitAssumption ==
  /\ FixAttemptLimit \in Nat \ {0}
  /\ ObserveErrorLimit \in Nat \ {0}
  /\ CleanupMaxAttempts \in Nat
  /\ MaxAttempts \in Nat
  /\ MaxErrors \in Nat
  /\ MaxWithdrawn \in Nat

VARIABLES
  progress,           \* item.progress, "absent" when the id is not in the queue
  run,                \* item.run, NoRun for null
  blockedReason,      \* is item.blocked_reason non-null
  artifact,           \* item.artifact.state, with the flag asked of withdrawn
  follow,             \* item.artifact.follow, NoFollow for null or no such key
  session,            \* item.session
  worktree,           \* are item.worktree and item.base set
  relisted,           \* ids of state.relisted
  withdrawnBranches,  \* number of withdrawn_branches entries of an id
  outbox              \* cleanup_outbox entry of an id

item == <<progress, run, blockedReason, artifact, follow, session, worktree>>
ledgers == <<relisted, withdrawnBranches, outbox>>
vars == <<progress, run, blockedReason, artifact, follow, session, worktree,
          relisted, withdrawnBranches, outbox>>

-----------------------------------------------------------------------------
(* Records. *)

NoRun == [kind |-> "none", gate |-> "none", phase |-> "none", attempts |-> 0,
          executor |-> None, verifier |-> None]

NewRun(kind, gate, phase) ==
  [kind |-> kind, gate |-> gate, phase |-> phase, attempts |-> 0,
   executor |-> None, verifier |-> None]

HumanReasons == {"fix_limit", "errors", "manual", "fix_stagnant"}

\* attention "none" stands for the absent follow.
NoFollow == [attention |-> "none", fix |-> "none", fixIds |-> {},
             rebase |-> "none", handled |-> {}, fixAttempts |-> 0,
             errors |-> 0, lease |-> FALSE]

FreshFollow == [NoFollow EXCEPT !.attention = "auto"]

HasFollow(id) == follow[id].attention # "none"

\* The axis of a rebase ask: no ask and a guard entry are both quiet.
RebaseAxis(f) == IF f.rebase = "none" THEN "quiet" ELSE f.rebase

\* rebaseGuardUpsert: the guard entry a failed resolution leaves behind.
RebaseGuard(f) == [f EXCEPT !.rebase = "quiet"]

\* withoutLease: drops probe.proc together with its start time.
WithoutLease(f) == [f EXCEPT !.lease = FALSE]

\* Mutant: the new engagement starts from a fresh follow.
ForgetfulCycleReset(f) == IF f.attention = "none" THEN f ELSE FreshFollow

\* cycleResetArtifact: a new engagement forgets asks and counters of the last
\* one but keeps handled, the memory of the pull request; probe.errors stays.
CycleReset(f) ==
  IF f.attention = "none" THEN f
  ELSE [f EXCEPT !.attention = "auto", !.fix = "none", !.fixIds = {},
                 !.rebase = "none", !.fixAttempts = 0]

\* isFollowTarget without its conjunct on the progress, which is the caller's.
IsFollowTarget(f) ==
  f.attention = "auto" /\ f.fix = "none" /\ RebaseAxis(f) = "quiet"

NoIntent == [reason |-> "none", attempts |-> 0]

\* Mutant: a new intent replaces one that is being tried.
ReplacingIntent(id, reason) ==
  [outbox EXCEPT ![id] = [reason |-> reason, attempts |-> 0]]

\* appendCleanupIntent: an entry of the same id is never stacked or replaced.
AppendCleanupIntent(id, reason) ==
  IF outbox[id].reason # "none" THEN outbox
  ELSE [outbox EXCEPT ![id] = [reason |-> reason, attempts |-> 0]]
-----------------------------------------------------------------------------
(* Progress verbs. *)

Init ==
  /\ progress = [id \in Ids |-> "absent"]
  /\ run = [id \in Ids |-> NoRun]
  /\ blockedReason = [id \in Ids |-> FALSE]
  /\ artifact = [id \in Ids |-> "none"]
  /\ follow = [id \in Ids |-> NoFollow]
  /\ session = [id \in Ids |-> None]
  /\ worktree = [id \in Ids |-> FALSE]
  /\ relisted = {}
  /\ withdrawnBranches = [id \in Ids |-> 0]
  /\ outbox = [id \in Ids |-> NoIntent]

\* The tracker hands out an id that is not in the queue.
Approve(id) ==
  /\ progress[id] = "absent"
  /\ progress' = [progress EXCEPT ![id] = "queued"]
  /\ UNCHANGED <<run, blockedReason, artifact, follow, session, worktree, ledgers>>

\* A session starts the task; the previous engagement's cycle is reset.
Claim(id, s) ==
  /\ progress[id] = "queued"
  /\ progress' = [progress EXCEPT ![id] = "running"]
  /\ run' = [run EXCEPT ![id] = NewRun("initial", "full", "research")]
  /\ blockedReason' = [blockedReason EXCEPT ![id] = FALSE]
  /\ follow' = [follow EXCEPT ![id] = CycleReset(@)]
  /\ session' = [session EXCEPT ![id] = s]
  /\ UNCHANGED <<artifact, worktree, ledgers>>

\* The task asks for the short gate before its first phase is over.
SetGate(id) ==
  /\ progress[id] = "running"
  /\ run[id].kind = "initial" /\ run[id].gate = "full" /\ run[id].phase = "research"
  /\ run' = [run EXCEPT ![id] = [@ EXCEPT !.gate = "light", !.phase = "research+plan",
                                       !.attempts = 0]]
  /\ UNCHANGED <<progress, blockedReason, artifact, follow, session, worktree, ledgers>>

\* Mutant: the round goes on counting in the next phase.
CountingAdvance(id, from, to) ==
  /\ progress[id] = "running"
  /\ run[id].phase = from /\ from # "finalize"
  /\ IsAdvanceEdge(run[id].kind, run[id].gate, from, to)
  /\ run' = [run EXCEPT ![id] = [@ EXCEPT !.phase = to, !.verifier = None]]
  /\ UNCHANGED <<progress, blockedReason, artifact, follow, session, worktree, ledgers>>

\* A judgement passed: the phase is left along an edge of its axis.
Advance(id, from, to) ==
  /\ progress[id] = "running"
  /\ run[id].phase = from /\ from # "finalize"
  /\ IsAdvanceEdge(run[id].kind, run[id].gate, from, to)
  /\ run' = [run EXCEPT ![id] = [@ EXCEPT !.phase = to, !.attempts = 0, !.verifier = None]]
  /\ UNCHANGED <<progress, blockedReason, artifact, follow, session, worktree, ledgers>>

\* A judgement failed in the round expect; v is the verifier to resume, if any.
PhaseFail(id, phase, expect, v) ==
  /\ progress[id] = "running"
  /\ run[id].phase = phase /\ phase # "finalize"
  /\ run[id].attempts = expect
  /\ run' = [run EXCEPT ![id] = [@ EXCEPT !.attempts = expect + 1, !.verifier = v]]
  /\ UNCHANGED <<progress, blockedReason, artifact, follow, session, worktree, ledgers>>

\* Mutant: the session of a blocked run stays.
OwnedBlock(id) ==
  /\ progress[id] = "running"
  /\ progress' = [progress EXCEPT ![id] = "blocked"]
  /\ run' = [run EXCEPT ![id] = NoRun]
  /\ blockedReason' = [blockedReason EXCEPT ![id] = TRUE]
  /\ UNCHANGED <<artifact, follow, session, worktree, ledgers>>

\* The run is given up until the tracker lists the task again; asks stay.
Block(id) ==
  /\ progress[id] = "running"
  /\ progress' = [progress EXCEPT ![id] = "blocked"]
  /\ run' = [run EXCEPT ![id] = NoRun]
  /\ blockedReason' = [blockedReason EXCEPT ![id] = TRUE]
  /\ session' = [session EXCEPT ![id] = None]
  /\ UNCHANGED <<artifact, follow, worktree, ledgers>>

\* withRemovedItem: the item leaves the queue with everything it holds.
RemoveItem(id) ==
  /\ progress' = [progress EXCEPT ![id] = "absent"]
  /\ run' = [run EXCEPT ![id] = NoRun]
  /\ blockedReason' = [blockedReason EXCEPT ![id] = FALSE]
  /\ artifact' = [artifact EXCEPT ![id] = "none"]
  /\ follow' = [follow EXCEPT ![id] = NoFollow]
  /\ session' = [session EXCEPT ![id] = None]
  /\ worktree' = [worktree EXCEPT ![id] = FALSE]

\* A running item is dropped without shipping anything.
Dequeue(id) ==
  /\ progress[id] = "running"
  /\ RemoveItem(id)
  /\ UNCHANGED ledgers

\* Mutant: the task returns without a listing of the tracker.
UnlistedRestore(id) ==
  /\ progress[id] \in {"resting", "blocked"}
  /\ artifact[id] # "merged"
  /\ progress' = [progress EXCEPT ![id] = "queued"]
  /\ run' = [run EXCEPT ![id] = NoRun]
  /\ blockedReason' = [blockedReason EXCEPT ![id] = FALSE]
  /\ follow' = [follow EXCEPT ![id] = WithoutLease(@)]
  /\ session' = [session EXCEPT ![id] = None]
  /\ relisted' = relisted \ {id}
  /\ UNCHANGED <<artifact, worktree, withdrawnBranches, outbox>>

\* The tracker listed the task again: it returns to the queue and the entry of
\* relisted is spent.  The probe lease is dropped, the asks stay until claim.
Restore(id) ==
  /\ id \in relisted
  /\ progress[id] \in {"resting", "blocked"}
  /\ artifact[id] # "merged"
  /\ progress' = [progress EXCEPT ![id] = "queued"]
  /\ run' = [run EXCEPT ![id] = NoRun]
  /\ blockedReason' = [blockedReason EXCEPT ![id] = FALSE]
  /\ follow' = [follow EXCEPT ![id] = WithoutLease(@)]
  /\ session' = [session EXCEPT ![id] = None]
  /\ relisted' = relisted \ {id}
  /\ UNCHANGED <<artifact, worktree, withdrawnBranches, outbox>>

\* A merged task with no session leaves; its cleanup is requested in one write.
Retire(id) ==
  /\ progress[id] = "resting"
  /\ artifact[id] = "merged"
  /\ session[id] = None
  /\ RemoveItem(id)
  /\ outbox' = AppendCleanupIntent(id, "retire")
  /\ UNCHANGED <<relisted, withdrawnBranches>>

-----------------------------------------------------------------------------
(* Completion verbs. *)

\* Mutant: a taken rebase is left as it is.
UnsettledRebase(f) ==
  [f EXCEPT
     !.handled = IF f.fix = "taken" THEN f.handled \cup f.fixIds ELSE f.handled,
     !.fix     = IF f.fix = "taken" THEN "none" ELSE f.fix,
     !.fixIds  = IF f.fix = "taken" THEN {} ELSE f.fixIds]

\* Mutant: the comments of a taken fix are dropped.
UnhandledFix(f) ==
  [f EXCEPT
     !.fix     = IF f.fix = "taken" THEN "none" ELSE f.fix,
     !.fixIds  = IF f.fix = "taken" THEN {} ELSE f.fixIds,
     !.rebase  = IF f.rebase = "taken" THEN "none"
                 ELSE IF f.rebase = "queued" THEN "quiet" ELSE f.rebase]

\* What a ship does to the asks of the follow: a taken fix is handled, a taken
\* rebase is done, a rebase that was only queued falls back to a guard entry.
SettleAsks(f) ==
  [f EXCEPT
     !.handled = IF f.fix = "taken" THEN f.handled \cup f.fixIds ELSE f.handled,
     !.fix     = IF f.fix = "taken" THEN "none" ELSE f.fix,
     !.fixIds  = IF f.fix = "taken" THEN {} ELSE f.fixIds,
     !.rebase  = IF f.rebase = "taken" THEN "none"
                 ELSE IF f.rebase = "queued" THEN "quiet" ELSE f.rebase]

\* What a ship shares: nothing (commits = 0), a branch or sha, a pull request.
Shares == {"nothing", "commit", "pr"}

ShippedArtifact(id, share) ==
  IF share = "nothing" THEN artifact[id] ELSE "open"

ShippedFollow(id, share) ==
  LET kept == IF share = "nothing" \/ artifact[id] = "open" THEN follow[id]
              ELSE IF share = "pr" THEN FreshFollow ELSE NoFollow
  IN  IF kept.attention = "none" THEN kept ELSE SettleAsks(kept)

\* The run ends; the session stays only where there is a pull request to follow.
Ship(id, share) ==
  /\ progress[id] = "running"
  /\ run[id].phase = "finalize"
  /\ progress' = [progress EXCEPT ![id] = "resting"]
  /\ run' = [run EXCEPT ![id] = NoRun]
  /\ artifact' = [artifact EXCEPT ![id] = ShippedArtifact(id, share)]
  /\ follow' = [follow EXCEPT ![id] = ShippedFollow(id, share)]
  /\ session' = [session EXCEPT
       ![id] = IF ShippedFollow(id, share).attention = "none" THEN None ELSE @]
  /\ UNCHANGED <<blockedReason, worktree, ledgers>>

\* The proof of the merge was found; the follow is destroyed.
Merged(id) ==
  /\ progress[id] = "resting"
  /\ artifact[id] = "open"
  /\ artifact' = [artifact EXCEPT ![id] = "merged"]
  /\ follow' = [follow EXCEPT ![id] = NoFollow]
  /\ session' = [session EXCEPT ![id] = None]
  /\ UNCHANGED <<progress, run, blockedReason, worktree, ledgers>>

\* The pull request was closed unmerged; cleanup is requested in the same write.
Withdraw(id) ==
  /\ progress[id] = "resting"
  /\ artifact[id] = "open"
  /\ artifact' = [artifact EXCEPT ![id] = "withdrawn"]
  /\ follow' = [follow EXCEPT ![id] = NoFollow]
  /\ session' = [session EXCEPT ![id] = None]
  /\ outbox' = AppendCleanupIntent(id, "withdraw")
  /\ UNCHANGED <<progress, run, blockedReason, worktree, relisted, withdrawnBranches>>

WithdrawnStates == {"withdrawn", "withdrawn-asked"}

\* The user has been asked what to do with the withdrawn branch.
WithdrawAsked(id) ==
  /\ progress[id] = "resting"
  /\ artifact[id] \in WithdrawnStates
  /\ artifact' = [artifact EXCEPT ![id] = "withdrawn-asked"]
  /\ UNCHANGED <<progress, run, blockedReason, follow, session, worktree, ledgers>>

\* The user lets a withdrawn task go; its branch is remembered.
WithdrawRemove(id) ==
  /\ progress[id] = "resting"
  /\ artifact[id] \in WithdrawnStates
  /\ worktree[id]
  /\ withdrawnBranches[id] < MaxWithdrawn
  /\ RemoveItem(id)
  /\ withdrawnBranches' = [withdrawnBranches EXCEPT ![id] = @ + 1]
  /\ UNCHANGED <<relisted, outbox>>

-----------------------------------------------------------------------------
(* Request verbs and the verbs that start a finishing run. *)

\* The from declaration A_OPEN_FOLLOW_KEYS with P = resting.
RestsWithFollow(id) == progress[id] = "resting" /\ HasFollow(id)

UnchangedButFollow ==
  UNCHANGED <<progress, run, blockedReason, artifact, session, worktree, ledgers>>

\* A review asks for a fix; a newer request replaces the pending one.
FixRequest(id, ids) ==
  /\ RestsWithFollow(id)
  /\ follow' = [follow EXCEPT ![id] = [@ EXCEPT !.fix = "pending", !.fixIds = ids]]
  /\ UnchangedButFollow

RequestedRebase(current, resolve) ==
  IF current = "taken" THEN "taken"
  ELSE IF resolve = "true" \/ (resolve = "keep" /\ current = "queued")
       THEN "queued" ELSE "quiet"

\* The background rebase failed.  resolve is "keep" when the flag is omitted.
RebaseRequest(id, resolve) ==
  /\ RestsWithFollow(id)
  /\ follow' = [follow EXCEPT ![id] = [@ EXCEPT
                  !.rebase = RequestedRebase(follow[id].rebase, resolve)]]
  /\ UnchangedButFollow

\* The background rebase was pushed without a run.
RebaseApplied(id) ==
  /\ RestsWithFollow(id)
  /\ follow' = [follow EXCEPT ![id] = [@ EXCEPT !.rebase = "none"]]
  /\ UnchangedButFollow

\* Mutant: the run that is starting is not counted.
UncountedFixAttempts(id, reset) == IF reset THEN 0 ELSE follow[id].fixAttempts

\* The value ledger.fix_attempts takes.
FixAttempts(id, reset) == (IF reset THEN 0 ELSE follow[id].fixAttempts) + 1

\* A pending fix is consumed by a run of its own, or the limit latches.
FixStart(id, s, reset) ==
  /\ RestsWithFollow(id)
  /\ follow[id].attention = "auto"
  /\ follow[id].fix = "pending"
  /\ IF FixAttempts(id, reset) <= FixAttemptLimit
     THEN /\ progress' = [progress EXCEPT ![id] = "running"]
          /\ run' = [run EXCEPT ![id] = NewRun("pr_fix", "none", "pr_fix")]
          /\ follow' = [follow EXCEPT ![id] = [@ EXCEPT
                        !.fix = "taken", !.lease = FALSE,
                        !.fixAttempts = FixAttempts(id, reset)]]
          /\ session' = [session EXCEPT ![id] = s]
     ELSE /\ follow' = [follow EXCEPT ![id] = [@ EXCEPT
                        !.attention = "fix_limit", !.lease = FALSE,
                        !.fixAttempts = FixAttempts(id, reset)]]
          /\ session' = [session EXCEPT ![id] = None]
          /\ UNCHANGED <<progress, run>>
  /\ UNCHANGED <<blockedReason, artifact, worktree, ledgers>>

\* Mutant: the count restarts as soon as the limit is reached.
EarlyResetsAttempts(id) == follow[id].fixAttempts >= FixAttemptLimit

\* cycleAction: a human resumption past the limit restarts the count.
NextResetsAttempts(id) == follow[id].fixAttempts > FixAttemptLimit

\* Entry (a): a queued resolution is consumed by a run of its own.
RebaseCycleStart(id, s) ==
  /\ RestsWithFollow(id)
  /\ follow[id].attention = "auto"
  /\ follow[id].rebase = "queued"
  /\ progress' = [progress EXCEPT ![id] = "running"]
  /\ run' = [run EXCEPT ![id] = NewRun("rebase_fix", "none", "rebase_fix")]
  /\ follow' = [follow EXCEPT ![id] = [@ EXCEPT !.rebase = "taken", !.lease = FALSE]]
  /\ session' = [session EXCEPT ![id] = s]
  /\ UNCHANGED <<blockedReason, artifact, worktree, ledgers>>

\* Entry (b): a finalize that met a conflict takes the detour, kind unchanged.
RebaseDetourStart(id) ==
  /\ progress[id] = "running"
  /\ run[id].phase = "finalize"
  /\ run' = [run EXCEPT ![id] = [@ EXCEPT !.phase = "rebase_fix", !.attempts = 0]]
  /\ UNCHANGED <<progress, blockedReason, artifact, follow, session, worktree, ledgers>>

\* The resolution cycle failed: the pull request stays on its old base.
RebaseGiveUp(id) ==
  /\ progress[id] = "running"
  /\ run[id].kind = "rebase_fix" /\ run[id].phase = "rebase_fix"
  /\ HasFollow(id)
  /\ progress' = [progress EXCEPT ![id] = "resting"]
  /\ run' = [run EXCEPT ![id] = NoRun]
  /\ follow' = [follow EXCEPT ![id] = RebaseGuard(@)]
  /\ session' = [session EXCEPT ![id] = None]
  /\ UNCHANGED <<blockedReason, artifact, worktree, ledgers>>

\* The detour failed: back to finalize without a judgement, to push as it is.
RebaseForgo(id) ==
  /\ progress[id] = "running"
  /\ run[id].kind # "rebase_fix" /\ run[id].phase = "rebase_fix"
  /\ run' = [run EXCEPT ![id] = [@ EXCEPT !.phase = "finalize", !.attempts = 0]]
  /\ follow' = [follow EXCEPT ![id] = IF HasFollow(id) THEN RebaseGuard(@) ELSE @]
  /\ UNCHANGED <<progress, blockedReason, artifact, session, worktree, ledgers>>

-----------------------------------------------------------------------------
(* Follow verbs. *)

\* A watch process is started; s is None when --session is omitted.
ProbeRun(id, s) ==
  /\ RestsWithFollow(id)
  /\ IsFollowTarget(follow[id])
  /\ follow' = [follow EXCEPT ![id] = [@ EXCEPT !.lease = TRUE]]
  /\ session' = [session EXCEPT ![id] = IF s = None THEN @ ELSE s]
  /\ UNCHANGED <<progress, run, blockedReason, artifact, worktree, ledgers>>

\* The watch process ended.
ProbeExit(id) ==
  /\ RestsWithFollow(id)
  /\ follow' = [follow EXCEPT ![id] = [@ EXCEPT !.lease = FALSE]]
  /\ UnchangedButFollow

\* The session lets go of everything volatile of a resting task.
Release(id) ==
  /\ progress[id] = "resting"
  /\ follow' = [follow EXCEPT ![id] = WithoutLease(@)]
  /\ session' = [session EXCEPT ![id] = None]
  /\ UNCHANGED <<progress, run, blockedReason, artifact, worktree, ledgers>>

ObservedErrors(n, outcome) ==
  IF outcome = "error" THEN n + 1 ELSE IF outcome = "reset" THEN 0 ELSE n

\* An observation: an error counts up, --errors-reset clears, anything else
\* leaves the count.  At the limit the same write hands the task to a human.
Observe(id, outcome) ==
  LET errors == ObservedErrors(follow[id].errors, outcome) IN
  /\ RestsWithFollow(id)
  /\ errors <= MaxErrors
  /\ IF errors >= ObserveErrorLimit
     THEN /\ follow' = [follow EXCEPT ![id] = [@ EXCEPT
                        !.errors = errors, !.attention = "errors", !.lease = FALSE]]
          /\ session' = [session EXCEPT ![id] = None]
     ELSE /\ follow' = [follow EXCEPT ![id] = [@ EXCEPT !.errors = errors]]
          /\ UNCHANGED session
  /\ UNCHANGED <<progress, run, blockedReason, artifact, worktree, ledgers>>

\* A human resumes the automation.
AttentionAuto(id) ==
  /\ RestsWithFollow(id)
  /\ follow' = [follow EXCEPT ![id] = [@ EXCEPT !.attention = "auto", !.errors = 0]]
  /\ UnchangedButFollow

\* Mutant: the session keeps the task it has handed over.
OwnedAttentionHuman(id, reason) ==
  /\ RestsWithFollow(id)
  /\ follow' = [follow EXCEPT ![id] = [@ EXCEPT !.attention = reason, !.lease = FALSE]]
  /\ UnchangedButFollow

\* The task is handed to a human for a reason; nothing volatile is kept.
AttentionHuman(id, reason) ==
  /\ RestsWithFollow(id)
  /\ follow' = [follow EXCEPT ![id] = [@ EXCEPT !.attention = reason, !.lease = FALSE]]
  /\ session' = [session EXCEPT ![id] = None]
  /\ UNCHANGED <<progress, run, blockedReason, artifact, worktree, ledgers>>

-----------------------------------------------------------------------------
(* Run ledger verbs. *)

\* Mutant: a withdrawn branch is dropped that is not there.
BlindSetWorktree(id, drop) ==
  /\ progress[id] = "running"
  /\ worktree' = [worktree EXCEPT ![id] = TRUE]
  /\ withdrawnBranches' = IF drop THEN [withdrawnBranches EXCEPT ![id] = @ - 1]
                          ELSE withdrawnBranches
  /\ UNCHANGED <<progress, run, blockedReason, artifact, follow, session,
                 relisted, outbox>>

\* The worktree of the run is recorded; drop takes back a withdrawn branch.
SetWorktree(id, drop) ==
  /\ progress[id] = "running"
  /\ drop => withdrawnBranches[id] > 0
  /\ worktree' = [worktree EXCEPT ![id] = TRUE]
  /\ withdrawnBranches' = IF drop THEN [withdrawnBranches EXCEPT ![id] = @ - 1]
                          ELSE withdrawnBranches
  /\ UNCHANGED <<progress, run, blockedReason, artifact, follow, session,
                 relisted, outbox>>

\* An execution agent is put in charge if the caller saw the current one.
SetExecutor(id, agent, s, expect) ==
  /\ progress[id] = "running"
  /\ run[id].executor = expect
  /\ run' = [run EXCEPT ![id] = [@ EXCEPT !.executor = agent, !.verifier = None]]
  /\ session' = [session EXCEPT ![id] = s]
  /\ UNCHANGED <<progress, blockedReason, artifact, follow, worktree, ledgers>>

\* A sign of life of the agent; a run nobody owns is taken by s.
TouchExecutor(id, s) ==
  /\ progress[id] = "running"
  /\ run[id].executor # None
  /\ session' = [session EXCEPT ![id] = IF @ = None THEN s ELSE @]
  /\ UNCHANGED <<progress, run, blockedReason, artifact, follow, worktree, ledgers>>

-----------------------------------------------------------------------------
(* Ledgers of the state that are not part of an item. *)

\* The tracker lists a task again that the queue still holds.
RelistedAdd(id) ==
  /\ id \notin relisted
  /\ relisted' = relisted \cup {id}
  /\ UNCHANGED <<item, withdrawnBranches, outbox>>

RelistedDrop(id) ==
  /\ id \in relisted
  /\ relisted' = relisted \ {id}
  /\ UNCHANGED <<item, withdrawnBranches, outbox>>

\* A sweep settles an intent: success removes it, failure counts up.
CleanupResolve(id, ok) ==
  /\ outbox[id].reason # "none"
  /\ outbox' = [outbox EXCEPT
       ![id] = IF ok THEN NoIntent
               ELSE [@ EXCEPT !.attempts = outbox[id].attempts + 1]]
  /\ UNCHANGED <<item, relisted, withdrawnBranches>>

-----------------------------------------------------------------------------
(* The specification.  Arguments come from what the callers pass: the       *)
(* orchestrator resets the fix count when next tells it to, and the sweep   *)
(* leaves an exhausted intent alone.                                        *)

\* The verbs that open an engagement (a fix past its limit opens none).
StartStep(id) ==
  \/ \E s \in Sessions : Claim(id, s)
  \/ \E s \in Sessions : FixStart(id, s, NextResetsAttempts(id))
  \/ \E s \in Sessions : RebaseCycleStart(id, s)

\* The verbs that move a run from one phase to another.
PhaseStep(id) ==
  \/ SetGate(id)
  \/ \E from, to \in AllPhases : Advance(id, from, to)
  \/ RebaseDetourStart(id)
  \/ RebaseForgo(id)

\* The verbs that keep the books of a run within a phase.
RunStep(id) ==
  \/ \E v \in Agents \cup {None} :
       /\ run[id].attempts < MaxAttempts
       /\ PhaseFail(id, run[id].phase, run[id].attempts, v)
  \/ \E drop \in BOOLEAN : SetWorktree(id, drop)
  \/ \E agent \in Agents, s \in Sessions : SetExecutor(id, agent, s, run[id].executor)
  \/ \E s \in Sessions : TouchExecutor(id, s)

\* The verbs that close an engagement.
EndStep(id) ==
  \/ Block(id)
  \/ Dequeue(id)
  \/ \E share \in Shares : Ship(id, share)
  \/ RebaseGiveUp(id)

\* The verbs that bring an item into the queue.
QueueStep(id) ==
  \/ Approve(id)
  \/ Restore(id)

ArtifactStep(id) ==
  \/ Merged(id)
  \/ Retire(id)
  \/ Withdraw(id)
  \/ WithdrawAsked(id)
  \/ WithdrawRemove(id)

FollowStep(id) ==
  \/ \E ids \in SUBSET Comments : FixRequest(id, ids)
  \/ \E resolve \in {"keep", "true", "false"} : RebaseRequest(id, resolve)
  \/ RebaseApplied(id)
  \/ \E s \in Sessions \cup {None} : ProbeRun(id, s)
  \/ ProbeExit(id)
  \/ Release(id)
  \/ \E outcome \in {"error", "reset", "other"} : Observe(id, outcome)
  \/ AttentionAuto(id)
  \/ \E reason \in HumanReasons : AttentionHuman(id, reason)

LedgerStep(id) ==
  \/ RelistedAdd(id)
  \/ RelistedDrop(id)
  \/ outbox[id].attempts < CleanupMaxAttempts /\ CleanupResolve(id, FALSE)
  \/ outbox[id].attempts < CleanupMaxAttempts /\ CleanupResolve(id, TRUE)

Next == \E id \in Ids :
  \/ QueueStep(id)
  \/ StartStep(id)
  \/ PhaseStep(id)
  \/ RunStep(id)
  \/ EndStep(id)
  \/ ArtifactStep(id)
  \/ FollowStep(id)
  \/ LedgerStep(id)

Spec == Init /\ [][Next]_vars

-----------------------------------------------------------------------------
(* Types. *)

Progresses == {"absent", "queued", "running", "resting", "blocked"}
ArtifactStates == {"none", "open", "merged"} \cup WithdrawnStates

RunType == [kind : Kinds \cup {"none"}, gate : Gates, phase : AllPhases \cup {"none"},
            attempts : Nat, executor : Agents \cup {None},
            verifier : Agents \cup {None}]

FollowType == [attention : {"none", "auto"} \cup HumanReasons,
               fix : {"none", "pending", "taken"}, fixIds : SUBSET Comments,
               rebase : {"none", "quiet", "queued", "taken"},
               handled : SUBSET Comments, fixAttempts : Nat, errors : Nat,
               lease : BOOLEAN]

IntentType == [reason : {"none", "retire", "withdraw"}, attempts : Nat]

\* Every field of the state keeps the shape its schema declares.
TypeOK ==
  /\ progress \in [Ids -> Progresses]
  /\ run \in [Ids -> RunType]
  /\ blockedReason \in [Ids -> BOOLEAN]
  /\ artifact \in [Ids -> ArtifactStates]
  /\ follow \in [Ids -> FollowType]
  /\ session \in [Ids -> Sessions \cup {None}]
  /\ worktree \in [Ids -> BOOLEAN]
  /\ relisted \in SUBSET Ids
  /\ withdrawnBranches \in [Ids -> Nat]
  /\ outbox \in [Ids -> IntentType]

-----------------------------------------------------------------------------
(* What assertItemInvariantsV2 checks before a write; each part of it is     *)
(* named after the function of the code.                                     *)

RunProgressConsistent(id) == (progress[id] = "running") <=> (run[id].kind # "none")

RunNodeLegal(id) ==
  progress[id] = "running" =>
    IsLegalRunNode(run[id].kind, run[id].gate, run[id].phase)

MergedImpliesResting(id) == artifact[id] = "merged" => progress[id] = "resting"

PrFixImpliesOpenTaken(id) ==
  progress[id] = "running" /\ run[id].kind = "pr_fix" =>
    artifact[id] = "open" /\ HasFollow(id) /\ follow[id].fix = "taken"

ProbeProcImpliesResting(id) == follow[id].lease => progress[id] = "resting"

TakenScope(id) ==
  progress[id] = "resting" => follow[id].fix # "taken" /\ follow[id].rebase # "taken"

TakenKindMatchesRun(id) ==
  progress[id] = "running" =>
    /\ follow[id].fix = "taken" => run[id].kind = "pr_fix"
    /\ follow[id].rebase = "taken" => run[id].kind = "rebase_fix"

BlockedReasonIffBlocked(id) == blockedReason[id] <=> progress[id] = "blocked"

\* The assertion in front of every write never fires: whatever order the verbs
\* come in, their preconditions alone keep each item on a declared node of the
\* product of progress and artifact, with its asks matching its run.
ItemInvariants == \A id \in Ids :
  /\ RunProgressConsistent(id)
  /\ RunNodeLegal(id)
  /\ MergedImpliesResting(id)
  /\ PrFixImpliesOpenTaken(id)
  /\ ProbeProcImpliesResting(id)
  /\ TakenScope(id)
  /\ TakenKindMatchesRun(id)
  /\ BlockedReasonIffBlocked(id)

-----------------------------------------------------------------------------
(* Ownership and hand-over to a human. *)

\* A session is recorded exactly where somebody must be found alive: a running
\* item always has an owner that liveness checks can judge, and an item that
\* has nothing volatile (queued, blocked, or resting with no pull request to
\* follow) never names one, so retire's check of the session cannot fail.
OwnerMatchesProgress == \A id \in Ids :
  /\ progress[id] = "running" => session[id] # None
  /\ progress[id] \in {"absent", "queued", "blocked"} => session[id] = None
  /\ progress[id] = "resting" /\ ~HasFollow(id) => session[id] = None

\* A pull request handed to a human is touched by no machine: no session owns
\* it, no watch process holds a lease on it and no run works on it until a
\* human resumes it or the tracker lists the task again.
HumanLatch == \A id \in Ids :
  follow[id].attention \in HumanReasons =>
    /\ session[id] = None
    /\ ~follow[id].lease
    /\ progress[id] \in {"resting", "queued"}

\* A fix run has paid for its attempt: whichever path led to it, the count of
\* the cycle is between 1 and FIX_ATTEMPT_LIMIT while the run exists.
FixRunWithinLimit == \A id \in Ids :
  progress[id] = "running" /\ run[id].kind = "pr_fix" =>
    follow[id].fixAttempts \in 1 .. FixAttemptLimit

\* Over the life of a pull request handled only grows, and only by the comments
\* of a fix that a finalize of its own pr_fix run shipped.
HandledOnlyByShip ==
  [][\A id \in Ids : HasFollow(id) /\ HasFollow(id)' =>
       \/ follow'[id].handled = follow[id].handled
       \/ /\ run[id].kind = "pr_fix" /\ run[id].phase = "finalize"
          /\ progress'[id] = "resting"
          /\ follow'[id].handled = follow[id].handled \cup follow[id].fixIds]_vars

\* A fix ask that a run consumed is not forgotten: it ends by its comments being
\* handled, or by a claim that starts the task over, or with the item itself.
TakenFixIsSettled ==
  [][\A id \in Ids : follow[id].fix = "taken" =>
       \/ follow'[id].fix = "taken" /\ follow'[id].fixIds = follow[id].fixIds
       \/ follow[id].fixIds \subseteq follow'[id].handled /\ progress'[id] = "resting"
       \/ progress[id] = "queued" /\ progress'[id] = "running"
       \/ progress'[id] = "absent"]_vars

-----------------------------------------------------------------------------
(* What the queue promises to everything outside of the state directory. *)

StatusOf == [absent |-> "absent", queued |-> "approved", running |-> "in_progress",
             blocked |-> "blocked", resting |-> "in_review"]

\* deriveStatus, the status the trackers and the reports know a task by.
DerivedStatus(id) ==
  IF progress[id] = "resting" /\ artifact[id] = "merged" THEN "done"
  ELSE StatusOf[progress[id]]

Lifecycle == INSTANCE TaskLifecycle WITH
  status  <- [id \in Ids |-> DerivedStatus(id)],
  owner   <- session,
  consent <- relisted

\* Seen through the derived status, the queue is the life cycle TaskLifecycle
\* describes: done is final, a task returns to approved only by spending one
\* listing of the tracker, and only a task in progress or in review is owned.
ImplementsLifecycle == Lifecycle!Spec

StageOf == [absent |-> "absent", queued |-> "queued", running |-> "running",
            blocked |-> "idle", resting |-> "idle"]

TaskView(id) == INSTANCE TaskRun WITH
  stage    <- StageOf[progress[id]],
  executor <- run[id].executor,
  worktree <- worktree[id],
  intent   <- IF outbox[id].reason = "none" THEN -1 ELSE outbox[id].attempts

\* What the Driver relies on while it works on a task: an executor is gone with
\* its run, a recorded worktree stays until the task leaves, and a cleanup intent
\* comes with a retire or withdraw, keeps its attempts if it is asked for again,
\* and is removed by a sweep only.
ImplementsTaskRun ==
  /\ \A id \in Ids : TaskView(id)!Init
  /\ [][\A id \in Ids : UNCHANGED TaskView(id)!task \/ TaskView(id)!Next]_vars

GateView(id) == INSTANCE GateRun WITH
  node <- [kind |-> run[id].kind, gate |-> run[id].gate, phase |-> run[id].phase,
           attempts |-> run[id].attempts]

\* The gate of a task moves as GateRun says, whatever the queue and the other tasks
\* do meanwhile: each verb is one step of it, so what VerdictGate shows of a run holds
\* of those of the queue.  It does not say that a round is met once: a conflict at
\* finalize, its resolution and another conflict lead to rebase_fix with no round
\* counted twice within one run, and neither advance nor phase-fail can tell.
ImplementsGateRun ==
  /\ \A id \in Ids : GateView(id)!RunInit
  /\ [][\A id \in Ids : UNCHANGED GateView(id)!gateRun \/ GateView(id)!RunNext]_vars
=============================================================================

------------------------------- MODULE TaskRun -------------------------------
(***************************************************************************)
(* One task of the queue as the Driver sees it: where it stands, the agent *)
(* its run names as executor, whether its worktree is recorded, and its    *)
(* entry of cleanup_outbox.  TaskQueue implements this module for each of  *)
(* its tasks (ImplementsTaskRun); Driver is built on it.                   *)
(***************************************************************************)
EXTENDS Integers

CONSTANTS
  Agents,             \* execution agents
  None,               \* the null of state.json
  CleanupMaxAttempts  \* CLEANUP_MAX_ATTEMPTS (3 in the code)

ASSUME TaskRunAssumption == None \notin Agents /\ CleanupMaxAttempts \in Nat

VARIABLES
  stage,     \* "absent", "queued", "running" or "idle" (resting or blocked)
  executor,  \* run.executor, None when there is no run
  worktree,  \* are item.worktree and item.base set
  intent     \* failed attempts of the cleanup intent, NoIntent if there is none

task == <<stage, executor, worktree, intent>>

NoIntent == -1

\* appendCleanupIntent: an entry of the same id is never stacked or replaced.
RequestedIntent == IF intent = NoIntent THEN 0 ELSE intent

Approve ==
  /\ stage = "absent"
  /\ stage' = "queued"
  /\ UNCHANGED <<executor, worktree, intent>>

Claim ==
  /\ stage = "queued"
  /\ stage' = "running"
  /\ UNCHANGED <<executor, worktree, intent>>

\* fix-start and rebase-start: a finishing run begins without an executor.
StartFinishing ==
  /\ stage = "idle"
  /\ stage' = "running"
  /\ UNCHANGED <<executor, worktree, intent>>

\* ship, block, rebase-give-up: the run and its executor are dropped.
EndRun ==
  /\ stage = "running"
  /\ stage' = "idle"
  /\ executor' = None
  /\ UNCHANGED <<worktree, intent>>

Restore ==
  /\ stage = "idle"
  /\ stage' = "queued"
  /\ UNCHANGED <<executor, worktree, intent>>

Leave ==
  /\ stage' = "absent"
  /\ executor' = None
  /\ worktree' = FALSE

\* dequeue of a running item and withdraw-remove leave no cleanup intent.
Drop == stage \in {"running", "idle"} /\ Leave /\ UNCHANGED intent

Retire == stage = "idle" /\ Leave /\ intent' = RequestedIntent

Withdraw ==
  /\ stage = "idle"
  /\ intent' = RequestedIntent
  /\ UNCHANGED <<stage, executor, worktree>>

SetWorktree ==
  /\ stage = "running"
  /\ worktree' = TRUE
  /\ UNCHANGED <<stage, executor, intent>>

\* An agent is put in charge by a caller that saw the current one.
SetExecutor(a, expect) ==
  /\ stage = "running"
  /\ executor = expect
  /\ executor' = a
  /\ UNCHANGED <<stage, worktree, intent>>

\* Success removes the intent, failure counts up.
CleanupResolve(ok) ==
  /\ intent # NoIntent
  /\ intent' = IF ok THEN NoIntent ELSE intent + 1
  /\ UNCHANGED <<stage, executor, worktree>>

Init ==
  /\ stage = "absent" /\ executor = None /\ worktree = FALSE /\ intent = NoIntent

Next ==
  \/ Approve \/ Claim \/ StartFinishing \/ EndRun \/ Restore
  \/ Drop \/ Retire \/ Withdraw \/ SetWorktree
  \/ \E a \in Agents : SetExecutor(a, executor)
  \/ \E ok \in BOOLEAN : intent < CleanupMaxAttempts /\ CleanupResolve(ok)

Spec == Init /\ [][Next]_task
=============================================================================

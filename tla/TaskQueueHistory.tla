-------------------------- MODULE TaskQueueHistory --------------------------
(***************************************************************************)
(* TaskQueue with two records of the past that the program does not keep:  *)
(* the phases of a run that still owe a judgement, and the fix runs since  *)
(* a human last had a say.  Neither of them restricts a step.              *)
(***************************************************************************)
EXTENDS TaskQueue

VARIABLES
  owed,     \* phases of the run that no verifier has passed yet
  fixRuns   \* fix runs started since the last claim or human resumption

hvars == <<owed, fixRuns>>

\* INITIAL_GATE_PHASE_SEQUENCES and the main phases of the fix axes.
JudgedPhases(kind, gate) ==
  LET seq == MainSequence(kind, gate)
  IN  {seq[i] : i \in 1 .. Len(seq) - 1}

HInit ==
  /\ Init
  /\ owed = [id \in Ids |-> {}]
  /\ fixRuns = [id \in Ids |-> 0]

\* An engagement owes a judgement of each phase of its axis.
HStart(id) ==
  \/ /\ \E s \in Sessions : Claim(id, s)
     /\ owed' = [owed EXCEPT ![id] = JudgedPhases("initial", "full")]
     /\ fixRuns' = [fixRuns EXCEPT ![id] = 0]
  \/ /\ \E s \in Sessions : FixStart(id, s, NextResetsAttempts(id))
     /\ IF progress'[id] = "running"
        THEN /\ owed' = [owed EXCEPT ![id] = JudgedPhases("pr_fix", "none")]
             /\ fixRuns' = [fixRuns EXCEPT ![id] = @ + 1]
        ELSE UNCHANGED hvars
  \/ /\ \E s \in Sessions : RebaseCycleStart(id, s)
     /\ owed' = [owed EXCEPT ![id] = JudgedPhases("rebase_fix", "none")]
     /\ UNCHANGED fixRuns

\* A pass pays a phase; a detour owes one more, which giving up forgives.
HPhase(id) ==
  /\ \/ /\ SetGate(id)
        /\ owed' = [owed EXCEPT ![id] = JudgedPhases("initial", "light")]
     \/ \E from, to \in AllPhases :
          /\ Advance(id, from, to)
          /\ owed' = [owed EXCEPT ![id] = @ \ {from}]
     \/ /\ RebaseDetourStart(id)
        /\ owed' = [owed EXCEPT ![id] = @ \cup {"rebase_fix"}]
     \/ /\ RebaseForgo(id)
        /\ owed' = [owed EXCEPT ![id] = @ \ {"rebase_fix"}]
  /\ UNCHANGED fixRuns

HEnd(id) == EndStep(id) /\ owed' = [owed EXCEPT ![id] = {}] /\ UNCHANGED fixRuns

\* A human gave a task back that had been handed to one.
Resumed(id) ==
  follow[id].attention \in HumanReasons /\ follow'[id].attention = "auto"

HFollow(id) ==
  /\ FollowStep(id)
  /\ UNCHANGED owed
  /\ fixRuns' = IF Resumed(id) THEN [fixRuns EXCEPT ![id] = 0] ELSE fixRuns

HOther(id) ==
  /\ QueueStep(id) \/ RunStep(id) \/ ArtifactStep(id) \/ LedgerStep(id)
  /\ UNCHANGED hvars

HNext == \E id \in Ids :
  HStart(id) \/ HPhase(id) \/ HEnd(id) \/ HFollow(id) \/ HOther(id)

HSpec == HInit /\ [][HNext]_<<vars, hvars>>

\* Nothing is shipped unjudged: a run stands at finalize only when every phase
\* its kind and gate prescribe was passed, and the detour too unless it was
\* given up (rebase-forgo, the one edge that skips the gate on purpose).
FinalizeIsJudged == \A id \in Ids :
  progress[id] = "running" /\ run[id].phase = "finalize" => owed[id] = {}

\* The machine answers a review at most FIX_ATTEMPT_LIMIT times in a row: no
\* order of latches, observations, releases and resets buys it another run
\* before a human resumes the task or the tracker lists it again.
FixRunsBounded == \A id \in Ids : fixRuns[id] <= FixAttemptLimit
=============================================================================

-------------------------------- MODULE NextPlan --------------------------------
(***************************************************************************)
(* deriveNext: what is due, as a function of the queue and of what the     *)
(* caller found out about the sessions.  It is pure; nothing is locked     *)
(* while its answer is acted upon.                                         *)
(*                                                                         *)
(* Tasks are numbers in the order of the queue.  The ages next computes    *)
(* are the outcomes of its comparisons: silent (no event of the executor   *)
(* for more than 90 min), takeover "elapsed" (set for 30 min or more),     *)
(* heard (an event after the takeover was set), expired (a watch process   *)
(* recorded for 7 h or more).                                              *)
(*                                                                         *)
(* A pending "fix" stands for asks.fix and asks.rebase, which next answers *)
(* alike.  Left out: max_tasks, attempts and stagnation of fixes,          *)
(* attention, retire, the observations and the stalled field.              *)
(***************************************************************************)
EXTENDS Integers, FiniteSets

CONSTANTS
  None,
  InflightLimit,   \* INFLIGHT_LIMIT: initial runs of other live sessions
  MaxOpen          \* max_open: pull requests that wait for a review

\* An input of next: in.items, in.session, in.alive, in.dead (tasks with strong
\* evidence of an orphan) and in.lease (session of the controller lease).

\* Mutant: a heartbeat counts however old it is.
UndyingOwnership(i, in) ==
  IF i.session = None THEN "unowned"
  ELSE IF i.session = in.session THEN "self"
  ELSE "alive-other"

\* classifySessionOwnership.
Ownership(i, in) ==
  IF i.session = None THEN "unowned"
  ELSE IF i.session = in.session THEN "self"
  ELSE IF i.session \in in.alive THEN "alive-other"
  ELSE "dead"

Evidenced(id, in) == Ownership(in.items[id], in) # "self" /\ id \in in.dead

Excluded(id, in) == Ownership(in.items[id], in) = "alive-other" /\ ~Evidenced(id, in)

\* activeForeignLeaseOf.
DriverLeaseHeld(in) == in.lease \notin {None, in.session} /\ in.lease \in in.alive

Running(in, kinds) ==
  {id \in DOMAIN in.items : in.items[id].progress = "running" /\ in.items[id].kind \in kinds}
Finishing == {"pr_fix", "rebase_fix"}

\* countsOf, as far as decisions depend on it.
AttendableInitial(in) == {id \in Running(in, {"initial"}) : ~Excluded(id, in)}
ExcludedInitial(in) == {id \in Running(in, {"initial"}) : Excluded(id, in)}
MineFinishing(in) ==
  {id \in Running(in, Finishing) : ~Excluded(id, in) /\ in.items[id].session = in.session}
OpenPrs(in) ==
  {id \in DOMAIN in.items :
     ~Excluded(id, in) /\ in.items[id].progress = "resting" /\ in.items[id].open}

\* takeoverSlotBusy: does the session have another run of the same class?
TakeoverSlotBusy(id, in) ==
  LET class == IF in.items[id].kind \in Finishing THEN Finishing ELSE {"initial"}
  IN  \E other \in Running(in, class) \ {id} : in.items[other].session = in.session

Act(act) == [act |-> act, replaces |-> None]

\* livenessAction.
LivenessAction(id, in) ==
  LET i == in.items[id]
      takeover == IF TakeoverSlotBusy(id, in) THEN Act("wait")
                  ELSE [act |-> "takeover", replaces |-> i.executor]
  IN  IF DriverLeaseHeld(in) THEN Act("wait")
      ELSE IF Evidenced(id, in) THEN takeover
      ELSE IF i.takeover # "none"
           THEN IF i.heard THEN Act("clear-takeover")
                ELSE IF i.takeover = "elapsed" THEN takeover ELSE Act("wait")
      ELSE IF i.executor = None THEN takeover
      ELSE IF ~i.silent THEN Act("wait")
      ELSE IF Ownership(i, in) = "dead" THEN Act("set-takeover")
      ELSE [act |-> "status-check", replaces |-> i.executor]

\* Mutant: only a watch process that is not recorded is started again.
LeaselessProbeAction(id, in) == IF ~in.items[id].probe THEN Act("probe-run") ELSE Act("none")

\* probeAction: none recorded, its session is gone, or it is recorded too long.
ProbeAction(id, in) ==
  LET i == in.items[id]
      ownerAlive == i.session # None /\ (i.session = in.session \/ i.session \in in.alive)
  IN  IF ~i.probe \/ ~ownerAlive \/ i.expired THEN Act("probe-run") ELSE Act("none")

\* Mutant: a pull request whose turn has not come stays as it is.
IdleCycleAction(id, in) ==
  IF in.items[id].session # None THEN Act("none")
  ELSE IF MineFinishing(in) # {} THEN Act("release") ELSE Act("fix-start")

\* cycleAction for a pending fix: one finishing run per session.
CycleAction(id, in) == IF MineFinishing(in) # {} THEN Act("release") ELSE Act("fix-start")

\* Mutant: runs that are nobody's any more are not counted.
OrphanlessStartBlocked(in) ==
  \/ DriverLeaseHeld(in)
  \/ \E id \in AttendableInitial(in) : in.items[id].session = in.session
  \/ Cardinality(ExcludedInitial(in)) >= InflightLimit
  \/ Cardinality(OpenPrs(in)) >= MaxOpen

\* Mutant: a blocked task counts as one in flight.
StuckStartBlocked(in) ==
  \/ DriverLeaseHeld(in)
  \/ AttendableInitial(in) # {}
  \/ \E id \in DOMAIN in.items : in.items[id].progress = "blocked"
  \/ Cardinality(ExcludedInitial(in)) >= InflightLimit
  \/ Cardinality(OpenPrs(in)) >= MaxOpen

\* startOf: driver_lease, own_initial, inflight_limit and max_open.
StartBlocked(in) ==
  \/ DriverLeaseHeld(in)
  \/ AttendableInitial(in) # {}
  \/ Cardinality(ExcludedInitial(in)) >= InflightLimit
  \/ Cardinality(OpenPrs(in)) >= MaxOpen

\* The first queued task the session may touch, if it may start one.
IsNext(id, in) ==
  LET queued == {j \in DOMAIN in.items : in.items[j].progress = "queued" /\ ~Excluded(j, in)}
  IN  ~StartBlocked(in) /\ id \in queued /\ \A j \in queued : id <= j

\* deriveTask: the action due for a task, "none" without one.
ActionFor(id, in) ==
  LET i == in.items[id] IN
  CASE Excluded(id, in)                             -> Act("none")
    [] ~Excluded(id, in) /\ i.progress = "queued"   ->
         IF IsNext(id, in) THEN Act("claim") ELSE Act("none")
    [] ~Excluded(id, in) /\ i.progress = "running"  -> LivenessAction(id, in)
    [] ~Excluded(id, in) /\ i.progress = "resting" /\ i.open ->
         IF i.fix = "none" THEN ProbeAction(id, in) ELSE CycleAction(id, in)
    [] OTHER                                        -> Act("none")

PlanOf(in) == [id \in DOMAIN in.items |-> ActionFor(id, in)]

\* The acts ACTION_PLANNERS gives to the Driver; it defers the others, that is it
\* leaves them to the orchestrators.
Executable == {"claim", "takeover", "status-check", "wait"}

\* selectDriverAction: the first one it can execute, waiting included.
DriverSelects(id, plan) ==
  /\ plan[id].act \in Executable
  /\ \A j \in DOMAIN plan : plan[j].act \in Executable => id <= j
=================================================================================

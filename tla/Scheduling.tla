------------------------------- MODULE Scheduling -------------------------------
(***************************************************************************)
(* The sessions of a project at one queue.  Each of them wakes up, touches *)
(* its heartbeat, asks for the living sessions and calls next once; then   *)
(* it works through the answer, one call after the other, while the other  *)
(* sessions, their executors and watch processes, the resident Driver and  *)
(* the clock go on.  Sessions and executors die, with or without notice.   *)
(***************************************************************************)
EXTENDS NextPlan, FiniteSetsExt

CONSTANTS
  Orchestrators,   \* sessions that run the loop of SKILL.md
  Drivers,         \* sessions of resident Drivers
  Steady,          \* sessions that do not die
  Tasks,           \* number of tasks, all approved
  Agents,          \* number of names for executors
  Scenarios        \* bounds: the orchestrators of a behaviour, and how many deaths, lost
                   \* notices and silences, requests for a fix, and starts of a Driver it has

Sessions == Orchestrators \cup Drivers
Ids == 1 .. Tasks

ASSUME SchedulingAssumption ==
  /\ None \notin Sessions \cup Nat /\ Orchestrators \cap Drivers = {}
  /\ Steady \subseteq Sessions
  /\ Tasks \in Nat /\ Agents \in Nat
  /\ \A c \in Scenarios : /\ Steady \subseteq c.team /\ c.team \subseteq Orchestrators
                          /\ c.mishaps \in Nat /\ c.asks \in Nat /\ c.starts \in Nat
  /\ InflightLimit \in Nat \ {0} /\ MaxOpen \in Nat \ {0}

VARIABLES
  items,     \* state.json: the queue
  lease,     \* state.json: session of the controller lease
  live,      \* sessions at work
  beat,      \* sessions whose heartbeat is young enough for sessions-alive
  plan,      \* what a session still has to do of the answer of its last next
  launched,  \* an executor a session has started and not yet recorded
  up,        \* executors at work that are recorded or are about to be
  watch,     \* the session whose watch process runs for a task, None without one
  lapsed,    \* ghost: sessions that have been late with their heartbeat
  left       \* bound: the mishaps, asks and starts that may still happen

queue == <<items, lease>>
processes == <<live, beat, up, watch>>
bounds == <<lapsed, left>>
vars == <<queue, processes, plan, launched, bounds>>

NoItem == [progress |-> "queued", session |-> None, kind |-> "none", executor |-> None,
           silent |-> FALSE, takeover |-> "none", heard |-> FALSE,
           open |-> FALSE, fix |-> "none", probe |-> FALSE, expired |-> FALSE]

\* Mutant: the executor of the run stays recorded.
LeakyEnded(i) == [i EXCEPT !.kind = "none", !.takeover = "none"]

\* The run leaves with what was recorded of its executor.
Ended(i) == [i EXCEPT !.kind = "none", !.executor = None, !.silent = FALSE,
                      !.takeover = "none", !.heard = FALSE]

NoPlan == [id \in Ids |-> Act("none")]
NoLaunch == [id |-> 0, agent |-> None, replaces |-> None]

Init ==
  /\ items = [id \in Ids |-> NoItem]
  /\ lease = None
  /\ \E c \in Scenarios :
       /\ live = c.team /\ beat = c.team
       /\ left = [mishaps |-> c.mishaps, asks |-> c.asks, starts |-> c.starts]
  /\ up = {}
  /\ plan = [s \in Sessions |-> NoPlan]
  /\ launched = [s \in Sessions |-> NoLaunch]
  /\ watch = [id \in Ids |-> None]
  /\ lapsed = {}

-----------------------------------------------------------------------------
(* An iteration: touch, sessions-alive and next in one step, and then the   *)
(* answer, a step for each call.                                            *)

Idle(s) == s \in live /\ plan[s] = NoPlan /\ launched[s] = NoLaunch

\* Tasks of others with strong evidence: the executor does not exist any more and
\* has left nothing (what it may have left is not modelled).
Orphans(s) ==
  {id \in Ids : items[id].progress = "running" /\ items[id].session # s
                /\ items[id].executor \notin up \cup {None}}

InputOf(s, alive, dead) ==
  [items |-> items, session |-> s, alive |-> alive, dead |-> dead, lease |-> lease]

\* Waiting is no step of its own.
Due(answer) == [id \in Ids |-> IF answer[id].act = "wait" THEN Act("none") ELSE answer[id]]

Iterate(s) ==
  /\ Idle(s) /\ s \in Orchestrators
  /\ beat' = beat \cup {s}
  /\ \E dead \in SUBSET Orphans(s) :
       plan' = [plan EXCEPT ![s] = Due(PlanOf(InputOf(s, beat', dead)))]
  /\ UNCHANGED <<queue, live, up, watch, launched, bounds>>

\* A cycle of the Driver.  driver-start.sh gives it no --alive and no --dead-tasks,
\* and of the answer it takes one action.
Cycle(d) ==
  /\ Idle(d) /\ lease = d
  /\ beat' = beat \cup {d}
  /\ LET answer == PlanOf(InputOf(d, {}, {})) IN
     plan' = [plan EXCEPT ![d] =
       Due([id \in Ids |-> IF DriverSelects(id, answer) THEN answer[id] ELSE Act("none")])]
  /\ UNCHANGED <<queue, live, up, watch, launched, bounds>>

\* SKILL.md's order: pull requests first, then what is in flight, then new work; each
\* in the order of the queue.
Rank(act) ==
  CASE act \in {"probe-run", "release", "fix-start", "launch"} -> 1
    [] act \in {"takeover", "status-check", "set-takeover", "clear-takeover"} -> 2
    [] act = "claim" -> 3
    [] act = "none" -> 4

Turn(s, id, act) ==
  /\ s \in live /\ launched[s] = NoLaunch
  /\ plan[s][id].act = act
  /\ \A j \in Ids \ {id} :
       \/ Rank(plan[s][j].act) > Rank(act)
       \/ Rank(plan[s][j].act) = Rank(act) /\ j > id

Done(s, id) == plan' = [plan EXCEPT ![s][id] = Act("none")]

\* A call whose precondition fails changes nothing; the task is left alone.
Call(s, id, act, precondition, item) ==
  /\ Turn(s, id, act)
  /\ items' = IF precondition THEN [items EXCEPT ![id] = item] ELSE items
  /\ UNCHANGED <<lease, processes, launched, bounds>>

\* claim and fix-start; an orchestrator starts the executor next, the Driver in a
\* later cycle.
Begin(s, id, act, precondition, item) ==
  /\ Call(s, id, act, precondition, item)
  /\ plan' = [plan EXCEPT ![s][id] =
                IF precondition /\ s \in Orchestrators THEN Act("launch") ELSE Act("none")]

Claim(s, id) ==
  Begin(s, id, "claim", items[id].progress = "queued",
        [items[id] EXCEPT !.progress = "running", !.kind = "initial", !.session = s])

FixStart(s, id) ==
  Begin(s, id, "fix-start", items[id].progress = "resting" /\ items[id].fix = "pending",
        [items[id] EXCEPT !.progress = "running", !.kind = "pr_fix", !.session = s,
                          !.fix = "taken", !.probe = FALSE])

\* An executor is started; an orchestrator that replaces another one drops the takeover
\* before.
Launch(s, id) ==
  /\ Turn(s, id, "launch") \/ Turn(s, id, "takeover")
  /\ LET drops == s \in Orchestrators /\ plan[s][id].act = "takeover"
         named == {items[j].executor : j \in Ids}
                  \cup {plan[t][j].replaces : t \in Sessions, j \in Ids}
                  \cup UNION {{launched[t].agent, launched[t].replaces} : t \in Sessions}
         fresh == (1 .. Agents) \ named
     IN  /\ fresh # {}
         /\ items' = IF drops THEN [items EXCEPT ![id].takeover = "none", ![id].heard = FALSE]
                     ELSE items
         /\ up' = up \cup {Min(fresh)}
         /\ launched' = [launched EXCEPT ![s] =
              [id |-> id, agent |-> Min(fresh), replaces |-> plan[s][id].replaces]]
  /\ Done(s, id)
  /\ UNCHANGED <<lease, live, beat, watch, bounds>>

Recorded(i, l, s) ==
  [i EXCEPT !.executor = l.agent, !.session = s, !.silent = FALSE,
            !.heard = (i.takeover # "none")]

\* An executor that is not recorded is left to itself.
Records(s, l, wins) ==
  /\ items' = IF wins THEN [items EXCEPT ![l.id] = Recorded(@, l, s)] ELSE items
  /\ up' = IF wins THEN up \ {l.replaces} ELSE up \ {l.agent}
  /\ launched' = [launched EXCEPT ![s] = NoLaunch]
  /\ UNCHANGED <<lease, live, beat, watch, plan, bounds>>

\* Mutant: the executor the caller saw is not compared.
UncomparedSetExecutor(s) ==
  /\ s \in live /\ launched[s] # NoLaunch
  /\ LET l == launched[s] IN Records(s, l, items[l.id].progress = "running")

\* set-executor names the executor next showed; one of two such calls wins.
SetExecutor(s) ==
  /\ s \in live /\ launched[s] # NoLaunch
  /\ LET l == launched[s] IN
     Records(s, l, items[l.id].progress = "running" /\ items[l.id].executor = l.replaces)

\* An event of the executor: touch-executor.
Heard(i) == [i EXCEPT !.silent = FALSE, !.heard = (i.takeover # "none")]
Awaited(i) == [i EXCEPT !.takeover = "pending", !.heard = FALSE]

\* A message to the executor arrives, if it is there, or the orchestrator gives it
\* time to answer.  A Driver asks Paseo, and changes nothing while the executor is busy
\* or gone.
StatusCheck(s, id) ==
  LET seen == plan[s][id].replaces IN
  /\ \/ seen \in up
        /\ Call(s, id, "status-check", items[id].executor = seen, Heard(items[id]))
     \/ s \in Orchestrators
        /\ Call(s, id, "status-check", items[id].progress = "running", Awaited(items[id]))
     \/ s \in Drivers
        /\ Call(s, id, "status-check", FALSE, items[id])
  /\ Done(s, id)

SetTakeover(s, id) ==
  Call(s, id, "set-takeover", items[id].progress = "running", Awaited(items[id]))
  /\ Done(s, id)

ClearTakeover(s, id) ==
  Call(s, id, "clear-takeover", items[id].progress = "running",
       [items[id] EXCEPT !.takeover = "none", !.heard = FALSE])
  /\ Done(s, id)

\* A fix whose turn has not come: whoever is free may take it.
Release(s, id) ==
  Call(s, id, "release", items[id].progress = "resting",
       [items[id] EXCEPT !.session = None, !.probe = FALSE, !.expired = FALSE])
  /\ Done(s, id)

\* A watch process is started and recorded.
ProbeRun(s, id) ==
  /\ Turn(s, id, "probe-run")
  /\ IF items[id].progress = "resting" /\ items[id].open /\ items[id].fix = "none"
     THEN /\ items' = [items EXCEPT ![id] = [@ EXCEPT
                !.session = s, !.probe = TRUE, !.expired = FALSE]]
          /\ watch' = [watch EXCEPT ![id] = s]
     ELSE UNCHANGED <<items, watch>>
  /\ Done(s, id)
  /\ UNCHANGED <<lease, live, beat, up, launched, bounds>>

SessionStep(s) ==
  \/ Iterate(s)
  \/ Cycle(s)
  \/ SetExecutor(s)
  \/ \E id \in Ids :
       \/ Claim(s, id) \/ FixStart(s, id) \/ Launch(s, id) \/ StatusCheck(s, id)
       \/ SetTakeover(s, id) \/ ClearTakeover(s, id) \/ Release(s, id) \/ ProbeRun(s, id)

-----------------------------------------------------------------------------
(* Executors and watch processes. *)

Working(id) == items[id].progress = "running" /\ items[id].executor \in up

\* Its session is there to see what it does.
Heeded(id) == Working(id) /\ items[id].session \in live

\* The executor stops with a protocol line; its session, or the Driver that waits for
\* it, notes the event.
Report(id) ==
  /\ Working(id) /\ {items[id].session, lease} \cap live # {}
  /\ items' = [items EXCEPT ![id] = Heard(@)]
  /\ UNCHANGED <<lease, processes, plan, launched, bounds>>

\* The run ends: an orchestrator has its phases judged and ships the result, or
\* blocks the task.  A Driver does neither.
Ends(id, item) ==
  /\ Heeded(id) /\ items[id].session \in Orchestrators
  /\ items' = [items EXCEPT ![id] = item]
  /\ up' = up \ {items[id].executor}
  /\ UNCHANGED <<lease, live, beat, watch, plan, launched, bounds>>

Finish(id) ==
  Ends(id, [Ended(items[id]) EXCEPT !.progress = "resting", !.open = TRUE, !.fix = "none"])

BlockTask(id) ==
  Ends(id, [Ended(items[id]) EXCEPT !.progress = "blocked", !.session = None])

\* A watch process ends; the session exits the probe and may ask for a fix.
WatchReports(id) ==
  /\ watch[id] \in live
  /\ watch' = [watch EXCEPT ![id] = None]
  /\ IF items[id].progress = "resting" /\ items[id].open
     THEN \/ items' = [items EXCEPT ![id].probe = FALSE, ![id].expired = FALSE]
             /\ UNCHANGED left
          \/ /\ left.asks > 0 /\ items[id].fix = "none"
             /\ items' = [items EXCEPT ![id].probe = FALSE, ![id].expired = FALSE,
                                       ![id].fix = "pending"]
             /\ left' = [left EXCEPT !.asks = @ - 1]
     ELSE UNCHANGED <<items, left>>
  /\ UNCHANGED <<lease, live, beat, up, plan, launched, lapsed>>

\* The user merges the pull request.
Merge(id) ==
  /\ items[id].progress = "resting" /\ items[id].open
  /\ items' = [items EXCEPT ![id] = [NoItem EXCEPT !.progress = "done"]]
  /\ UNCHANGED <<lease, processes, plan, launched, bounds>>

-----------------------------------------------------------------------------
(* The clock. *)

Mishap == left.mishaps > 0 /\ left' = [left EXCEPT !.mishaps = @ - 1]

FallsSilent(id) ==
  /\ items[id].executor # None /\ ~items[id].silent
  /\ IF Heeded(id) THEN Mishap ELSE UNCHANGED left
  /\ items' = [items EXCEPT ![id].silent = TRUE]
  /\ UNCHANGED <<lease, processes, plan, launched, lapsed>>

TakeoverElapses(id) ==
  /\ items[id].takeover = "pending"
  /\ items' = [items EXCEPT ![id].takeover = "elapsed"]
  /\ UNCHANGED <<lease, processes, plan, launched, bounds>>

\* A watch process ends by itself within 6 h.
ProbeExpires(id) ==
  /\ items[id].probe /\ ~items[id].expired /\ watch[id] = None
  /\ items' = [items EXCEPT ![id].expired = TRUE]
  /\ UNCHANGED <<lease, processes, plan, launched, bounds>>

HeartbeatLapses(s) ==
  /\ s \in beat \ live
  /\ beat' = beat \ {s}
  /\ UNCHANGED <<queue, live, up, watch, plan, launched, bounds>>

-----------------------------------------------------------------------------
(* Mishaps. *)

\* A session is late, or another one that had found its heartbeat stale removes it
\* just after it was touched.
LosesHeartbeat(s) ==
  /\ Mishap /\ s \in beat \cap live
  /\ beat' = beat \ {s} /\ lapsed' = lapsed \cup {s}
  /\ UNCHANGED <<queue, live, up, watch, plan, launched>>

\* A session dies with its watch processes; executors of Paseo may survive it.
SessionDies(s) ==
  /\ Mishap /\ s \in live \ Steady
  /\ live' = live \ {s}
  /\ \E dead \in SUBSET {items[id].executor : id \in {j \in Ids : items[j].session = s}} :
       up' = up \ (dead \cup {launched[s].agent})
  /\ watch' = [id \in Ids |-> IF watch[id] = s THEN None ELSE watch[id]]
  /\ plan' = [plan EXCEPT ![s] = NoPlan]
  /\ launched' = [launched EXCEPT ![s] = NoLaunch]
  /\ UNCHANGED <<queue, beat, lapsed>>

ExecutorDies(a) ==
  /\ Mishap /\ a \in up
  /\ up' = up \ {a}
  /\ UNCHANGED <<queue, live, beat, watch, plan, launched, lapsed>>

\* The end of a watch process goes unnoticed.
WatchDies(id) ==
  /\ Mishap /\ watch[id] # None
  /\ watch' = [watch EXCEPT ![id] = None]
  /\ UNCHANGED <<queue, live, beat, up, plan, launched, lapsed>>

-----------------------------------------------------------------------------
(* A Driver takes the lease, also the one it held when it died, and gives it *)
(* back when it is told to stop.  Its session is the same after a restart.  *)

DriverStarts(d) ==
  /\ d \notin live /\ lease \in {None, d}
  /\ live' = live \cup {d} /\ beat' = beat \cup {d}
  /\ lease' = d
  /\ left.starts > 0 /\ left' = [left EXCEPT !.starts = @ - 1]
  /\ UNCHANGED <<items, up, watch, plan, launched, lapsed>>

DriverStops(d) ==
  /\ Idle(d) /\ lease = d
  /\ live' = live \ {d}
  /\ lease' = None
  /\ UNCHANGED <<items, beat, up, watch, plan, launched, bounds>>

Next ==
  \/ \E s \in Sessions :
       SessionStep(s) \/ HeartbeatLapses(s) \/ LosesHeartbeat(s) \/ SessionDies(s)
  \/ \E d \in Drivers : DriverStarts(d) \/ DriverStops(d)
  \/ \E id \in Ids :
       \/ Report(id) \/ Finish(id) \/ BlockTask(id) \/ WatchReports(id) \/ Merge(id)
       \/ FallsSilent(id) \/ TakeoverElapses(id) \/ ProbeExpires(id) \/ WatchDies(id)
  \/ \E a \in 1 .. Agents : ExecutorDies(a)

Spec == Init /\ [][Next]_vars

\* Live sessions go on, the heartbeats of the others lapse; for each task, an executor
\* at work ends, a watch process ends, and time passes for what nobody attends to.
SessionGoesOn(s) == SessionStep(s) \/ HeartbeatLapses(s)
TaskGoesOn(id) ==
  \/ Finish(id) \/ BlockTask(id) \/ WatchReports(id)
  \/ ~Heeded(id) /\ FallsSilent(id)
  \/ TakeoverElapses(id) \/ ProbeExpires(id)

Fairness ==
  /\ \A s \in Sessions : WF_vars(SessionGoesOn(s))
  /\ \A id \in Ids : WF_vars(TaskGoesOn(id))

FairSpec == Spec /\ Fairness

-----------------------------------------------------------------------------
(* Properties. *)

TypeOK ==
  /\ \A id \in Ids :
       /\ items[id].progress \in {"queued", "running", "resting", "blocked", "done"}
       /\ items[id].session \in Sessions \cup {None}
       /\ items[id].kind # "none" <=> items[id].progress = "running"
       /\ items[id].executor # None => items[id].progress = "running"
       /\ items[id].executor \in (1 .. Agents) \cup {None}
       /\ watch[id] \in live \cup {None}
  /\ lease \in Drivers \cup {None}
  /\ beat \subseteq Sessions /\ lapsed \subseteq Sessions

RunsOf(s, kinds) ==
  {id \in Ids : items[id].progress = "running" /\ items[id].kind \in kinds
                /\ items[id].session = s}

\* A Driver, which does one thing for each answer of next, has at most one new task,
\* however many orphans it finds, and replaces the executor of a finishing run only
\* if it has no other one.  (set-executor cannot tell two runs without an executor
\* apart: a new task may end and come back as a fix while the Driver starts an executor
\* for it.)  An orchestrator may find two orphans in one answer, but never starts a new
\* task beside another one, though it decides on an answer that may be old by then.
SlotsHold ==
  /\ [](\A d \in Drivers : Cardinality(RunsOf(d, {"initial"})) <= 1)
  /\ [][\A d \in Drivers, id \in Ids :
         /\ items[id].session # d /\ items'[id].session = d
         /\ items[id].kind \in Finishing /\ items[id].executor # None
         => RunsOf(d, Finishing) = {}]_vars
  /\ [][\A s \in Sessions, id \in Ids :
         items[id].progress = "queued" /\ items'[id].session = s /\ items'[id].kind = "initial"
         => RunsOf(s, {"initial"}) = {}]_vars

\* An executor at work for a live orchestrator that was never late is replaced by that
\* session, or by the Driver, which takes its sessions for dead, but by no other
\* orchestrator: neither old evidence nor an old answer of next does it.
RunsOfTheLivingAreSafe ==
  [][\A id \in Ids :
       LET i == items[id] IN
       Working(id) /\ i.session \in (live \cap Orchestrators) \ lapsed
       /\ items'[id].executor \notin {i.executor, None}
       => items'[id].session \in Drivers \cup {i.session}]_vars

\* Again and again every run has an executor at work, whoever died or fell silent,
\* unless a Driver has the lease.
Orphaned(id) == items[id].progress = "running" /\ ~Working(id)
OrphansRecovered == []<>(lease \in live \/ \A id \in Ids : ~Orphaned(id))

\* The same under the lease of a Driver, as the documents have it.
OrphansRecoveredUnderLease == []<>(\A id \in Ids : ~Orphaned(id))

\* Requests for a fix are taken up, whoever is busy or dies.
AsksAnswered == []<>(lease \in live \/ \A id \in Ids : items[id].fix # "pending")

\* An open pull request is watched again after its watch process was lost.
PrsWatched ==
  \A id \in Ids :
    items[id].progress = "resting" /\ watch[id] = None
    ~> watch[id] # None \/ items[id].progress # "resting" \/ items[id].fix # "none"

\* Queued tasks are started, unless the user has max_open pull requests to review
\* or a Driver has the lease.
QueueMoves ==
  []<>(\/ lease \in live \/ \A id \in Ids : items[id].progress # "queued"
       \/ Cardinality({id \in Ids : items[id].progress = "resting"}) >= MaxOpen)
=================================================================================

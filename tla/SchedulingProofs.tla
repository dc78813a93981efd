--------------------------- MODULE SchedulingProofs ---------------------------
(***************************************************************************)
(* Theorems of Scheduling, for any number of sessions, tasks and names of  *)
(* executors and whatever goes wrong.  A session acts on an old answer of  *)
(* next, so the invariant says what of an answer is still true when it is  *)
(* acted upon, and why: only the session itself gives it runs, a task is   *)
(* new once, and the name of an executor stands for one run.               *)
(***************************************************************************)
EXTENDS Scheduling, FiniteSetTheorems, WellFoundedInduction, TLAPS

Names == 1 .. Agents
NameOrNone == Names \cup {None}
Progresses == {"queued", "running", "resting", "blocked", "done"}
Kinds == {"none", "initial", "pr_fix"}
Acts == {"none", "wait", "takeover", "clear-takeover", "set-takeover", "status-check",
         "probe-run", "release", "fix-start", "claim", "launch"}
Todos == [act : Acts, replaces : NameOrNone]
Launches == [id : Ids \cup {0}, agent : NameOrNone, replaces : NameOrNone]
Item == [progress : Progresses, session : Sessions \cup {None}, kind : Kinds,
         executor : NameOrNone, silent : BOOLEAN, takeover : {"none", "pending", "elapsed"},
         heard : BOOLEAN, open : BOOLEAN, fix : {"none", "pending", "taken"},
         probe : BOOLEAN, expired : BOOLEAN]

\* An item has a run while it is running, and an executor only then.
RunWhileRunning(i) ==
  /\ i.kind # "none" <=> i.progress = "running"
  /\ i.executor # None => i.progress = "running"

ItemsType ==
  /\ items \in [Ids -> Item]
  /\ \A id \in Ids : RunWhileRunning(items[id])

PlanType ==
  /\ plan \in [Sessions -> [Ids -> Todos]]
  /\ \A s \in Sessions, id \in Ids : plan[s][id].act = "launch" => plan[s][id].replaces = None

LaunchedType ==
  /\ launched \in [Sessions -> Launches]
  /\ \A s \in Sessions :
       launched[s] # NoLaunch => launched[s].id \in Ids /\ launched[s].agent \in Names

ProcessType ==
  /\ live \subseteq Sessions /\ beat \subseteq Sessions /\ lapsed \subseteq Sessions
  /\ lease \in Drivers \cup {None}
  /\ up \subseteq Names
  /\ watch \in [Ids -> (live \cap Orchestrators) \cup {None}]

\* A Driver takes one action of an answer, and of some kinds only.
DriverType ==
  \A d \in Drivers :
    /\ \A id \in Ids : plan[d][id].act \in {"none", "claim", "takeover", "status-check"}
    /\ \A id, j \in Ids : plan[d][id].act # "none" /\ plan[d][j].act # "none" => id = j
    /\ launched[d] # NoLaunch => \A id \in Ids : plan[d][id].act = "none"

TypeInv == ItemsType /\ PlanType /\ LaunchedType /\ ProcessType /\ DriverType

\* s is about to start an executor for a task, or has started one; a names the one
\* it saw.
Launched(s, id) == launched[s] # NoLaunch /\ launched[s].id = id
Taking(s, id) == plan[s][id].act \in {"takeover", "launch"} \/ Launched(s, id)
Replacing(s, id, a) ==
  \/ plan[s][id].act = "takeover" /\ plan[s][id].replaces = a
  \/ Launched(s, id) /\ launched[s].replaces = a

\* A task that can be new work of somebody, now or later.
New(id) == items[id].progress = "queued" \/ items[id].kind = "initial"

\* A session that is about to claim has no new task in hand and is about to take none.
ClaimsAreFree ==
  \A s \in Sessions, id \in Ids :
    plan[s][id].act = "claim" =>
      /\ RunsOf(s, {"initial"}) = {}
      /\ \A j \in Ids : Taking(s, j) => ~New(j)
      /\ \A j \in Ids : plan[s][j].act = "claim" => j = id

\* A Driver has one new task at most; what it is about to take is that one or no new task.
DriverSlots ==
  \A d \in Drivers :
    /\ \A id, j \in RunsOf(d, {"initial"}) : id = j
    /\ \A id \in Ids : Taking(d, id) /\ New(id) => RunsOf(d, {"initial"}) \subseteq {id}
    /\ \A id \in Ids, a \in Names :
         Replacing(d, id, a) /\ items[id].executor = a /\ items[id].kind \in Finishing
         => RunsOf(d, Finishing) \subseteq {id}

\* Names somebody may still compare with; a new executor has none of them.
Known(a) ==
  \/ \E j \in Ids : items[j].executor = a
  \/ \E t \in Sessions, j \in Ids : plan[t][j].replaces = a
  \/ \E t \in Sessions : launched[t].replaces = a

NamesAreNew ==
  \A s \in Sessions : launched[s] # NoLaunch =>
    /\ ~Known(launched[s].agent)
    /\ \A t \in Sessions : launched[t].agent = launched[s].agent => t = s

\* Orchestrators that were never late and are there to see what their executor does.
Attentive == (live \cap Orchestrators) \ lapsed

\* Whom an orchestrator is about to replace is gone, or its own, or of a session that
\* does not attend to it.
ReplacedAreGone ==
  \A s \in Orchestrators, id \in Ids, a \in Names :
    Replacing(s, id, a) /\ items[id].executor = a =>
      a \notin up \/ items[id].session \notin Attentive \ {s}

BeatsSeen == Attentive \subseteq beat

Answers == ClaimsAreFree /\ DriverSlots /\ NamesAreNew /\ ReplacedAreGone /\ BeatsSeen

IInv == TypeInv /\ Answers

-----------------------------------------------------------------------------
(* The constants, and the operators the model is built from. *)

\* What the assumption says of the constants.
LEMMA Constants ==
  /\ None \notin Sessions /\ None \notin Names /\ Orchestrators \cap Drivers = {}
  /\ Names \subseteq Nat /\ Ids \subseteq Nat /\ 0 \notin Ids /\ IsFiniteSet(Ids)
<1>1. IsFiniteSet(Ids)
  BY SchedulingAssumption, FS_Interval DEF Ids
<1>. QED
  BY <1>1, SchedulingAssumption DEF Names, Ids, Sessions

\* Min is what it says: natural numbers are well ordered.
LEMMA MinIsIn ==
  ASSUME NEW S \in SUBSET Nat, S # {}
  PROVE  Min(S) \in S
<1>. DEFINE R == OpToRel(<, Nat)
<1>1. PICK x \in S : \A y \in S : ~(<<y, x>> \in R)
  BY NatLessThanWellFounded, WFMin
<1>2. \A y \in S : x <= y
  <2>1. ASSUME NEW y \in S, y < x PROVE <<y, x>> \in R
    <3>1. <<y, x>> \in Nat \X Nat /\ <<y, x>>[1] < <<y, x>>[2]
      BY <2>1
    <3>. QED BY ONLY <3>1, Zenon DEF OpToRel
  <2>2. \A y \in S : ~(y < x)
    BY <1>1, <2>1, Zenon
  <2>. QED BY <2>2
<1>. QED
  BY <1>2 DEF Min

\* What an answer of next says of a task.
LEMMA LivenessFacts ==
  ASSUME NEW id, NEW in
  PROVE  LET r == LivenessAction(id, in) IN
         /\ r \in [act : Acts \ {"launch", "claim"}, replaces : {None, in.items[id].executor}]
         /\ r.act = "takeover" =>
              ~TakeoverSlotBusy(id, in) /\ r.replaces = in.items[id].executor
<1>. DEFINE r == LivenessAction(id, in)
            taken == [act |-> "takeover", replaces |-> in.items[id].executor]
            asked == [act |-> "status-check", replaces |-> in.items[id].executor]
<1>1. \/ r = taken /\ ~TakeoverSlotBusy(id, in)
      \/ r = asked
      \/ r \in {Act("wait"), Act("clear-takeover"), Act("set-takeover")}
  BY DEF LivenessAction
<1>. QED
  BY <1>1 DEF Act, Acts

\* What next offers for a task: a takeover of a run that is free to take only, a claim of
\* the next task only.
LEMMA ActionFacts ==
  ASSUME NEW id, NEW in
  PROVE  LET r == ActionFor(id, in)
             i == in.items[id]
         IN  /\ r \in [act : Acts \ {"launch"}, replaces : {None, i.executor}]
             /\ r.act = "takeover" =>
                  /\ ~Excluded(id, in) /\ i.progress = "running"
                  /\ ~TakeoverSlotBusy(id, in) /\ r.replaces = i.executor
             /\ r.act = "claim" => IsNext(id, in)
<1>. DEFINE r == ActionFor(id, in)
            i == in.items[id]
<1>1. \/ r = LivenessAction(id, in) /\ ~Excluded(id, in) /\ i.progress = "running"
      \/ r = Act("claim") /\ IsNext(id, in)
      \/ r \in {Act("none"), Act("probe-run"), Act("release"), Act("fix-start")}
  BY DEF ActionFor, ProbeAction, CycleAction
<1>2. CASE r = LivenessAction(id, in) /\ ~Excluded(id, in) /\ i.progress = "running"
  BY <1>2, LivenessFacts
<1>. QED
  BY <1>1, <1>2 DEF Act, Acts

\* A session that may start a task has no new one, and of two answers claim one task.
LEMMA ClaimFacts ==
  ASSUME NEW in, NEW id \in Ids, NEW j \in Ids, DOMAIN in.items = Ids, IsNext(id, in)
  PROVE  /\ in.items[id].progress = "queued"
         /\ IsNext(j, in) => j = id
         /\ in.items[j].progress = "running" /\ in.items[j].kind = "initial" => Excluded(j, in)
<1>1. id \in Nat /\ j \in Nat
  BY Constants
<1>2. IsNext(j, in) => j <= id /\ id <= j
  BY DEF IsNext
<1>. QED
  BY <1>1, <1>2 DEF IsNext, StartBlocked, AttendableInitial, Running

-----------------------------------------------------------------------------
(* Most steps are calm: they leave the runs alone or end one, drop what a    *)
(* session was about to do, and lose executors and sessions.  A calm step    *)
(* keeps all that is said of answers.                                        *)

SameRun(i, k) ==
  /\ k.progress = i.progress /\ k.session = i.session
  /\ k.kind = i.kind /\ k.executor = i.executor

\* Without a run, and never new work again.
Retired(k) ==
  k.kind = "none" /\ k.executor = None /\ k.progress \in {"resting", "blocked", "done"}

Quiet(i, k) ==
  /\ k \in Item
  /\ \/ SameRun(i, k)
     \/ Retired(k) /\ (i.progress = "running" => k.session \in {i.session, None})

CalmItems == items' \in [Ids -> Item] /\ \A id \in Ids : Quiet(items[id], items'[id])

CalmPlans ==
  /\ plan' \in [Sessions -> [Ids -> Todos]]
  /\ \A s \in Sessions, id \in Ids : plan'[s][id] \in {plan[s][id], Act("none")}

CalmLaunches ==
  /\ launched' \in [Sessions -> Launches]
  /\ \A s \in Sessions : launched'[s] \in {launched[s], NoLaunch}

CalmStep ==
  CalmItems /\ CalmPlans /\ CalmLaunches /\ up' \subseteq up /\ Attentive' \subseteq Attentive

\* What calm steps share about one task and one session.
LEMMA CalmFacts ==
  ASSUME TypeInv, CalmStep
  PROVE  /\ \A id \in Ids : New(id)' => New(id)
         /\ \A s \in Sessions, kinds \in {{"initial"}, Finishing} :
              RunsOf(s, kinds)' \subseteq RunsOf(s, kinds)
         /\ \A s \in Sessions, id \in Ids : plan'[s][id].act # "none" => plan'[s][id] = plan[s][id]
         /\ \A s \in Sessions, id \in Ids : Taking(s, id)' => Taking(s, id)
         /\ \A s \in Sessions, id \in Ids, a \in Names : Replacing(s, id, a)' => Replacing(s, id, a)
         /\ \A id \in Ids, a \in Names : items'[id].executor = a => SameRun(items[id], items'[id])
<1>1. \A id \in Ids : New(id)' => New(id)
  BY DEF CalmStep, CalmItems, Quiet, SameRun, Retired, New
<1>2. \A s \in Sessions, kinds \in {{"initial"}, Finishing} :
        RunsOf(s, kinds)' \subseteq RunsOf(s, kinds)
  BY DEF CalmStep, CalmItems, Quiet, SameRun, Retired, RunsOf
<1>3. \A s \in Sessions, id \in Ids : plan'[s][id].act # "none" => plan'[s][id] = plan[s][id]
  BY DEF CalmStep, CalmPlans, Act
<1>4. \A s \in Sessions, id \in Ids : Launched(s, id)' =>
        Launched(s, id) /\ launched'[s] = launched[s]
  BY DEF CalmStep, CalmLaunches, Launched
<1>5. \A s \in Sessions, id \in Ids : Taking(s, id)' => Taking(s, id)
  BY <1>3, <1>4 DEF Taking
<1>6. \A s \in Sessions, id \in Ids, a \in Names : Replacing(s, id, a)' => Replacing(s, id, a)
  BY <1>3, <1>4 DEF Replacing
<1>7. \A id \in Ids, a \in Names : items'[id].executor = a => SameRun(items[id], items'[id])
  BY Constants DEF CalmStep, CalmItems, Quiet, Retired
<1>. QED
  BY <1>1, <1>2, <1>3, <1>5, <1>6, <1>7

\* A calm step keeps the types.
LEMMA CalmKeepsTypes ==
  ASSUME TypeInv, CalmStep
  PROVE  /\ ItemsType' /\ PlanType' /\ LaunchedType' /\ DriverType'
         /\ up' \subseteq Names
<1>1. ItemsType'
  BY DEF TypeInv, ItemsType, RunWhileRunning, CalmStep, CalmItems, Quiet, SameRun, Retired
<1>2. PlanType'
  BY CalmFacts DEF TypeInv, PlanType, CalmStep, CalmPlans, Act
<1>3. LaunchedType'
  BY DEF TypeInv, LaunchedType, CalmStep, CalmLaunches
<1>4. DriverType'
  <2>1. \A d \in Drivers : d \in Sessions
    BY DEF Sessions
  <2>2. \A d \in Drivers, id \in Ids : plan'[d][id].act \in {plan[d][id].act, "none"}
    BY <2>1 DEF CalmStep, CalmPlans, Act
  <2>3. \A d \in Drivers : launched'[d] # NoLaunch => launched[d] # NoLaunch
    BY <2>1 DEF CalmStep, CalmLaunches
  <2>. QED BY <2>2, <2>3 DEF TypeInv, DriverType
<1>. QED
  BY <1>1, <1>2, <1>3, <1>4 DEF TypeInv, ProcessType, CalmStep

\* A calm step keeps what holds of old answers.
LEMMA CalmKeepsAnswers ==
  ASSUME IInv, CalmStep
  PROVE  ClaimsAreFree' /\ DriverSlots' /\ NamesAreNew' /\ ReplacedAreGone'
<1>. USE DEF IInv, Answers
<1>1. \A d \in Drivers : d \in Sessions
  BY DEF Sessions
<1>2. ClaimsAreFree'
  <2>. SUFFICES ASSUME NEW s \in Sessions, NEW id \in Ids, plan'[s][id].act = "claim"
                PROVE  /\ RunsOf(s, {"initial"})' = {}
                       /\ \A j \in Ids : Taking(s, j)' => ~New(j)'
                       /\ \A j \in Ids : plan'[s][j].act = "claim" => j = id
    BY DEF ClaimsAreFree
  <2>1. plan[s][id].act = "claim" /\ \A j \in Ids : plan'[s][j].act = "claim" => plan[s][j].act = "claim"
    BY CalmFacts
  <2>. QED BY <2>1, CalmFacts DEF ClaimsAreFree
<1>3. DriverSlots'
  <2>. SUFFICES ASSUME NEW d \in Drivers
                PROVE  /\ \A id, j \in RunsOf(d, {"initial"})' : id = j
                       /\ \A id \in Ids : Taking(d, id)' /\ New(id)' => RunsOf(d, {"initial"})' \subseteq {id}
                       /\ \A id \in Ids, a \in Names :
                            Replacing(d, id, a)' /\ items'[id].executor = a /\ items'[id].kind \in Finishing
                            => RunsOf(d, Finishing)' \subseteq {id}
    BY DEF DriverSlots
  <2>1. RunsOf(d, {"initial"})' \subseteq RunsOf(d, {"initial"}) /\ RunsOf(d, Finishing)' \subseteq RunsOf(d, Finishing)
    BY <1>1, CalmFacts
  <2>2. \A id \in Ids, a \in Names : items'[id].executor = a =>
          items[id].executor = a /\ items'[id].kind = items[id].kind
    BY CalmFacts DEF SameRun
  <2>. QED BY <1>1, <2>1, <2>2, CalmFacts DEF DriverSlots
<1>4. NamesAreNew'
  <2>1. \A a \in Names : Known(a)' => Known(a)
    <3>1. \A a \in Names, t \in Sessions, j \in Ids : plan'[t][j].replaces = a => plan[t][j].replaces = a
      <4>. SUFFICES ASSUME NEW a \in Names, NEW t \in Sessions, NEW j \in Ids,
                           plan'[t][j].replaces = a
                    PROVE  plan'[t][j] = plan[t][j]
        OBVIOUS
      <4>1. plan'[t][j] # Act("none")
        BY Constants DEF Act
      <4>. QED BY <4>1 DEF CalmStep, CalmPlans
    <3>2. \A a \in Names, t \in Sessions : launched'[t].replaces = a => launched[t].replaces = a
      BY Constants DEF CalmStep, CalmLaunches, NoLaunch
    <3>. QED BY <3>1, <3>2, CalmFacts DEF Known, SameRun
  <2>. SUFFICES ASSUME NEW s \in Sessions, launched'[s] # NoLaunch
                PROVE  /\ ~Known(launched[s].agent)'
                       /\ \A t \in Sessions : launched'[t].agent = launched'[s].agent => t = s
    BY DEF NamesAreNew
  <2>2. launched'[s] = launched[s] /\ launched[s].agent \in Names
    BY DEF CalmStep, CalmLaunches, TypeInv, LaunchedType
  <2>3. \A t \in Sessions : launched'[t].agent = launched[s].agent => launched[t].agent = launched[s].agent
    BY <2>2, Constants DEF CalmStep, CalmLaunches, NoLaunch
  <2>4. launched[s] # NoLaunch
    BY <2>2
  <2>5. ~Known(launched[s].agent) /\ \A t \in Sessions : launched[t].agent = launched[s].agent => t = s
    BY <2>4 DEF NamesAreNew
  <2>. QED BY <2>1, <2>2, <2>3, <2>5
<1>5. ReplacedAreGone'
  <2>. SUFFICES ASSUME NEW s \in Orchestrators, NEW id \in Ids, NEW a \in Names,
                       Replacing(s, id, a)', items'[id].executor = a
                PROVE  a \notin up' \/ items'[id].session \notin Attentive' \ {s}
    BY DEF ReplacedAreGone
  <2>1. s \in Sessions
    BY DEF Sessions
  <2>2. Replacing(s, id, a) /\ items[id].executor = a /\ items'[id].session = items[id].session
    BY <2>1, CalmFacts DEF SameRun
  <2>. QED BY <2>2 DEF ReplacedAreGone, CalmStep
<1>. QED
  BY <1>2, <1>3, <1>4, <1>5

-----------------------------------------------------------------------------
(* What each verb does to an item. *)

\* The run stays as it is.
LEMMA Touched ==
  ASSUME NEW i \in Item
  PROVE  /\ Quiet(i, i) /\ Quiet(i, Heard(i)) /\ Quiet(i, Awaited(i))
         /\ Quiet(i, [i EXCEPT !.takeover = "none", !.heard = FALSE])
         /\ Quiet(i, [i EXCEPT !.silent = TRUE])
         /\ Quiet(i, [i EXCEPT !.takeover = "elapsed"])
         /\ Quiet(i, [i EXCEPT !.expired = TRUE])
         /\ Quiet(i, [i EXCEPT !.probe = FALSE, !.expired = FALSE])
         /\ Quiet(i, [i EXCEPT !.probe = FALSE, !.expired = FALSE, !.fix = "pending"])
<1>1. PICK c \in BOOLEAN : c = (i.takeover # "none")
  OBVIOUS
<1>2. Quiet(i, Heard(i))
  BY <1>1 DEF Quiet, SameRun, Item, Heard
<1>. QED
  BY <1>2 DEF Quiet, SameRun, Item, Awaited

\* The item has no run.
LEMMA RunLeft ==
  ASSUME NEW i \in Item, NEW s \in Sessions
  PROVE  /\ Quiet(i, [Ended(i) EXCEPT !.progress = "resting", !.open = TRUE, !.fix = "none"])
         /\ Quiet(i, [Ended(i) EXCEPT !.progress = "blocked", !.session = None])
         /\ Quiet(i, [NoItem EXCEPT !.progress = "done"])
         /\ i.progress = "resting" /\ RunWhileRunning(i) =>
              /\ Quiet(i, [i EXCEPT !.session = None, !.probe = FALSE, !.expired = FALSE])
              /\ Quiet(i, [i EXCEPT !.session = s, !.probe = TRUE, !.expired = FALSE])
<1>1. Quiet(i, [NoItem EXCEPT !.progress = "done"])
  BY DEF Quiet, Retired, Item, NoItem, Progresses, Kinds, NameOrNone
<1>2. /\ Quiet(i, [Ended(i) EXCEPT !.progress = "resting", !.open = TRUE, !.fix = "none"])
      /\ Quiet(i, [Ended(i) EXCEPT !.progress = "blocked", !.session = None])
  BY DEF Quiet, Retired, Item, Ended, Progresses, Kinds, NameOrNone
<1>3. i.progress = "resting" /\ RunWhileRunning(i) =>
        /\ Quiet(i, [i EXCEPT !.session = None, !.probe = FALSE, !.expired = FALSE])
        /\ Quiet(i, [i EXCEPT !.session = s, !.probe = TRUE, !.expired = FALSE])
  BY DEF Quiet, Retired, Item, RunWhileRunning
<1>. QED
  BY <1>1, <1>2, <1>3

\* A run begins, or gets an executor.
LEMMA RunBegun ==
  ASSUME NEW i \in Item, NEW s \in Sessions, NEW l \in Launches
  PROVE  /\ [i EXCEPT !.progress = "running", !.kind = "initial", !.session = s] \in Item
         /\ [i EXCEPT !.progress = "running", !.kind = "pr_fix", !.session = s,
                      !.fix = "taken", !.probe = FALSE] \in Item
         /\ Recorded(i, l, s) \in Item
         /\ Recorded(i, l, s).executor = l.agent /\ Recorded(i, l, s).session = s
         /\ Recorded(i, l, s).kind = i.kind /\ Recorded(i, l, s).progress = i.progress
<1>1. PICK c \in BOOLEAN : c = (i.takeover # "none")
  OBVIOUS
<1>2. l.agent \in NameOrNone
  BY DEF Launches
<1>3. /\ Recorded(i, l, s) \in Item
      /\ Recorded(i, l, s).executor = l.agent /\ Recorded(i, l, s).session = s
      /\ Recorded(i, l, s).kind = i.kind /\ Recorded(i, l, s).progress = i.progress
  BY <1>1, <1>2 DEF Item, Recorded
<1>. QED
  BY <1>3 DEF Item, Progresses, Kinds

-----------------------------------------------------------------------------
(* The calm actions. *)

\* Where one item changes quietly, the items are calm.
LEMMA OneItemCalm ==
  ASSUME ItemsType, NEW id \in Ids, NEW k, Quiet(items[id], k),
         items' = [items EXCEPT ![id] = k]
  PROVE  CalmItems
BY Touched DEF ItemsType, CalmItems, Quiet

\* A step that leaves the tasks alone is calm for them.
LEMMA ItemsCalm == ItemsType /\ UNCHANGED items => CalmItems
BY Touched DEF ItemsType, CalmItems, Quiet

\* Having done an action, or giving up an answer, is calm.
LEMMA PlansCalm ==
  ASSUME PlanType,
         plan' = plan \/ (\E s \in Sessions, id \in Ids : Done(s, id))
         \/ (\E s \in Sessions : plan' = [plan EXCEPT ![s] = NoPlan])
  PROVE  CalmPlans
<1>1. Act("none") \in Todos /\ NoPlan \in [Ids -> Todos]
  BY DEF Act, Todos, Acts, NameOrNone, NoPlan
<1>2. CASE plan' = plan
  BY <1>2 DEF PlanType, CalmPlans
<1>3. ASSUME NEW s \in Sessions, NEW id \in Ids, Done(s, id) PROVE CalmPlans
  <2>1. plan' = [plan EXCEPT ![s] = [plan[s] EXCEPT ![id] = Act("none")]]
    BY <1>3 DEF Done
  <2>. QED BY <1>1, <2>1 DEF PlanType, CalmPlans
<1>4. ASSUME NEW s \in Sessions, plan' = [plan EXCEPT ![s] = NoPlan] PROVE CalmPlans
  BY <1>1, <1>4 DEF PlanType, CalmPlans, NoPlan
<1>. QED
  BY <1>2, <1>3, <1>4

\* So is giving up a launched executor.
LEMMA LaunchesCalm ==
  ASSUME LaunchedType,
         launched' = launched \/ (\E s \in Sessions : launched' = [launched EXCEPT ![s] = NoLaunch])
  PROVE  CalmLaunches
<1>1. NoLaunch \in Launches
  BY DEF NoLaunch, Launches, NameOrNone
<1>. QED
  BY <1>1 DEF LaunchedType, CalmLaunches

\* Steps that leave the processes alone keep what is said of them.
LEMMA ProcessesCalm ==
  ASSUME IInv, UNCHANGED <<lease, processes, lapsed>>
  PROVE  ProcessType' /\ BeatsSeen' /\ up' \subseteq up /\ Attentive' \subseteq Attentive
BY DEF IInv, TypeInv, Answers, ProcessType, BeatsSeen, Attentive, processes

\* A calm step keeps the invariant, if it keeps what is said of processes.
LEMMA CalmInv ==
  ASSUME IInv, CalmStep, ProcessType', BeatsSeen'
  PROVE  IInv'
<1>1. ItemsType' /\ PlanType' /\ LaunchedType' /\ DriverType'
  BY CalmKeepsTypes DEF IInv
<1>2. ClaimsAreFree' /\ DriverSlots' /\ NamesAreNew' /\ ReplacedAreGone'
  BY CalmKeepsAnswers
<1>. QED
  BY <1>1, <1>2 DEF IInv, TypeInv, Answers
\* The same where the processes are as they were.
LEMMA QuietInv ==
  ASSUME IInv, CalmItems, CalmPlans, UNCHANGED <<lease, processes, launched, lapsed>>
  PROVE  IInv'
<1>1. CalmLaunches
  BY LaunchesCalm DEF IInv, TypeInv
<1>. QED
  BY <1>1, ProcessesCalm, CalmInv DEF CalmStep

\* Calls that find their task as it should be, or change nothing.
LEMMA CallInv ==
  ASSUME IInv, NEW s \in Sessions, NEW id \in Ids,
         StatusCheck(s, id) \/ SetTakeover(s, id) \/ ClearTakeover(s, id) \/ Release(s, id)
  PROVE  IInv' /\ CalmItems
<1>1. items \in [Ids -> Item] /\ items[id] \in Item /\ RunWhileRunning(items[id]) /\ ItemsType
  BY DEF IInv, TypeInv, ItemsType
<1>2. CalmPlans
  BY PlansCalm DEF IInv, TypeInv, StatusCheck, SetTakeover, ClearTakeover, Release
<1>3. UNCHANGED <<lease, processes, launched, lapsed>>
  BY DEF StatusCheck, SetTakeover, ClearTakeover, Release, Call, bounds
<1>4. \/ UNCHANGED items
      \/ items' = [items EXCEPT ![id] = Heard(items[id])]
      \/ items' = [items EXCEPT ![id] = Awaited(items[id])]
      \/ items' = [items EXCEPT ![id] = [items[id] EXCEPT !.takeover = "none", !.heard = FALSE]]
      \/ /\ items[id].progress = "resting"
         /\ items' = [items EXCEPT ![id] =
                        [items[id] EXCEPT !.session = None, !.probe = FALSE, !.expired = FALSE]]
  <2>1. CASE StatusCheck(s, id)
    BY <2>1 DEF StatusCheck, Call
  <2>2. CASE SetTakeover(s, id) \/ ClearTakeover(s, id)
    BY <2>2 DEF SetTakeover, ClearTakeover, Call
  <2>3. CASE Release(s, id)
    BY <2>3 DEF Release, Call
  <2>. QED BY <2>1, <2>2, <2>3
<1>5. CalmItems
  <2>1. CASE UNCHANGED items
    BY <1>1, <2>1, ItemsCalm
  <2>2. CASE /\ items[id].progress = "resting"
             /\ items' = [items EXCEPT ![id] =
                            [items[id] EXCEPT !.session = None, !.probe = FALSE, !.expired = FALSE]]
    <3>1. Quiet(items[id], [items[id] EXCEPT !.session = None, !.probe = FALSE, !.expired = FALSE])
      BY <1>1, <2>2, RunLeft
    <3>. QED BY <1>1, <2>2, <3>1, OneItemCalm
  <2>3. CASE \/ items' = [items EXCEPT ![id] = Heard(items[id])]
             \/ items' = [items EXCEPT ![id] = Awaited(items[id])]
             \/ items' = [items EXCEPT ![id] = [items[id] EXCEPT !.takeover = "none", !.heard = FALSE]]
    <3>1. /\ Quiet(items[id], Heard(items[id])) /\ Quiet(items[id], Awaited(items[id]))
          /\ Quiet(items[id], [items[id] EXCEPT !.takeover = "none", !.heard = FALSE])
      BY <1>1, Touched
    <3>2. \A k : Quiet(items[id], k) /\ items' = [items EXCEPT ![id] = k] => CalmItems
      BY <1>1, OneItemCalm
    <3>. QED BY <2>3, <3>1, <3>2
  <2>. QED BY <1>4, <2>1, <2>2, <2>3
<1>. QED
  BY <1>2, <1>3, <1>5, QuietInv

\* probe-run keeps the invariant.
LEMMA ProbeRunInv ==
  ASSUME IInv, NEW s \in Sessions, NEW id \in Ids, ProbeRun(s, id)
  PROVE  IInv' /\ CalmItems
<1>1. items \in [Ids -> Item] /\ items[id] \in Item /\ RunWhileRunning(items[id]) /\ ItemsType
  BY DEF IInv, TypeInv, ItemsType
<1>2. CalmPlans /\ CalmLaunches
  BY PlansCalm, LaunchesCalm DEF IInv, TypeInv, ProbeRun
<1>3. \/ UNCHANGED items /\ UNCHANGED watch
      \/ /\ items[id].progress = "resting"
         /\ items' = [items EXCEPT ![id] =
                        [items[id] EXCEPT !.session = s, !.probe = TRUE, !.expired = FALSE]]
         /\ watch' = [watch EXCEPT ![id] = s]
  BY DEF ProbeRun
<1>4. CalmItems
  BY <1>1, <1>3, ItemsCalm, OneItemCalm, RunLeft
<1>5. s \in live /\ plan[s][id].act = "probe-run"
  BY DEF ProbeRun, Turn
<1>6. s \in live \cap Orchestrators
  BY <1>5 DEF IInv, TypeInv, DriverType, Sessions
<1>7. ProcessType' /\ BeatsSeen' /\ CalmStep
  BY <1>2, <1>3, <1>4, <1>6 DEF ProbeRun, bounds, IInv, TypeInv, ProcessType, Answers, BeatsSeen,
     Attentive, CalmStep
<1>. QED
  BY <1>4, <1>7, CalmInv

\* Executors, watch processes, the user and the clock.
LEMMA TaskInv ==
  ASSUME IInv, NEW id \in Ids,
         \/ Report(id) \/ Merge(id) \/ FallsSilent(id) \/ TakeoverElapses(id) \/ ProbeExpires(id)
  PROVE  IInv' /\ CalmItems
<1>1. items \in [Ids -> Item] /\ items[id] \in Item /\ RunWhileRunning(items[id]) /\ ItemsType
  BY DEF IInv, TypeInv, ItemsType
<1>2. UNCHANGED <<plan, launched, lease, processes, lapsed>>
  BY DEF Report, Merge, FallsSilent, TakeoverElapses, ProbeExpires, bounds, Mishap
<1>3. CalmPlans
  BY <1>2, PlansCalm DEF IInv, TypeInv
<1>4. \/ items' = [items EXCEPT ![id] = Heard(items[id])]
      \/ items' = [items EXCEPT ![id] = [NoItem EXCEPT !.progress = "done"]]
      \/ items' = [items EXCEPT ![id] = [items[id] EXCEPT !.silent = TRUE]]
      \/ items' = [items EXCEPT ![id] = [items[id] EXCEPT !.takeover = "elapsed"]]
      \/ items' = [items EXCEPT ![id] = [items[id] EXCEPT !.expired = TRUE]]
  BY DEF Report, Merge, FallsSilent, TakeoverElapses, ProbeExpires
<1>6. Quiet(items[id], [NoItem EXCEPT !.progress = "done"])
  BY DEF Quiet, Retired, Item, NoItem, Progresses, Kinds, NameOrNone
<1>7. CalmItems
  BY <1>1, <1>4, <1>6, OneItemCalm, Touched
<1>. QED
  BY <1>2, <1>3, <1>7, QuietInv

\* A run that ends, shipped or blocked, keeps the invariant.
LEMMA EndsInv ==
  ASSUME IInv, NEW id \in Ids, Finish(id) \/ BlockTask(id)
  PROVE  IInv' /\ CalmItems
<1>1. items[id] \in Item /\ ItemsType
  BY DEF IInv, TypeInv, ItemsType
<1>2. \/ items' = [items EXCEPT ![id] =
                [Ended(items[id]) EXCEPT !.progress = "resting", !.open = TRUE, !.fix = "none"]]
      \/ items' = [items EXCEPT ![id] =
                [Ended(items[id]) EXCEPT !.progress = "blocked", !.session = None]]
  BY DEF Finish, BlockTask, Ends
<1>3. items[id].session \in Sessions
  BY DEF Finish, BlockTask, Ends, Sessions
<1>4. CalmItems
  BY <1>1, <1>2, <1>3, OneItemCalm, RunLeft
<1>5. /\ UNCHANGED <<lease, live, beat, watch, plan, launched, lapsed>>
      /\ up' \subseteq up
  BY DEF Finish, BlockTask, Ends, bounds
<1>6. CalmPlans /\ CalmLaunches
  BY <1>5, PlansCalm, LaunchesCalm DEF IInv, TypeInv
<1>7. ProcessType' /\ BeatsSeen' /\ CalmStep
  BY <1>4, <1>5, <1>6 DEF IInv, TypeInv, ProcessType, Answers, BeatsSeen, Attentive, CalmStep
<1>. QED
  BY <1>4, <1>7, CalmInv

\* So does a watch process that reports.
LEMMA WatchReportsInv ==
  ASSUME IInv, NEW id \in Ids, WatchReports(id)
  PROVE  IInv' /\ CalmItems
<1>1. items[id] \in Item /\ ItemsType
  BY DEF IInv, TypeInv, ItemsType
<1>2. \/ UNCHANGED items
      \/ items' = [items EXCEPT ![id] = [items[id] EXCEPT !.probe = FALSE, !.expired = FALSE]]
      \/ items' = [items EXCEPT ![id] =
                     [items[id] EXCEPT !.probe = FALSE, !.expired = FALSE, !.fix = "pending"]]
  <2>1. items \in [Ids -> Item]
    BY <1>1 DEF ItemsType
  <2>. QED BY <1>1, <2>1 DEF WatchReports, Item
<1>3. CalmItems
  BY <1>1, <1>2, ItemsCalm, OneItemCalm, Touched
<1>4. /\ UNCHANGED <<lease, live, beat, up, plan, launched, lapsed>>
      /\ watch' = [watch EXCEPT ![id] = None]
  BY DEF WatchReports
<1>5. CalmPlans /\ CalmLaunches
  BY <1>4, PlansCalm, LaunchesCalm DEF IInv, TypeInv
<1>6. ProcessType' /\ BeatsSeen' /\ CalmStep
  BY <1>3, <1>4, <1>5 DEF IInv, TypeInv, ProcessType, Answers, BeatsSeen, Attentive, CalmStep
<1>. QED
  BY <1>3, <1>6, CalmInv
\* Heartbeats and deaths; Drivers come and go.
LEMMA ProcessInv ==
  ASSUME IInv, UNCHANGED items, CalmPlans, CalmLaunches, ProcessType', BeatsSeen',
         up' \subseteq up, Attentive' \subseteq Attentive
  PROVE  IInv'
<1>1. CalmItems
  BY ItemsCalm DEF IInv, TypeInv
<1>. QED
  BY <1>1, CalmInv DEF CalmStep

\* So does the loss of a heartbeat, a watch process or an executor.
LEMMA MishapInv ==
  ASSUME IInv, \/ \E s \in Sessions : HeartbeatLapses(s) \/ LosesHeartbeat(s)
               \/ \E id \in Ids : WatchDies(id)
               \/ \E a \in Names : ExecutorDies(a)
  PROVE  IInv'
<1>. USE DEF IInv, TypeInv, Answers
<1>1. UNCHANGED <<items, lease, live, plan, launched>>
  BY DEF HeartbeatLapses, LosesHeartbeat, WatchDies, ExecutorDies, queue
<1>2. CalmPlans /\ CalmLaunches
  BY <1>1, PlansCalm, LaunchesCalm
<1>3. CASE \E s \in Sessions : HeartbeatLapses(s)
  <2>1. PICK s \in Sessions : HeartbeatLapses(s)
    BY <1>3
  <2>2. UNCHANGED <<live, lease, up, watch, lapsed>> /\ beat' = beat \ {s} /\ s \notin live
    BY <2>1 DEF HeartbeatLapses, bounds, queue
  <2>. QED BY <1>1, <1>2, <2>2, ProcessInv DEF ProcessType, BeatsSeen, Attentive
<1>4. CASE \E s \in Sessions : LosesHeartbeat(s)
  <2>1. PICK s \in Sessions : LosesHeartbeat(s)
    BY <1>4
  <2>2. UNCHANGED <<live, lease, up, watch>> /\ beat' = beat \ {s} /\ lapsed' = lapsed \cup {s}
    BY <2>1 DEF LosesHeartbeat, queue
  <2>. QED BY <1>1, <1>2, <2>2, ProcessInv DEF ProcessType, BeatsSeen, Attentive
<1>5. CASE \E id \in Ids : WatchDies(id)
  <2>1. PICK id \in Ids : WatchDies(id)
    BY <1>5
  <2>2. UNCHANGED <<live, lease, up, beat, lapsed>> /\ watch' = [watch EXCEPT ![id] = None]
    BY <2>1 DEF WatchDies, queue
  <2>. QED BY <1>1, <1>2, <2>2, ProcessInv DEF ProcessType, BeatsSeen, Attentive
<1>6. CASE \E a \in Names : ExecutorDies(a)
  <2>1. PICK a \in Names : ExecutorDies(a)
    BY <1>6
  <2>2. UNCHANGED <<live, lease, watch, beat, lapsed>> /\ up' = up \ {a}
    BY <2>1 DEF ExecutorDies, queue
  <2>. QED BY <1>1, <1>2, <2>2, ProcessInv DEF ProcessType, BeatsSeen, Attentive
<1>. QED
  BY <1>3, <1>4, <1>5, <1>6

\* So does the death of a session.
LEMMA SessionDiesInv ==
  ASSUME IInv, NEW s \in Sessions, SessionDies(s)
  PROVE  IInv'
<1>. USE DEF IInv, TypeInv, Answers
<1>1. /\ UNCHANGED <<items, lease, beat, lapsed>>
      /\ plan' = [plan EXCEPT ![s] = NoPlan]
      /\ launched' = [launched EXCEPT ![s] = NoLaunch]
      /\ live' = live \ {s}
      /\ watch' = [id \in Ids |-> IF watch[id] = s THEN None ELSE watch[id]]
      /\ up' \subseteq up
  BY DEF SessionDies, queue
<1>2. CalmPlans /\ CalmLaunches
  BY <1>1, PlansCalm, LaunchesCalm
<1>3. watch' \in [Ids -> (live' \cap Orchestrators) \cup {None}]
  BY <1>1 DEF ProcessType
<1>. QED
  BY <1>1, <1>2, <1>3, ProcessInv DEF ProcessType, BeatsSeen, Attentive

\* So does a Driver that starts or stops.
LEMMA DriverInv ==
  ASSUME IInv, NEW d \in Drivers, DriverStarts(d) \/ DriverStops(d)
  PROVE  IInv'
<1>. USE DEF IInv, TypeInv, Answers
<1>1. d \in Sessions /\ d \notin Orchestrators
  BY Constants DEF Sessions
<1>2. UNCHANGED <<items, up, watch, plan, launched, lapsed>>
  BY DEF DriverStarts, DriverStops, bounds
<1>3. CalmPlans /\ CalmLaunches
  BY <1>2, PlansCalm, LaunchesCalm
<1>4. /\ live' \in {live \cup {d}, live \ {d}} /\ beat' \in {beat, beat \cup {d}}
      /\ lease' \in {d, None}
  BY DEF DriverStarts, DriverStops
<1>5. live' \cap Orchestrators = live \cap Orchestrators
  BY <1>1, <1>4
<1>6. Attentive' = Attentive
  BY <1>2, <1>5 DEF Attentive
<1>7. ProcessType' /\ BeatsSeen'
  BY <1>1, <1>2, <1>4, <1>5, <1>6 DEF ProcessType, BeatsSeen
<1>. QED
  BY <1>2, <1>3, <1>6, <1>7, ProcessInv

-----------------------------------------------------------------------------
(* An answer of next. *)

\* The answer as the session keeps it: no action, or one that was due when it asked.
LEMMA AnswerFacts ==
  ASSUME IInv, NEW s \in Sessions, NEW alive, NEW dead, NEW answer,
         answer = PlanOf(InputOf(s, alive, dead))
  PROVE  LET in == InputOf(s, alive, dead) IN
         \A id \in Ids :
           /\ answer[id] \in Todos /\ answer[id].act # "launch"
           /\ Due(answer)[id] \in {answer[id], Act("none")} /\ Due(answer)[id].act # "wait"
           /\ answer[id].replaces \in {None, items[id].executor}
           /\ answer[id].act = "takeover" =>
                /\ ~Excluded(id, in) /\ items[id].progress = "running"
                /\ ~TakeoverSlotBusy(id, in) /\ answer[id].replaces = items[id].executor
           /\ answer[id].act = "claim" => IsNext(id, in)
<1>. DEFINE in == InputOf(s, alive, dead)
<1>1. in.items = items
  BY DEF InputOf
<1>2. items \in [Ids -> Item] /\ DOMAIN items = Ids
  BY DEF IInv, TypeInv, ItemsType
<1>. SUFFICES ASSUME NEW id \in Ids
              PROVE  /\ answer[id] \in Todos /\ answer[id].act # "launch"
                     /\ Due(answer)[id] \in {answer[id], Act("none")} /\ Due(answer)[id].act # "wait"
                     /\ answer[id].replaces \in {None, items[id].executor}
                     /\ answer[id].act = "takeover" =>
                          /\ ~Excluded(id, in) /\ items[id].progress = "running"
                          /\ ~TakeoverSlotBusy(id, in) /\ answer[id].replaces = items[id].executor
                     /\ answer[id].act = "claim" => IsNext(id, in)
  OBVIOUS
<1>3. answer[id] = ActionFor(id, in)
  BY <1>1, <1>2 DEF PlanOf
<1>4. /\ answer[id] \in [act : Acts \ {"launch"}, replaces : {None, items[id].executor}]
      /\ answer[id].act = "takeover" =>
           /\ ~Excluded(id, in) /\ items[id].progress = "running"
           /\ ~TakeoverSlotBusy(id, in) /\ answer[id].replaces = items[id].executor
      /\ answer[id].act = "claim" => IsNext(id, in)
  BY <1>1, <1>3, ActionFacts
<1>5. items[id].executor \in NameOrNone
  BY <1>2 DEF Item
<1>6. Due(answer)[id] = IF answer[id].act = "wait" THEN Act("none") ELSE answer[id]
  BY DEF Due
<1>7. Due(answer)[id] \in {answer[id], Act("none")} /\ Due(answer)[id].act # "wait"
  BY <1>6 DEF Act
<1>8. answer[id] \in Todos /\ answer[id].act # "launch"
  BY <1>4, <1>5 DEF Todos, NameOrNone
<1>9. answer[id].replaces \in {None, items[id].executor}
  BY <1>4
<1>. QED
  BY <1>4, <1>7, <1>8, <1>9
\* What is said of answers holds of a new one.
LEMMA AskedKeeps ==
  ASSUME IInv, NEW s \in Sessions, NEW alive, NEW dead, NEW answer, NEW todo,
         answer = PlanOf(InputOf(s, alive, dead)),
         todo \in [Ids -> Todos], \A id \in Ids : todo[id] \in {answer[id], Act("none")},
         Idle(s), plan' = [plan EXCEPT ![s] = todo], UNCHANGED <<items, launched>>
  PROVE  ItemsType' /\ LaunchedType' /\ PlanType' /\ ClaimsAreFree' /\ DriverSlots' /\ NamesAreNew'
<1>. DEFINE in == InputOf(s, alive, dead)
<1>1. /\ items \in [Ids -> Item] /\ DOMAIN in.items = Ids /\ in.items = items /\ in.session = s
      /\ s # None
  BY Constants DEF IInv, TypeInv, ItemsType, InputOf
<1>2. /\ plan \in [Sessions -> [Ids -> Todos]] /\ plan' \in [Sessions -> [Ids -> Todos]]
      /\ plan'[s] = todo /\ \A t \in Sessions \ {s} : plan'[t] = plan[t]
  BY DEF IInv, TypeInv, PlanType
<1>3. launched[s] = NoLaunch
  BY DEF Idle
<1>4. \A id \in Ids : /\ todo[id].act # "none" => todo[id] = answer[id]
                      /\ todo[id].act # "launch"
                      /\ todo[id].replaces \in {None, items[id].executor}
                      /\ todo[id].act = "takeover" =>
                           /\ ~Excluded(id, in) /\ items[id].progress = "running"
                           /\ ~TakeoverSlotBusy(id, in)
                      /\ todo[id].act = "claim" => IsNext(id, in)
  BY AnswerFacts DEF Act
<1>5. ItemsType' /\ LaunchedType' /\ PlanType'
  BY <1>2, <1>4 DEF IInv, TypeInv, ItemsType, LaunchedType, PlanType
<1>6. \A id \in Ids : Taking(s, id)' => todo[id].act = "takeover"
  BY <1>2, <1>3, <1>4 DEF Taking, Launched
<1>7. \A t \in Sessions \ {s}, id \in Ids : Taking(t, id)' => Taking(t, id)
  BY <1>2 DEF Taking, Launched
<1>8. \A t \in Sessions : \A kinds : RunsOf(t, kinds)' = RunsOf(t, kinds)
  BY DEF RunsOf
<1>9. \A id \in Ids : New(id)' <=> New(id)
  BY DEF New
<1>10. \A id \in Ids : items[id].session = s => ~Excluded(id, in)
  BY <1>1 DEF Excluded, Ownership
<1>11. ClaimsAreFree'
  <2>1. ASSUME NEW t \in Sessions \ {s}, NEW id \in Ids, plan'[t][id].act = "claim"
        PROVE  /\ RunsOf(t, {"initial"})' = {}
               /\ \A j \in Ids : Taking(t, j)' => ~New(j)'
               /\ \A j \in Ids : plan'[t][j].act = "claim" => j = id
    BY <1>2, <1>7, <1>8, <1>9, <2>1 DEF IInv, Answers, ClaimsAreFree
  <2>2. ASSUME NEW id \in Ids, todo[id].act = "claim"
        PROVE  /\ RunsOf(s, {"initial"})' = {}
               /\ \A j \in Ids : Taking(s, j)' => ~New(j)'
               /\ \A j \in Ids : todo[j].act = "claim" => j = id
    <3>1. IsNext(id, in)
      BY <1>4, <2>2
    <3>2. \A j \in Ids : items[j].progress = "running" /\ items[j].kind = "initial" => Excluded(j, in)
      BY <1>1, <3>1, ClaimFacts
    <3>3. RunsOf(s, {"initial"}) = {}
      BY <1>10, <3>2 DEF RunsOf
    <3>4. \A j \in Ids : Taking(s, j)' => ~New(j)'
      BY <1>4, <1>6, <3>2 DEF New
    <3>5. \A j \in Ids : todo[j].act = "claim" => j = id
      BY <1>1, <1>4, <3>1, ClaimFacts
    <3>. QED BY <1>8, <3>3, <3>4, <3>5
  <2>. QED BY <1>2, <2>1, <2>2 DEF ClaimsAreFree
<1>12. DriverSlots'
  <2>. SUFFICES ASSUME NEW d \in Drivers
                PROVE  /\ \A id, j \in RunsOf(d, {"initial"})' : id = j
                       /\ \A id \in Ids : Taking(d, id)' /\ New(id)' => RunsOf(d, {"initial"})' \subseteq {id}
                       /\ \A id \in Ids, a \in Names :
                            Replacing(d, id, a)' /\ items'[id].executor = a /\ items'[id].kind \in Finishing
                            => RunsOf(d, Finishing)' \subseteq {id}
    BY DEF DriverSlots
  <2>1. d \in Sessions
    BY DEF Sessions
  <2>2. \A id, j \in RunsOf(d, {"initial"})' : id = j
    BY <1>8, <2>1 DEF IInv, Answers, DriverSlots
  <2>3. CASE d # s
    <3>1. \A id \in Ids, a \in Names : Replacing(d, id, a)' => Replacing(d, id, a)
      BY <1>2, <2>1, <2>3 DEF Replacing, Launched
    <3>. QED BY <1>7, <1>8, <1>9, <2>1, <2>2, <2>3, <3>1 DEF IInv, Answers, DriverSlots
  <2>4. CASE d = s
    <3>1. \A id \in Ids, a \in Names : Replacing(s, id, a)' => todo[id].act = "takeover"
      BY <1>2, <1>3 DEF Replacing, Launched
    <3>2. ASSUME NEW id \in Ids, todo[id].act = "takeover", New(id)
          PROVE  RunsOf(s, {"initial"}) \subseteq {id}
      <4>1. items[id].kind = "initial" /\ "initial" \notin Finishing
        BY <1>4, <3>2 DEF New, Finishing
      <4>2. ~\E other \in Running(in, {"initial"}) \ {id} : items[other].session = s
        BY <1>1, <1>4, <3>2, <4>1 DEF TakeoverSlotBusy
      <4>. QED BY <1>1, <4>2 DEF Running, RunsOf
    <3>3. ASSUME NEW id \in Ids, todo[id].act = "takeover", items[id].kind \in Finishing
          PROVE  RunsOf(s, Finishing) \subseteq {id}
      <4>1. ~\E other \in Running(in, Finishing) \ {id} : items[other].session = s
        BY <1>1, <1>4, <3>3 DEF TakeoverSlotBusy
      <4>. QED BY <1>1, <4>1 DEF Running, RunsOf
    <3>. QED BY <1>6, <1>8, <1>9, <2>2, <2>4, <3>1, <3>2, <3>3
  <2>. QED BY <2>3, <2>4
<1>13. NamesAreNew'
  <2>1. \A a \in Names : Known(a)' => Known(a)
    <3>. SUFFICES ASSUME NEW a \in Names, NEW t \in Sessions, NEW j \in Ids, plan'[t][j].replaces = a
                  PROVE  Known(a)
      BY DEF Known
    <3>1. CASE t = s
      BY <1>2, <1>4, <3>1, Constants DEF Known
    <3>2. CASE t # s
      BY <1>2, <3>2 DEF Known
    <3>. QED BY <3>1, <3>2
  <2>. QED BY <2>1 DEF IInv, TypeInv, LaunchedType, Answers, NamesAreNew
<1>. QED
  BY <1>5, <1>11, <1>12, <1>13

\* An orchestrator that asks next keeps the invariant.
LEMMA IterateInv ==
  ASSUME IInv, NEW s \in Sessions, Iterate(s)
  PROVE  IInv'
<1>1. PICK dead \in SUBSET Orphans(s) :
        plan' = [plan EXCEPT ![s] = Due(PlanOf(InputOf(s, beat', dead)))]
  BY DEF Iterate
<1>. DEFINE in == InputOf(s, beat', dead)
            answer == PlanOf(in)
            todo == Due(answer)
<1>2. /\ Idle(s) /\ s \in Orchestrators /\ s \notin Drivers /\ beat' = beat \cup {s}
      /\ UNCHANGED <<items, lease, live, up, watch, launched, lapsed>>
  BY Constants DEF Iterate, queue, bounds
<1>3. \A id \in Ids : answer[id] \in Todos /\ todo[id] \in {answer[id], Act("none")}
  BY AnswerFacts
<1>4. todo \in [Ids -> Todos]
  <2>1. Act("none") \in Todos
    BY DEF Act, Todos, Acts, NameOrNone
  <2>2. todo = [id \in Ids |-> todo[id]]
    BY DEF Due
  <2>. QED BY <1>3, <2>1, <2>2
<1>5. ItemsType' /\ LaunchedType' /\ PlanType' /\ ClaimsAreFree' /\ DriverSlots' /\ NamesAreNew'
  BY <1>1, <1>2, <1>3, <1>4, AskedKeeps
<1>6. plan'[s] = todo /\ \A t \in Sessions \ {s} : plan'[t] = plan[t]
  BY <1>1 DEF IInv, TypeInv, PlanType
<1>7. ProcessType' /\ BeatsSeen' /\ Attentive' = Attentive
  BY <1>2 DEF IInv, TypeInv, Answers, ProcessType, BeatsSeen, Attentive
<1>8. DriverType'
  BY <1>2, <1>6 DEF IInv, TypeInv, DriverType, Sessions
<1>9. ReplacedAreGone'
  <2>. SUFFICES ASSUME NEW t \in Orchestrators, NEW id \in Ids, NEW a \in Names,
                       Replacing(t, id, a)', items'[id].executor = a
                PROVE  a \notin up' \/ items'[id].session \notin Attentive' \ {t}
    BY DEF ReplacedAreGone
  <2>1. t \in Sessions
    BY DEF Sessions
  <2>2. CASE t # s
    <3>1. Replacing(t, id, a)
      BY <1>2, <1>6, <2>1, <2>2 DEF Replacing, Launched
    <3>. QED BY <1>2, <1>7, <3>1 DEF IInv, Answers, ReplacedAreGone
  <2>3. CASE t = s
    <3>1. todo[id].act = "takeover"
      BY <1>2, <1>6, <2>3 DEF Replacing, Launched, Idle
    <3>2. ~Excluded(id, in)
      BY <1>3, <3>1, AnswerFacts DEF Act
    <3>3. in.items = items /\ in.session = s /\ in.alive = beat' /\ in.dead = dead
      BY DEF InputOf
    <3>4. CASE Ownership(items[id], in) # "alive-other"
      <4>1. items[id].session = None \/ items[id].session = s \/ items[id].session \notin beat'
        BY <3>3, <3>4 DEF Ownership
      <4>. QED BY <1>2, <1>7, <2>3, <4>1, Constants DEF BeatsSeen, Attentive, Sessions
    <3>5. CASE id \in dead
      <4>1. items[id].executor \notin up
        BY <3>5 DEF Orphans
      <4>. QED BY <1>2, <4>1
    <3>. QED BY <3>2, <3>3, <3>4, <3>5 DEF Excluded, Evidenced
  <2>. QED BY <2>2, <2>3
<1>. QED
  BY <1>5, <1>7, <1>8, <1>9 DEF IInv, TypeInv, Answers

\* A cycle of a Driver keeps it; it takes one action of the answer.
LEMMA CycleInv ==
  ASSUME IInv, NEW s \in Sessions, Cycle(s)
  PROVE  IInv'
<1>. DEFINE in == InputOf(s, {}, {})
            answer == PlanOf(in)
            one == [id \in Ids |-> IF DriverSelects(id, answer) THEN answer[id] ELSE Act("none")]
            todo == Due(one)
<1>1. /\ Idle(s) /\ lease = s /\ beat' = beat \cup {s} /\ plan' = [plan EXCEPT ![s] = todo]
      /\ UNCHANGED <<items, lease, live, up, watch, launched, lapsed>>
  BY DEF Cycle, queue, bounds
<1>2. s \in Drivers /\ s \notin Orchestrators
  BY <1>1, Constants DEF IInv, TypeInv, ProcessType
<1>3. \A id \in Ids :
        /\ todo[id] \in {answer[id], Act("none")} /\ todo[id].act # "wait"
        /\ todo[id].act # "none" => DriverSelects(id, answer)
  <2>. SUFFICES ASSUME NEW id \in Ids
                PROVE  /\ todo[id] \in {answer[id], Act("none")} /\ todo[id].act # "wait"
                       /\ todo[id].act # "none" => DriverSelects(id, answer)
    OBVIOUS
  <2>1. one[id] = IF DriverSelects(id, answer) THEN answer[id] ELSE Act("none")
    OBVIOUS
  <2>2. todo[id] = IF one[id].act = "wait" THEN Act("none") ELSE one[id]
    BY DEF Due
  <2>3. Act("none").act = "none"
    BY DEF Act
  <2>. HIDE DEF one, todo, answer
  <2>. QED BY <2>1, <2>2, <2>3
<1>4. \A id \in Ids : answer[id] \in Todos
  BY AnswerFacts
<1>5. todo \in [Ids -> Todos]
  <2>1. Act("none") \in Todos
    BY DEF Act, Todos, Acts, NameOrNone
  <2>2. todo = [id \in Ids |-> todo[id]]
    BY DEF Due
  <2>. QED BY <1>3, <1>4, <2>1, <2>2
<1>6. ItemsType' /\ LaunchedType' /\ PlanType' /\ ClaimsAreFree' /\ DriverSlots' /\ NamesAreNew'
  <2>. HIDE DEF todo, answer, one
  <2>1. answer = PlanOf(InputOf(s, {}, {}))
    BY DEF answer
  <2>. QED BY <1>1, <1>3, <1>5, <2>1, AskedKeeps
<1>7. plan'[s] = todo /\ \A t \in Sessions \ {s} : plan'[t] = plan[t]
  BY <1>1 DEF IInv, TypeInv, PlanType
<1>8. ProcessType' /\ BeatsSeen' /\ Attentive' = Attentive
  BY <1>1 DEF IInv, TypeInv, Answers, ProcessType, BeatsSeen, Attentive
<1>9. DriverType'
  <2>. HIDE DEF todo
  <2>1. DOMAIN answer = Ids
    BY DEF PlanOf, InputOf, IInv, TypeInv, ItemsType
  <2>. HIDE DEF answer
  <2>2. \A id \in Ids : todo[id].act \in {"none", "claim", "takeover", "status-check"}
    BY <1>3 DEF DriverSelects, Executable, Act
  <2>3. \A id, j \in Ids : todo[id].act # "none" /\ todo[j].act # "none" => id = j
    <3>1. \A id, j \in Ids : todo[id].act # "none" /\ todo[j].act # "none" => id <= j /\ j <= id
      BY <1>3, <2>1 DEF DriverSelects
    <3>. QED BY <3>1, Constants
  <2>4. launched'[s] = NoLaunch
    BY <1>1 DEF Idle
  <2>. QED BY <1>1, <1>7, <2>2, <2>3, <2>4 DEF IInv, TypeInv, DriverType, Sessions
<1>10. ReplacedAreGone'
  <2>. SUFFICES ASSUME NEW t \in Orchestrators, NEW id \in Ids, NEW a \in Names,
                       Replacing(t, id, a)', items'[id].executor = a
                PROVE  a \notin up' \/ items'[id].session \notin Attentive' \ {t}
    BY DEF ReplacedAreGone
  <2>1. t \in Sessions \ {s}
    BY <1>2 DEF Sessions
  <2>2. Replacing(t, id, a)
    BY <1>1, <1>7, <2>1 DEF Replacing, Launched
  <2>. QED BY <1>1, <1>8, <2>2 DEF IInv, Answers, ReplacedAreGone
<1>. QED
  BY <1>6, <1>8, <1>9, <1>10 DEF IInv, TypeInv, Answers

-----------------------------------------------------------------------------
(* Claims and fixes. *)

\* A task gets a new run, without an executor: what is said of the others stays, and
\* of its own answer s drops this act and may start an executor.
LEMMA BegunKeeps ==
  ASSUME IInv, NEW s \in Sessions, NEW id \in Ids, NEW k, k \in Item,
         items' = [items EXCEPT ![id] = k], UNCHANGED <<launched, lease, processes, bounds>>,
         launched[s] = NoLaunch,
         k.progress = "running", k.kind \in {"initial", "pr_fix"}, k.session = s, k.executor = None,
         k.kind = "initial" => New(id),
         k.kind = "initial" => plan[s][id].act = "claim",
         plan[s][id].act # "none",
         plan' = [plan EXCEPT ![s][id] = IF s \in Orchestrators THEN Act("launch") ELSE Act("none")],
         s \in Drivers => k.kind = "initial",
         items[id].executor = None
  PROVE  IInv'
<1>. DEFINE todo == IF s \in Orchestrators THEN Act("launch") ELSE Act("none")
<1>. USE DEF IInv, TypeInv, Answers
<1>1. /\ items \in [Ids -> Item] /\ items' \in [Ids -> Item] /\ items'[id] = k
      /\ \A j \in Ids \ {id} : items'[j] = items[j]
  BY DEF ItemsType
<1>2. todo \in Todos /\ todo.act \in {"launch", "none"} /\ todo.replaces = None
  BY DEF Act, Todos, Acts, NameOrNone
<1>3. /\ plan' \in [Sessions -> [Ids -> Todos]] /\ plan'[s][id] = todo
      /\ \A t \in Sessions, j \in Ids : t # s \/ j # id => plan'[t][j] = plan[t][j]
  <2>1. plan' = [plan EXCEPT ![s] = [plan[s] EXCEPT ![id] = todo]]
    OBVIOUS
  <2>. HIDE DEF todo
  <2>. QED BY <1>2, <2>1 DEF PlanType
<1>. HIDE DEF todo
<1>4. UNCHANGED <<lease, live, beat, up, watch, launched, lapsed>>
  BY DEF processes, bounds
<1>5. ItemsType'
  BY <1>1 DEF ItemsType, RunWhileRunning
<1>6. PlanType'
  BY <1>2, <1>3 DEF PlanType
<1>7. LaunchedType' /\ ProcessType' /\ BeatsSeen' /\ Attentive' = Attentive
  BY <1>4 DEF LaunchedType, ProcessType, BeatsSeen, Attentive
<1>8. s \in Drivers => todo = Act("none")
  BY Constants DEF todo
<1>9. DriverType'
  <2>1. \A d \in Drivers, j \in Ids : plan'[d][j].act \in {plan[d][j].act, "none"}
    BY <1>3, <1>8 DEF Sessions, Act
  <2>. QED BY <1>4, <2>1 DEF DriverType
<1>10. \A t \in Sessions, j \in Ids, a \in Names : Replacing(t, j, a)' => Replacing(t, j, a)
  BY <1>2, <1>3, <1>4 DEF Replacing, Launched
<1>11. \A t \in Sessions, j \in Ids : plan'[t][j].act = "claim" => plan[t][j].act = "claim" /\ ~(t = s /\ j = id)
  BY <1>2, <1>3
<1>12. \A j \in Ids, a \in Names : items'[j].executor = a => j # id /\ items'[j] = items[j]
  BY <1>1, Constants
<1>13. \A j \in Ids : New(j)' => New(j)
  BY <1>1 DEF New
<1>14. \A t \in Sessions \ {s} : \A kinds : RunsOf(t, kinds)' \subseteq RunsOf(t, kinds)
  BY <1>1 DEF RunsOf
<1>15. RunsOf(s, {"initial"})' \subseteq RunsOf(s, {"initial"}) \cup (IF k.kind = "initial" THEN {id} ELSE {})
  BY <1>1 DEF RunsOf
<1>16. \A t \in Sessions, j \in Ids : Taking(t, j)' => Taking(t, j) \/ (t = s /\ j = id)
  BY <1>3, <1>4 DEF Taking, Launched
<1>17. ClaimsAreFree'
  <2>. SUFFICES ASSUME NEW t \in Sessions, NEW i \in Ids, plan'[t][i].act = "claim"
                PROVE  /\ RunsOf(t, {"initial"})' = {}
                       /\ \A j \in Ids : Taking(t, j)' => ~New(j)'
                       /\ \A j \in Ids : plan'[t][j].act = "claim" => j = i
    BY DEF ClaimsAreFree
  <2>1. /\ plan[t][i].act = "claim" /\ RunsOf(t, {"initial"}) = {}
        /\ \A j \in Ids : Taking(t, j) => ~New(j)
        /\ \A j \in Ids : plan[t][j].act = "claim" => j = i
    BY <1>11 DEF ClaimsAreFree
  <2>2. \A j \in Ids : plan'[t][j].act = "claim" => j = i
    BY <1>11, <2>1
  <2>3. CASE t # s
    BY <1>13, <1>14, <1>16, <2>1, <2>2, <2>3
  <2>4. CASE t = s
    <3>1. i # id /\ k.kind # "initial"
      BY <1>11, <2>1, <2>4
    <3>2. ~New(id)'
      BY <1>1, <3>1 DEF New
    <3>. QED BY <1>13, <1>15, <1>16, <2>1, <2>2, <2>4, <3>1, <3>2
  <2>. QED BY <2>3, <2>4
<1>18. DriverSlots'
  <2>. SUFFICES ASSUME NEW d \in Drivers
                PROVE  /\ \A i, j \in RunsOf(d, {"initial"})' : i = j
                       /\ \A i \in Ids : Taking(d, i)' /\ New(i)' => RunsOf(d, {"initial"})' \subseteq {i}
                       /\ \A i \in Ids, a \in Names :
                            Replacing(d, i, a)' /\ items'[i].executor = a /\ items'[i].kind \in Finishing
                            => RunsOf(d, Finishing)' \subseteq {i}
    BY DEF DriverSlots
  <2>1. d \in Sessions
    BY DEF Sessions
  <2>2. CASE d # s
    <3>1. \A kinds : RunsOf(d, kinds)' \subseteq RunsOf(d, kinds)
      BY <1>14, <2>1, <2>2
    <3>. QED BY <1>10, <1>12, <1>13, <1>16, <2>1, <2>2, <3>1 DEF DriverSlots
  <2>3. CASE d = s
    <3>1. k.kind = "initial" /\ plan[s][id].act = "claim" /\ RunsOf(s, {"initial"}) = {}
      BY <2>3 DEF ClaimsAreFree
    <3>2. RunsOf(s, {"initial"})' \subseteq {id}
      BY <1>15, <3>1
    <3>3. \A j \in Ids : plan'[s][j].act = "none"
      <4>1. \A j \in Ids \ {id} : plan[s][j].act = "none"
        BY <2>3, <3>1 DEF DriverType
      <4>. QED BY <1>3, <1>8, <2>3, <4>1 DEF Act
    <3>4. \A j \in Ids : ~Taking(s, j)' /\ \A a \in Names : ~Replacing(s, j, a)'
      BY <1>4, <3>3 DEF Taking, Replacing, Launched
    <3>. QED BY <2>3, <3>2, <3>4
  <2>. QED BY <2>2, <2>3
<1>19. NamesAreNew'
  <2>1. \A a \in Names : Known(a)' => Known(a)
    <3>1. \A a \in Names, t \in Sessions, j \in Ids : plan'[t][j].replaces = a => plan[t][j].replaces = a
      BY <1>2, <1>3, Constants
    <3>. QED BY <1>4, <1>12, <3>1 DEF Known
  <2>. QED BY <1>4, <2>1 DEF LaunchedType, NamesAreNew
<1>20. ReplacedAreGone'
  <2>. SUFFICES ASSUME NEW t \in Orchestrators, NEW j \in Ids, NEW a \in Names,
                       Replacing(t, j, a)', items'[j].executor = a
                PROVE  a \notin up' \/ items'[j].session \notin Attentive' \ {t}
    BY DEF ReplacedAreGone
  <2>1. Replacing(t, j, a) /\ items'[j] = items[j]
    BY <1>10, <1>12 DEF Sessions
  <2>. QED BY <1>4, <1>7, <2>1 DEF ReplacedAreGone
<1>. QED
  BY <1>5, <1>6, <1>7, <1>9, <1>17, <1>18, <1>19, <1>20

\* A fix or a claim keeps it: the task is not new to anybody else.
LEMMA BeginInv ==
  ASSUME IInv, NEW s \in Sessions, NEW id \in Ids, Claim(s, id) \/ FixStart(s, id)
  PROVE  IInv'
<1>1. /\ items \in [Ids -> Item] /\ items[id] \in Item /\ RunWhileRunning(items[id])
      /\ \A j \in Ids : items[j].executor # None => items[j].progress = "running"
  BY DEF IInv, TypeInv, ItemsType, RunWhileRunning
<1>2. /\ launched[s] = NoLaunch /\ plan[s][id].act \in {"claim", "fix-start"}
      /\ UNCHANGED <<launched, lease, processes, bounds>>
  BY DEF Claim, FixStart, Begin, Call, Turn
<1>3. CASE UNCHANGED items /\ plan' = [plan EXCEPT ![s][id] = Act("none")]
  <2>1. CalmItems /\ CalmPlans
    BY <1>3, ItemsCalm, PlansCalm DEF IInv, TypeInv, Done
  <2>. QED BY <1>2, <2>1, QuietInv DEF bounds
<1>. DEFINE todo == IF s \in Orchestrators THEN Act("launch") ELSE Act("none")
<1>4. CASE /\ items[id].progress = "queued" /\ plan[s][id].act = "claim"
           /\ items' = [items EXCEPT ![id] =
                          [items[id] EXCEPT !.progress = "running", !.kind = "initial", !.session = s]]
           /\ plan' = [plan EXCEPT ![s][id] = todo]
  <2>. DEFINE k == [items[id] EXCEPT !.progress = "running", !.kind = "initial", !.session = s]
  <2>1. /\ k \in Item /\ k.progress = "running" /\ k.kind = "initial" /\ k.session = s
        /\ k.executor = items[id].executor
    BY <1>1 DEF Item, Progresses, Kinds
  <2>2. items[id].executor = None /\ New(id)
    BY <1>1, <1>4 DEF New
  <2>3. items' = [items EXCEPT ![id] = k] /\ plan[s][id].act # "none"
    BY <1>4
  <2>. HIDE DEF k
  <2>. QED BY <1>2, <1>4, <2>1, <2>2, <2>3, BegunKeeps
<1>5. CASE /\ items[id].progress = "resting" /\ plan[s][id].act = "fix-start"
           /\ items' = [items EXCEPT ![id] =
                          [items[id] EXCEPT !.progress = "running", !.kind = "pr_fix", !.session = s,
                                            !.fix = "taken", !.probe = FALSE]]
           /\ plan' = [plan EXCEPT ![s][id] = todo]
  <2>. DEFINE k == [items[id] EXCEPT !.progress = "running", !.kind = "pr_fix", !.session = s,
                                     !.fix = "taken", !.probe = FALSE]
  <2>1. /\ k \in Item /\ k.progress = "running" /\ k.kind = "pr_fix" /\ k.session = s
        /\ k.executor = items[id].executor
    BY <1>1 DEF Item, Progresses, Kinds
  <2>2. items[id].executor = None
    BY <1>1, <1>5
  <2>3. items' = [items EXCEPT ![id] = k] /\ plan[s][id].act # "none"
    BY <1>5
  <2>4. s \notin Drivers
    BY <1>5 DEF IInv, TypeInv, DriverType
  <2>. HIDE DEF k
  <2>. QED BY <1>2, <1>5, <2>1, <2>2, <2>3, <2>4, BegunKeeps
<1>. QED
  BY <1>3, <1>4, <1>5 DEF Claim, FixStart, Begin, Call, Turn
-----------------------------------------------------------------------------
(* An executor is started, and recorded. *)

\* Whoever is about to replace an executor knows its name.
LEMMA ReplacedIsKnown ==
  ASSUME NEW s \in Sessions, NEW id \in Ids, NEW a \in Names, Replacing(s, id, a)
  PROVE  Known(a)
BY DEF Replacing, Launched, Known

\* The name of the new executor is nobody else's.
LEMMA LaunchFacts ==
  ASSUME IInv, NEW s \in Sessions, NEW id \in Ids, Launch(s, id)
  PROVE  \E agent \in Names :
           /\ ~Known(agent) /\ \A t \in Sessions : launched[t].agent # agent
           /\ up' = up \cup {agent}
           /\ launched' = [launched EXCEPT ![s] =
                [id |-> id, agent |-> agent, replaces |-> plan[s][id].replaces]]
<1>. DEFINE named == {items[j].executor : j \in Ids}
                     \cup {plan[t][j].replaces : t \in Sessions, j \in Ids}
                     \cup UNION {{launched[t].agent, launched[t].replaces} : t \in Sessions}
            fresh == (1 .. Agents) \ named
<1>1. /\ fresh # {} /\ up' = up \cup {Min(fresh)}
      /\ launched' = [launched EXCEPT ![s] =
           [id |-> id, agent |-> Min(fresh), replaces |-> plan[s][id].replaces]]
  BY DEF Launch
<1>2. Min(fresh) \in fresh
  <2>1. fresh \in SUBSET Nat
    BY Constants DEF Names
  <2>. HIDE DEF fresh
  <2>. QED BY <1>1, <2>1, MinIsIn
<1>3. \A a \in fresh : a \in Names /\ ~Known(a) /\ \A t \in Sessions : launched[t].agent # a
  BY DEF Known, Names
<1>. HIDE DEF fresh
<1>4. Min(fresh) \in Names /\ ~Known(Min(fresh)) /\ \A t \in Sessions : launched[t].agent # Min(fresh)
  BY <1>2, <1>3
<1>. QED
  BY <1>1, <1>4

\* An executor that is started keeps it: its name is new.
LEMMA LaunchInv ==
  ASSUME IInv, NEW s \in Sessions, NEW id \in Ids, Launch(s, id)
  PROVE  IInv'
<1>. USE DEF IInv, TypeInv, Answers
<1>1. PICK agent \in Names :
        /\ ~Known(agent) /\ \A t \in Sessions : launched[t].agent # agent
        /\ up' = up \cup {agent}
        /\ launched' = [launched EXCEPT ![s] =
             [id |-> id, agent |-> agent, replaces |-> plan[s][id].replaces]]
  BY LaunchFacts
<1>. DEFINE l == [id |-> id, agent |-> agent, replaces |-> plan[s][id].replaces]
<1>2. /\ launched[s] = NoLaunch /\ plan[s][id].act \in {"launch", "takeover"}
      /\ UNCHANGED <<lease, live, beat, watch, lapsed>> /\ Done(s, id)
  BY DEF Launch, Turn, bounds
<1>3. /\ items \in [Ids -> Item] /\ items[id] \in Item
      /\ plan \in [Sessions -> [Ids -> Todos]] /\ plan[s][id].replaces \in NameOrNone
      /\ launched \in [Sessions -> Launches]
  BY DEF ItemsType, PlanType, LaunchedType, Todos
<1>4. CalmItems
  <2>1. \/ UNCHANGED items
        \/ items' = [items EXCEPT ![id] = [items[id] EXCEPT !.takeover = "none", !.heard = FALSE]]
    BY <1>3 DEF Launch
  <2>2. Quiet(items[id], [items[id] EXCEPT !.takeover = "none", !.heard = FALSE])
    BY <1>3, Touched
  <2>. QED BY <2>1, <2>2, ItemsCalm, OneItemCalm
<1>5. \A j \in Ids : SameRun(items[j], items'[j])
  <2>1. \/ UNCHANGED items
        \/ items' = [items EXCEPT ![id] = [items[id] EXCEPT !.takeover = "none", !.heard = FALSE]]
    BY <1>3 DEF Launch
  <2>2. SameRun(items[id], [items[id] EXCEPT !.takeover = "none", !.heard = FALSE])
    BY <1>3 DEF SameRun, Item
  <2>3. \A j \in Ids : SameRun(items[j], items[j])
    BY DEF SameRun
  <2>. QED BY <1>3, <2>1, <2>2, <2>3
<1>6. CalmPlans
  BY <1>2, PlansCalm
<1>7. /\ plan' \in [Sessions -> [Ids -> Todos]] /\ plan'[s][id] = Act("none")
      /\ \A t \in Sessions, j \in Ids : t # s \/ j # id => plan'[t][j] = plan[t][j]
  <2>1. plan' = [plan EXCEPT ![s] = [plan[s] EXCEPT ![id] = Act("none")]]
    BY <1>2 DEF Done
  <2>. QED BY <1>3, <1>6, <2>1 DEF CalmPlans
<1>8. /\ launched' \in [Sessions -> Launches] /\ launched'[s] = l
      /\ \A t \in Sessions \ {s} : launched'[t] = launched[t]
  <2>1. l \in Launches
    BY <1>3 DEF Launches, NameOrNone
  <2>. HIDE DEF l
  <2>2. launched' = [launched EXCEPT ![s] = l]
    BY <1>1 DEF l
  <2>. QED BY <1>3, <2>1, <2>2
<1>9. l.id = id /\ l.agent = agent /\ l.replaces = plan[s][id].replaces
  OBVIOUS
<1>. HIDE DEF l
<1>10. ItemsType' /\ PlanType'
  <2>1. ItemsType'
    BY <1>4, <1>5 DEF ItemsType, CalmItems, RunWhileRunning, SameRun
  <2>2. PlanType'
    BY <1>7 DEF PlanType, Act
  <2>. QED BY <2>1, <2>2
<1>11. LaunchedType'
  BY <1>8, <1>9 DEF LaunchedType
<1>12. ProcessType' /\ BeatsSeen' /\ Attentive' = Attentive
  BY <1>1, <1>2 DEF ProcessType, BeatsSeen, Attentive
<1>13. DriverType'
  BY <1>2, <1>7, <1>8 DEF DriverType, Sessions, Act
<1>14. \A t \in Sessions, j \in Ids : Launched(t, j)' => Launched(t, j) \/ (t = s /\ j = id)
  <2>. SUFFICES ASSUME NEW t \in Sessions, NEW j \in Ids, Launched(t, j)'
                PROVE  Launched(t, j) \/ (t = s /\ j = id)
    OBVIOUS
  <2>1. CASE t = s
    BY <1>8, <1>9, <2>1 DEF Launched
  <2>2. CASE t # s
    BY <1>8, <2>2 DEF Launched
  <2>. QED BY <2>1, <2>2
<1>15. \A t \in Sessions, j \in Ids : Taking(t, j)' => Taking(t, j)
  BY <1>2, <1>7, <1>14 DEF Taking, Act
<1>16. \A t \in Sessions, j \in Ids, a \in Names : Replacing(t, j, a)' => Replacing(t, j, a)
  <2>. SUFFICES ASSUME NEW t \in Sessions, NEW j \in Ids, NEW a \in Names, Replacing(t, j, a)'
                PROVE  Replacing(t, j, a)
    OBVIOUS
  <2>1. CASE plan'[t][j].act = "takeover" /\ plan'[t][j].replaces = a
    BY <1>7, <2>1 DEF Replacing, Act
  <2>2. CASE Launched(t, j)' /\ launched'[t].replaces = a /\ t # s
    BY <1>8, <2>2 DEF Replacing, Launched
  <2>3. CASE Launched(t, j)' /\ launched'[t].replaces = a /\ t = s
    <3>1. j = id /\ plan[s][id].replaces = a
      BY <1>8, <1>9, <2>3 DEF Launched
    <3>2. plan[s][id].act # "launch"
      BY <3>1, Constants DEF PlanType
    <3>. QED BY <1>2, <2>3, <3>1, <3>2 DEF Replacing
  <2>. QED BY <2>1, <2>2, <2>3 DEF Replacing
<1>17. \A t \in Sessions : \A kinds : RunsOf(t, kinds)' = RunsOf(t, kinds)
  BY <1>5 DEF RunsOf, SameRun
<1>18. \A j \in Ids : New(j)' <=> New(j)
  BY <1>5 DEF New, SameRun
<1>19. ClaimsAreFree'
  <2>1. \A t \in Sessions, j \in Ids : plan'[t][j].act = "claim" => plan[t][j].act = "claim"
    BY <1>7 DEF Act
  <2>. QED BY <1>15, <1>17, <1>18, <2>1 DEF ClaimsAreFree
<1>20. DriverSlots'
  <2>1. \A j \in Ids : items'[j].executor = items[j].executor /\ items'[j].kind = items[j].kind
    BY <1>5 DEF SameRun
  <2>2. \A d \in Drivers : d \in Sessions
    BY DEF Sessions
  <2>. QED BY <1>15, <1>16, <1>17, <1>18, <2>1, <2>2 DEF DriverSlots
<1>21. NamesAreNew'
  <2>1. \A a \in Names : Known(a)' => Known(a)
    <3>. SUFFICES ASSUME NEW a \in Names, Known(a)' PROVE Known(a)
      OBVIOUS
    <3>1. CASE \E j \in Ids : items'[j].executor = a
      BY <1>5, <3>1 DEF Known, SameRun
    <3>2. CASE \E t \in Sessions, j \in Ids : plan'[t][j].replaces = a
      BY <1>7, <3>2, Constants DEF Known, Act
    <3>3. CASE \E t \in Sessions : launched'[t].replaces = a
      BY <1>8, <1>9, <3>3 DEF Known
    <3>. QED BY <3>1, <3>2, <3>3 DEF Known
  <2>2. \A t \in Sessions \ {s} : launched'[t] # NoLaunch =>
          /\ ~Known(launched[t].agent)' /\ launched[t].agent # agent
          /\ \A r \in Sessions : launched[r].agent = launched[t].agent => r = t
    BY <1>1, <1>8, <2>1 DEF NamesAreNew, LaunchedType
  <2>3. ~Known(launched[s].agent)'
    BY <1>1, <1>8, <1>9, <2>1
  <2>4. \A t \in Sessions : launched'[t].agent = launched'[s].agent => t = s
    BY <1>1, <1>8, <1>9
  <2>. QED
    BY <1>8, <1>9, <2>2, <2>3, <2>4 DEF NamesAreNew
<1>22. ReplacedAreGone'
  <2>. SUFFICES ASSUME NEW t \in Orchestrators, NEW j \in Ids, NEW a \in Names,
                       Replacing(t, j, a)', items'[j].executor = a
                PROVE  a \notin up' \/ items'[j].session \notin Attentive' \ {t}
    BY DEF ReplacedAreGone
  <2>1. t \in Sessions
    BY DEF Sessions
  <2>2. Replacing(t, j, a) /\ items[j].executor = a /\ items'[j].session = items[j].session
    BY <1>5, <1>16, <2>1 DEF SameRun
  <2>3. a # agent
    BY <1>1, <2>2 DEF Known
  <2>. QED BY <1>1, <1>12, <2>2, <2>3 DEF ReplacedAreGone
<1>. QED
  BY <1>10, <1>11, <1>12, <1>13, <1>19, <1>20, <1>21, <1>22
\* The call that loses changes no item.
LEMMA LostInv ==
  ASSUME IInv, NEW s \in Sessions, UNCHANGED items, up' \subseteq up,
         launched' = [launched EXCEPT ![s] = NoLaunch],
         UNCHANGED <<lease, live, beat, watch, plan, bounds>>
  PROVE  IInv'
<1>1. CalmPlans /\ CalmLaunches
  BY PlansCalm, LaunchesCalm DEF IInv, TypeInv
<1>2. ProcessType' /\ BeatsSeen' /\ Attentive' \subseteq Attentive
  BY DEF IInv, TypeInv, Answers, ProcessType, BeatsSeen, Attentive, bounds
<1>. QED
  BY <1>1, <1>2, ProcessInv

\* The call that wins finds the run as next showed it.
LEMMA WonInv ==
  ASSUME IInv, NEW s \in Sessions, launched[s] # NoLaunch,
         items[launched[s].id].progress = "running",
         items[launched[s].id].executor = launched[s].replaces,
         Records(s, launched[s], TRUE)
  PROVE  IInv'
<1>. USE DEF IInv, TypeInv, Answers
<1>. DEFINE l == launched[s]
            id == launched[s].id
            k == Recorded(items[id], l, s)
<1>1. /\ items \in [Ids -> Item] /\ launched \in [Sessions -> Launches] /\ l \in Launches
      /\ id \in Ids /\ l.agent \in Names /\ items[id] \in Item /\ RunWhileRunning(items[id])
  BY DEF ItemsType, LaunchedType
<1>2. /\ items' = [items EXCEPT ![id] = k] /\ up' = up \ {l.replaces}
      /\ launched' = [launched EXCEPT ![s] = NoLaunch]
      /\ UNCHANGED <<lease, live, beat, watch, plan, lapsed>>
  BY DEF Records, bounds
<1>3. /\ k \in Item /\ k.executor = l.agent /\ k.session = s
      /\ k.kind = items[id].kind /\ k.progress = "running"
  BY <1>1, RunBegun
<1>4. ~Known(l.agent) /\ \A t \in Sessions : launched[t].agent = l.agent => t = s
  BY DEF NamesAreNew
<1>5. /\ items' \in [Ids -> Item] /\ items'[id] = k
      /\ \A j \in Ids \ {id} : items'[j] = items[j]
  <2>. HIDE DEF k, id
  <2>. QED BY <1>1, <1>2, <1>3
<1>6. /\ launched' \in [Sessions -> Launches] /\ launched'[s] = NoLaunch
      /\ \A t \in Sessions \ {s} : launched'[t] = launched[t]
  <2>1. NoLaunch \in Launches
    BY DEF NoLaunch, Launches, NameOrNone
  <2>. QED BY <1>1, <1>2, <2>1
<1>7. Launched(s, id) /\ Taking(s, id)
  BY DEF Launched, Taking
<1>8. items[id].progress = "running" /\ items[id].executor = l.replaces
  OBVIOUS
<1>9. PICK agent \in Names : agent = l.agent
  BY <1>1
<1>. HIDE DEF k, id, l
<1>10. ItemsType' /\ PlanType' /\ LaunchedType'
  <2>1. ItemsType'
    BY <1>1, <1>3, <1>5, <1>8 DEF ItemsType, RunWhileRunning
  <2>2. PlanType'
    BY <1>2 DEF PlanType
  <2>3. LaunchedType'
    BY <1>6 DEF LaunchedType
  <2>. QED BY <2>1, <2>2, <2>3
<1>11. ProcessType' /\ BeatsSeen' /\ Attentive' = Attentive
  BY <1>2 DEF ProcessType, BeatsSeen, Attentive
<1>12. DriverType'
  BY <1>2, <1>6 DEF DriverType, Sessions
<1>13. \A t \in Sessions, j \in Ids : Taking(t, j)' => Taking(t, j)
  BY <1>2, <1>6 DEF Taking, Launched
<1>14. \A t \in Sessions, j \in Ids, a \in Names : Replacing(t, j, a)' => Replacing(t, j, a)
  BY <1>2, <1>6 DEF Replacing, Launched
<1>15. \A j \in Ids : New(j)' <=> New(j)
  BY <1>3, <1>5, <1>8 DEF New
<1>16. \A t \in Sessions \ {s} : \A kinds : RunsOf(t, kinds)' \subseteq RunsOf(t, kinds)
  BY <1>3, <1>5 DEF RunsOf
<1>17. RunsOf(s, {"initial"})' \subseteq RunsOf(s, {"initial"}) \cup {id}
  BY <1>5 DEF RunsOf
<1>18. ~New(id) => RunsOf(s, {"initial"})' \subseteq RunsOf(s, {"initial"})
  BY <1>3, <1>5, <1>8 DEF RunsOf, New
<1>19. \A j \in Ids, t \in Sessions, a \in Names :
         Replacing(t, j, a) /\ items'[j].executor = a => j # id /\ items'[j] = items[j]
  BY <1>3, <1>4, <1>5, ReplacedIsKnown
<1>20. ClaimsAreFree'
  <2>. SUFFICES ASSUME NEW t \in Sessions, NEW i \in Ids, plan'[t][i].act = "claim"
                PROVE  /\ RunsOf(t, {"initial"})' = {}
                       /\ \A j \in Ids : Taking(t, j)' => ~New(j)'
                       /\ \A j \in Ids : plan'[t][j].act = "claim" => j = i
    BY DEF ClaimsAreFree
  <2>1. /\ RunsOf(t, {"initial"}) = {}
        /\ \A j \in Ids : Taking(t, j) => ~New(j)
        /\ \A j \in Ids : plan'[t][j].act = "claim" => j = i
    BY <1>2 DEF ClaimsAreFree
  <2>2. CASE t # s
    BY <1>13, <1>15, <1>16, <2>1, <2>2
  <2>3. CASE t = s
    <3>1. ~New(id)
      BY <1>1, <1>7, <2>1, <2>3
    <3>2. RunsOf(s, {"initial"})' = {}
      BY <1>18, <2>1, <2>3, <3>1
    <3>3. \A j \in Ids : Taking(s, j)' => ~New(j)'
      BY <1>13, <1>15, <2>1, <2>3
    <3>. QED BY <2>1, <2>3, <3>2, <3>3
  <2>. QED BY <2>2, <2>3
<1>21. DriverSlots'
  <2>. SUFFICES ASSUME NEW d \in Drivers
                PROVE  /\ \A i, j \in RunsOf(d, {"initial"})' : i = j
                       /\ \A i \in Ids : Taking(d, i)' /\ New(i)' => RunsOf(d, {"initial"})' \subseteq {i}
                       /\ \A i \in Ids, a \in Names :
                            Replacing(d, i, a)' /\ items'[i].executor = a /\ items'[i].kind \in Finishing
                            => RunsOf(d, Finishing)' \subseteq {i}
    BY DEF DriverSlots
  <2>1. d \in Sessions
    BY DEF Sessions
  <2>2. CASE d # s
    <3>1. \A kinds : RunsOf(d, kinds)' \subseteq RunsOf(d, kinds)
      BY <1>16, <2>1, <2>2
    <3>. QED BY <1>13, <1>14, <1>15, <1>19, <2>1, <3>1 DEF DriverSlots
  <2>3. CASE d = s
    <3>1. \A i, j \in RunsOf(d, {"initial"})' : i = j
      <4>1. CASE New(id)
        <5>1. RunsOf(d, {"initial"}) \subseteq {id}
          BY <1>1, <1>7, <2>3, <4>1 DEF DriverSlots
        <5>. QED BY <1>17, <2>3, <5>1
      <4>2. CASE ~New(id)
        BY <1>18, <2>3, <4>2 DEF DriverSlots
      <4>. QED BY <4>1, <4>2
    <3>2. \A i \in Ids : plan'[d][i].act = "none"
      BY <1>2, <2>3 DEF DriverType
    <3>3. \A i \in Ids : ~Taking(d, i)' /\ \A a \in Names : ~Replacing(d, i, a)'
      BY <1>6, <2>3, <3>2 DEF Taking, Replacing, Launched
    <3>. QED BY <3>1, <3>3
  <2>. QED BY <2>2, <2>3
<1>22. NamesAreNew'
  <2>1. \A a \in Names \ {l.agent} : Known(a)' => Known(a)
    <3>. SUFFICES ASSUME NEW a \in Names \ {l.agent}, Known(a)' PROVE Known(a)
      OBVIOUS
    <3>1. CASE \E j \in Ids : items'[j].executor = a
      BY <1>3, <1>5, <3>1 DEF Known
    <3>2. CASE \E t \in Sessions, j \in Ids : plan'[t][j].replaces = a
      BY <1>2, <3>2 DEF Known
    <3>3. CASE \E t \in Sessions : launched'[t].replaces = a
      <4>1. NoLaunch.replaces = None
        BY DEF NoLaunch
      <4>. QED BY <1>6, <3>3, <4>1, Constants DEF Known
    <3>. QED BY <3>1, <3>2, <3>3 DEF Known
  <2>. SUFFICES ASSUME NEW t \in Sessions, launched'[t] # NoLaunch
                PROVE  /\ ~Known(launched[t].agent)'
                       /\ \A r \in Sessions : launched'[r].agent = launched'[t].agent => r = t
    BY DEF NamesAreNew
  <2>2. t # s /\ launched'[t] = launched[t] /\ launched[t] # NoLaunch
    BY <1>6
  <2>3. /\ launched[t].agent \in Names \ {l.agent} /\ ~Known(launched[t].agent)
        /\ \A r \in Sessions : launched[r].agent = launched[t].agent => r = t
    BY <1>4, <2>2 DEF NamesAreNew, LaunchedType
  <2>4. ~Known(launched[t].agent)'
    BY <2>1, <2>2, <2>3
  <2>5. launched'[s].agent = None
    BY <1>6 DEF NoLaunch
  <2>6. \A r \in Sessions : launched'[r].agent = launched'[t].agent => r = t
    BY <1>6, <2>2, <2>3, <2>5, Constants
  <2>. QED BY <2>4, <2>6
<1>23. ReplacedAreGone'
  <2>. SUFFICES ASSUME NEW t \in Orchestrators, NEW j \in Ids, NEW a \in Names,
                       Replacing(t, j, a)', items'[j].executor = a
                PROVE  a \notin up' \/ items'[j].session \notin Attentive' \ {t}
    BY DEF ReplacedAreGone
  <2>1. t \in Sessions
    BY DEF Sessions
  <2>2. Replacing(t, j, a) /\ items'[j] = items[j]
    BY <1>14, <1>19, <2>1
  <2>. QED BY <1>2, <1>11, <2>2 DEF ReplacedAreGone
<1>. QED
  BY <1>10, <1>11, <1>12, <1>20, <1>21, <1>22, <1>23

\* set-executor keeps the invariant, whether it wins or is refused.
LEMMA SetExecutorInv ==
  ASSUME IInv, NEW s \in Sessions, SetExecutor(s)
  PROVE  IInv'
<1>. DEFINE l == launched[s]
            wins == items[l.id].progress = "running" /\ items[l.id].executor = l.replaces
<1>1. launched[s] # NoLaunch /\ Records(s, l, wins)
  BY DEF SetExecutor
<1>2. CASE wins
  <2>1. Records(s, launched[s], TRUE)
    BY <1>1, <1>2 DEF Records
  <2>. QED BY <1>1, <1>2, <2>1, WonInv
<1>3. CASE ~wins
  <2>1. /\ UNCHANGED items /\ up' \subseteq up
        /\ launched' = [launched EXCEPT ![s] = NoLaunch]
        /\ UNCHANGED <<lease, live, beat, watch, plan, bounds>>
    BY <1>1, <1>3 DEF Records
  <2>. QED BY <2>1, LostInv
<1>. QED
  BY <1>2, <1>3

-----------------------------------------------------------------------------
(* The invariant, and what follows from it. *)

\* The initial states satisfy the invariant.
LEMMA InitInv == Init => IInv
<1>. SUFFICES ASSUME Init PROVE IInv
  OBVIOUS
<1>1. /\ items = [id \in Ids |-> NoItem] /\ lease = None /\ up = {} /\ lapsed = {}
      /\ plan = [s \in Sessions |-> NoPlan]
      /\ launched = [s \in Sessions |-> NoLaunch]
      /\ watch = [id \in Ids |-> None]
      /\ live = beat /\ live \subseteq Orchestrators
  BY SchedulingAssumption DEF Init
<1>2. /\ NoItem \in Item /\ RunWhileRunning(NoItem) /\ NoItem.executor = None
      /\ NoItem.kind = "none"
  BY DEF NoItem, Item, RunWhileRunning, Progresses, Kinds, NameOrNone
<1>3. NoPlan \in [Ids -> Todos] /\ \A id \in Ids : NoPlan[id] = Act("none")
  BY DEF NoPlan, Act, Todos, Acts, NameOrNone
<1>4. NoLaunch \in Launches /\ NoLaunch.replaces = None
  BY DEF NoLaunch, Launches, NameOrNone
<1>5. \A s \in Sessions, id \in Ids : plan[s][id] = Act("none")
  BY <1>1, <1>3
<1>6. Act("none").act = "none" /\ Act("none").replaces = None
  BY DEF Act
<1>7. ItemsType /\ PlanType /\ LaunchedType
  BY <1>1, <1>2, <1>3, <1>4, <1>6 DEF ItemsType, PlanType, LaunchedType
<1>8. ProcessType
  BY <1>1 DEF ProcessType, Sessions
<1>9. DriverType
  BY <1>1, <1>5, <1>6 DEF DriverType, Sessions
<1>10. \A s \in Sessions, kinds \in {{"initial"}, Finishing} : RunsOf(s, kinds) = {}
  BY <1>1, <1>2 DEF RunsOf, Finishing
<1>11. ClaimsAreFree
  BY <1>5, <1>6 DEF ClaimsAreFree
<1>12. DriverSlots
  BY <1>10 DEF DriverSlots, Sessions
<1>13. NamesAreNew
  BY <1>1 DEF NamesAreNew
<1>14. ReplacedAreGone
  BY <1>1 DEF ReplacedAreGone
<1>15. BeatsSeen
  BY <1>1 DEF BeatsSeen, Attentive
<1>. QED
  BY <1>7, <1>8, <1>9, <1>11, <1>12, <1>13, <1>14, <1>15 DEF IInv, TypeInv, Answers

\* A stuttering step keeps it.
LEMMA StutterInv ==
  ASSUME IInv, UNCHANGED vars
  PROVE  IInv'
<1>1. UNCHANGED <<items, lease, live, beat, plan, launched, up, watch, lapsed>>
  BY DEF vars, queue, processes, bounds
<1>2. CalmItems /\ CalmPlans
  BY <1>1, ItemsCalm, PlansCalm DEF IInv, TypeInv
<1>. QED
  BY <1>1, <1>2, QuietInv DEF processes

\* Each step keeps the invariant.
LEMMA StepInv ==
  ASSUME IInv, [Next]_vars
  PROVE  IInv'
<1>1. ASSUME NEW s \in Sessions, SessionStep(s) PROVE IInv'
  BY <1>1, IterateInv, CycleInv, SetExecutorInv, BeginInv, LaunchInv, CallInv, ProbeRunInv
     DEF SessionStep
<1>2. ASSUME NEW s \in Sessions, HeartbeatLapses(s) \/ LosesHeartbeat(s) PROVE IInv'
  BY <1>2, MishapInv
<1>3. ASSUME NEW s \in Sessions, SessionDies(s) PROVE IInv'
  BY <1>3, SessionDiesInv
<1>4. ASSUME NEW d \in Drivers, DriverStarts(d) \/ DriverStops(d) PROVE IInv'
  BY <1>4, DriverInv
<1>5. ASSUME NEW id \in Ids, Finish(id) \/ BlockTask(id) PROVE IInv'
  BY <1>5, EndsInv
<1>6. ASSUME NEW id \in Ids, WatchReports(id) PROVE IInv'
  BY <1>6, WatchReportsInv
<1>7. ASSUME NEW id \in Ids,
             Report(id) \/ Merge(id) \/ FallsSilent(id) \/ TakeoverElapses(id) \/ ProbeExpires(id)
      PROVE  IInv'
  BY <1>7, TaskInv
<1>8. ASSUME NEW id \in Ids, WatchDies(id) PROVE IInv'
  BY <1>8, MishapInv
<1>9. ASSUME NEW a \in 1 .. Agents, ExecutorDies(a) PROVE IInv'
  BY <1>9, MishapInv DEF Names
<1>10. CASE UNCHANGED vars
  BY <1>10, StutterInv
<1>. QED
  BY <1>1, <1>2, <1>3, <1>4, <1>5, <1>6, <1>7, <1>8, <1>9, <1>10 DEF Next

\* The inductive invariant: the types, and what of an answer of next is still true
\* when a session acts upon it.
THEOREM AnswersStand == Spec => []IInv
BY InitInv, StepInv, PTL DEF Spec
\* Type correctness.
THEOREM TypeCorrectness == Spec => []TypeOK
<1>1. IInv => TypeOK
  <2>. SUFFICES ASSUME IInv PROVE TypeOK
    OBVIOUS
  <2>1. ASSUME NEW id \in Ids
        PROVE  /\ items[id].progress \in {"queued", "running", "resting", "blocked", "done"}
               /\ items[id].session \in Sessions \cup {None}
               /\ items[id].kind # "none" <=> items[id].progress = "running"
               /\ items[id].executor # None => items[id].progress = "running"
               /\ items[id].executor \in (1 .. Agents) \cup {None}
    BY DEF IInv, TypeInv, ItemsType, RunWhileRunning, Item, Progresses, NameOrNone, Names
  <2>2. \A id \in Ids : watch[id] \in live \cup {None}
    BY DEF IInv, TypeInv, ProcessType
  <2>3. lease \in Drivers \cup {None} /\ beat \subseteq Sessions /\ lapsed \subseteq Sessions
    BY DEF IInv, TypeInv, ProcessType
  <2>. QED BY <2>1, <2>2, <2>3 DEF TypeOK
<1>. QED
  BY <1>1, AnswersStand, PTL

\* A set of which no two elements differ has one at most.
LEMMA AtMostOne ==
  ASSUME NEW S \in SUBSET Ids, \A i, j \in S : i = j
  PROVE  Cardinality(S) <= 1
<1>1. IsFiniteSet(S)
  BY Constants, FS_Subset
<1>2. CASE S = {}
  BY <1>2, FS_EmptySet
<1>3. CASE S # {}
  <2>1. PICK i \in S : S = {i}
    BY <1>3
  <2>. QED BY <2>1, FS_Singleton
<1>. QED
  BY <1>2, <1>3

\* What a step can do to an item: touch it, end its run or what follows it, begin a
\* run, or record an executor.
Begins(id, s, act, from, kind) ==
  /\ plan[s][id].act = act /\ items[id].progress = from
  /\ items'[id].kind = kind /\ items'[id].session = s /\ items'[id].executor = None

IsRecorded(id, s) ==
  /\ Launched(s, id)
  /\ items[id].progress = "running" /\ items[id].executor = launched[s].replaces
  /\ items'[id].kind = items[id].kind /\ items'[id].session = s

\* Which steps change the session of a task, and how.
LEMMA ItemSteps ==
  ASSUME IInv, [Next]_vars, NEW id \in Ids
  PROVE  \/ Quiet(items[id], items'[id])
         \/ \E s \in Sessions : \/ Begins(id, s, "claim", "queued", "initial")
                              \/ Begins(id, s, "fix-start", "resting", "pr_fix")
                              \/ IsRecorded(id, s)
<1>. DEFINE Stepped == \/ Quiet(items[id], items'[id])
                       \/ \E s \in Sessions : \/ Begins(id, s, "claim", "queued", "initial")
                                            \/ Begins(id, s, "fix-start", "resting", "pr_fix")
                                            \/ IsRecorded(id, s)
<1>0. /\ items \in [Ids -> Item] /\ \A j \in Ids : items[j] \in Item /\ RunWhileRunning(items[j])
      /\ ItemsType
  BY DEF IInv, TypeInv, ItemsType
<1>1. CalmItems => Stepped
  BY DEF CalmItems
<1>2. UNCHANGED items => Stepped
  BY <1>0, Touched
<1>3. ASSUME NEW s \in Sessions, NEW j \in Ids, Claim(s, j) PROVE Stepped
  <2>. DEFINE k == [items[j] EXCEPT !.progress = "running", !.kind = "initial", !.session = s]
  <2>1. CASE UNCHANGED items
    BY <1>2, <2>1
  <2>2. CASE items[j].progress = "queued" /\ items' = [items EXCEPT ![j] = k]
    <3>1. k.kind = "initial" /\ k.session = s /\ k.executor = None
      BY <1>0, <2>2 DEF Item, RunWhileRunning
    <3>2. plan[s][j].act = "claim"
      BY <1>3 DEF Claim, Begin, Call, Turn
    <3>. HIDE DEF k
    <3>3. CASE j = id
      BY <1>0, <2>2, <3>1, <3>2, <3>3 DEF Begins
    <3>4. CASE j # id
      BY <1>0, <2>2, <3>4, Touched
    <3>. QED BY <3>3, <3>4
  <2>. QED BY <1>3, <2>1, <2>2 DEF Claim, Begin, Call
<1>4. ASSUME NEW s \in Sessions, NEW j \in Ids, FixStart(s, j) PROVE Stepped
  <2>. DEFINE k == [items[j] EXCEPT !.progress = "running", !.kind = "pr_fix", !.session = s,
                                    !.fix = "taken", !.probe = FALSE]
  <2>1. CASE UNCHANGED items
    BY <1>2, <2>1
  <2>2. CASE items[j].progress = "resting" /\ items' = [items EXCEPT ![j] = k]
    <3>1. k.kind = "pr_fix" /\ k.session = s /\ k.executor = None
      BY <1>0, <2>2 DEF Item, RunWhileRunning
    <3>2. plan[s][j].act = "fix-start"
      BY <1>4 DEF FixStart, Begin, Call, Turn
    <3>. HIDE DEF k
    <3>3. CASE j = id
      BY <1>0, <2>2, <3>1, <3>2, <3>3 DEF Begins
    <3>4. CASE j # id
      BY <1>0, <2>2, <3>4, Touched
    <3>. QED BY <3>3, <3>4
  <2>. QED BY <1>4, <2>1, <2>2 DEF FixStart, Begin, Call
<1>5. ASSUME NEW s \in Sessions, SetExecutor(s) PROVE Stepped
  <2>. DEFINE l == launched[s]
              k == Recorded(items[l.id], l, s)
              wins == items[l.id].progress = "running" /\ items[l.id].executor = l.replaces
  <2>1. l # NoLaunch /\ l \in Launches /\ l.id \in Ids
    BY <1>5 DEF SetExecutor, IInv, TypeInv, LaunchedType
  <2>2. items' = IF wins THEN [items EXCEPT ![l.id] = k] ELSE items
    BY <1>5 DEF SetExecutor, Records
  <2>3. k.kind = items[l.id].kind /\ k.session = s
    BY <1>0, <2>1, RunBegun
  <2>. HIDE DEF k
  <2>4. CASE ~wins
    BY <1>2, <2>2, <2>4
  <2>5. CASE wins /\ l.id = id
    BY <1>0, <2>1, <2>2, <2>3, <2>5 DEF IsRecorded, Launched
  <2>6. CASE wins /\ l.id # id
    BY <1>0, <2>1, <2>2, <2>6, Touched
  <2>. QED BY <2>4, <2>5, <2>6
<1>6. ASSUME NEW s \in Sessions, NEW j \in Ids, Launch(s, j) PROVE Stepped
  <2>1. \/ UNCHANGED items
        \/ items' = [items EXCEPT ![j] = [items[j] EXCEPT !.takeover = "none", !.heard = FALSE]]
    BY <1>0, <1>6 DEF Launch
  <2>2. Quiet(items[j], [items[j] EXCEPT !.takeover = "none", !.heard = FALSE])
    BY <1>0, Touched
  <2>3. CalmItems
    BY <1>0, <2>1, <2>2, ItemsCalm, OneItemCalm
  <2>. QED BY <1>1, <2>3
<1>7. ASSUME NEW s \in Sessions, SessionStep(s) PROVE Stepped
  <2>1. Iterate(s) \/ Cycle(s) => UNCHANGED items
    BY DEF Iterate, Cycle, queue
  <2>2. ASSUME NEW j \in Ids, StatusCheck(s, j) \/ SetTakeover(s, j) \/ ClearTakeover(s, j) \/ Release(s, j)
        PROVE  CalmItems
    BY <2>2, CallInv
  <2>3. ASSUME NEW j \in Ids, ProbeRun(s, j) PROVE CalmItems
    BY <2>3, ProbeRunInv
  <2>. HIDE DEF Stepped
  <2>. QED BY <1>1, <1>2, <1>3, <1>4, <1>5, <1>6, <1>7, <2>1, <2>2, <2>3 DEF SessionStep
<1>8. ASSUME NEW s \in Sessions, HeartbeatLapses(s) \/ LosesHeartbeat(s) \/ SessionDies(s)
      PROVE  UNCHANGED items
  BY <1>8 DEF HeartbeatLapses, LosesHeartbeat, SessionDies, queue
<1>9. ASSUME NEW d \in Drivers, DriverStarts(d) \/ DriverStops(d)
      PROVE  UNCHANGED items
  BY <1>9 DEF DriverStarts, DriverStops
<1>10. ASSUME NEW j \in Ids,
              \/ Report(j) \/ Merge(j) \/ FallsSilent(j) \/ TakeoverElapses(j) \/ ProbeExpires(j)
              \/ Finish(j) \/ BlockTask(j) \/ WatchReports(j)
       PROVE  CalmItems
  BY <1>10, TaskInv, EndsInv, WatchReportsInv
<1>11. ASSUME NEW j \in Ids, WatchDies(j) PROVE UNCHANGED items
  BY <1>11 DEF WatchDies, queue
<1>12. ASSUME NEW a \in 1 .. Agents, ExecutorDies(a) PROVE UNCHANGED items
  BY <1>12 DEF ExecutorDies, queue
<1>13. UNCHANGED vars => UNCHANGED items
  BY DEF vars, queue
<1>. HIDE DEF Stepped
<1>14. Stepped
  BY <1>1, <1>2, <1>7, <1>8, <1>9, <1>10, <1>11, <1>12, <1>13 DEF Next
<1>. QED
  BY <1>14 DEF Stepped

\* The slots of a Driver and of new tasks.
THEOREM SlotsKept == Spec => SlotsHold
<1>. DEFINE Slots == \A d \in Drivers : Cardinality(RunsOf(d, {"initial"})) <= 1
            Finishes == \A d \in Drivers, id \in Ids :
              /\ items[id].session # d /\ items'[id].session = d
              /\ items[id].kind \in Finishing /\ items[id].executor # None
              => RunsOf(d, Finishing) = {}
            Starts == \A s \in Sessions, id \in Ids :
              items[id].progress = "queued" /\ items'[id].session = s /\ items'[id].kind = "initial"
              => RunsOf(s, {"initial"}) = {}
<1>1. IInv => Slots
  <2>. SUFFICES ASSUME IInv, NEW d \in Drivers
                PROVE  Cardinality(RunsOf(d, {"initial"})) <= 1
    OBVIOUS
  <2>1. RunsOf(d, {"initial"}) \in SUBSET Ids
    BY DEF RunsOf
  <2>2. \A i, j \in RunsOf(d, {"initial"}) : i = j
    BY DEF IInv, Answers, DriverSlots
  <2>. QED BY <2>1, <2>2, AtMostOne
<1>2. IInv /\ [Next]_vars => Finishes
  <2>. SUFFICES ASSUME IInv, [Next]_vars, NEW d \in Drivers, NEW id \in Ids,
                       items[id].session # d, items'[id].session = d,
                       items[id].kind \in Finishing, items[id].executor # None
                PROVE  RunsOf(d, Finishing) = {}
    OBVIOUS
  <2>1. items[id].progress = "running" /\ items[id].executor \in Names /\ d # None /\ d \in Sessions
    BY Constants DEF IInv, TypeInv, ItemsType, RunWhileRunning, Item, NameOrNone, Sessions
  <2>2. ~Quiet(items[id], items'[id])
    BY <2>1 DEF Quiet, SameRun
  <2>3. IsRecorded(id, d)
    BY <2>1, <2>2, ItemSteps DEF Begins, IsRecorded
  <2>4. RunsOf(d, Finishing) \subseteq {id}
    BY <2>1, <2>3 DEF IsRecorded, Replacing, IInv, Answers, DriverSlots
  <2>5. id \notin RunsOf(d, Finishing)
    BY DEF RunsOf
  <2>. QED BY <2>4, <2>5
<1>3. IInv /\ [Next]_vars => Starts
  <2>. SUFFICES ASSUME IInv, [Next]_vars, NEW s \in Sessions, NEW id \in Ids,
                       items[id].progress = "queued", items'[id].session = s,
                       items'[id].kind = "initial"
                PROVE  RunsOf(s, {"initial"}) = {}
    OBVIOUS
  <2>1. items[id].kind = "none"
    BY DEF IInv, TypeInv, ItemsType, RunWhileRunning
  <2>2. ~Quiet(items[id], items'[id])
    BY <2>1 DEF Quiet, SameRun, Retired
  <2>3. Begins(id, s, "claim", "queued", "initial")
    BY <2>2, ItemSteps DEF Begins, IsRecorded
  <2>. QED BY <2>3 DEF Begins, IInv, Answers, ClaimsAreFree
<1>. HIDE DEF Slots, Finishes, Starts
<1>4. Spec => []Slots
  BY <1>1, AnswersStand, PTL
<1>5. Spec => [][Finishes]_vars
  BY <1>2, AnswersStand, PTL DEF Spec
<1>6. Spec => [][Starts]_vars
  BY <1>3, AnswersStand, PTL DEF Spec
<1>. QED
  BY <1>4, <1>5, <1>6 DEF SlotsHold, Slots, Finishes, Starts

\* No orchestrator replaces the executor at work of another one that was never late.
THEOREM LivingAreSafe == Spec => RunsOfTheLivingAreSafe
<1>. DEFINE Safe == \A id \in Ids :
              LET i == items[id] IN
              Working(id) /\ i.session \in (live \cap Orchestrators) \ lapsed
              /\ items'[id].executor \notin {i.executor, None}
              => items'[id].session \in Drivers \cup {i.session}
<1>1. IInv /\ [Next]_vars => Safe
  <2>. SUFFICES ASSUME IInv, [Next]_vars, NEW id \in Ids, Working(id),
                       items[id].session \in Attentive,
                       items'[id].executor \notin {items[id].executor, None}
                PROVE  items'[id].session \in Drivers \cup {items[id].session}
    BY DEF Attentive
  <2>1. items[id].executor \in up /\ items[id].executor \in Names
    BY DEF Working, IInv, TypeInv, ProcessType
  <2>2. ~Quiet(items[id], items'[id])
    BY DEF Quiet, SameRun, Retired
  <2>3. PICK s \in Sessions : IsRecorded(id, s)
    BY <2>2, ItemSteps DEF Begins
  <2>4. CASE s \in Orchestrators /\ s # items[id].session
    <3>1. Replacing(s, id, items[id].executor)
      BY <2>3 DEF IsRecorded, Replacing
    <3>. QED BY <2>1, <2>4, <3>1 DEF IInv, Answers, ReplacedAreGone
  <2>. QED BY <2>3, <2>4 DEF IsRecorded, Sessions
<1>. QED
  BY <1>1, AnswersStand, PTL DEF Spec, RunsOfTheLivingAreSafe
=================================================================================

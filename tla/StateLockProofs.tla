--------------------------- MODULE StateLockProofs ---------------------------
(***************************************************************************)
(* Theorems of StateLock, for any number of processes and any delays that  *)
(* are timely.  The lock keeps no owner: what excludes is that a directory *)
(* a live session works under is young, wherever it is.                    *)
(***************************************************************************)
EXTENDS StateLock, FiniteSetTheorems, TLAPS

InSection(p) == pc[p] \in Section
InRecovery(p) == pc[p] \in Recovery
Grabbed(p) == pc[p] \in {"identify", "restore"}

\* No live session outstays its time, what a recovery has judged is stale, and
\* what it has set aside is a directory.
Timely(p) ==
  /\ InSection(p) => clock[p] <= MaxHold
  /\ InRecovery(p) => clock[p] <= MaxRecover /\ judged[p] = MaxAge
  /\ pc[p] \in {"identify", "restore", "remove"} => aside[p] \in Ages

\* What a recovery that has judged finds under the name is either still what it
\* has judged or was made since.
YoungSinceJudged(q) ==
  /\ pc[q] = "rename" => lock \in {None, MaxAge} \cup 0 .. clock[q]
  /\ Grabbed(q) => aside[q] \in {MaxAge} \cup 0 .. clock[q]
  /\ pc[q] = "restore" => aside[q] # MaxAge

\* Whoever is in its section is protected: by the directory under the name, which
\* is too young to be judged, or by the recovery that has grabbed it by mistake.
Protected(p) ==
  InSection(p) =>
    /\ lock # None \/ \E q \in Procs : MisGrabbed(q)
    /\ lock \in {None} \cup 0 .. clock[p] + MaxRecover

\* As long as nobody slipped in, a wrong grab leaves the name free, so it stays
\* the only one, and what was grabbed is newer than every judgement.
WrongGrabIsAlone(q) ==
  MisGrabbed(q) =>
    /\ lock = None
    /\ \A r \in Procs : MisGrabbed(r) => r = q
    /\ \A r \in Procs : pc[r] = "rename" => aside[q] \in 0 .. clock[r]

AloneInSection == \A p, q \in Procs : InSection(p) /\ InSection(q) => p = q

\* What excludes, whatever the number of sessions.
Protection ==
  /\ \A p \in Procs : YoungSinceJudged(p) /\ Protected(p)
  /\ AloneInSection

\* What holds while nobody has slipped into the gap.
QuietInv ==
  /\ Protection
  /\ \A p \in Procs : WrongGrabIsAlone(p)
  /\ overtaken = {}

TypedAndTimely == TypeOK /\ \A p \in Procs : Timely(p)

IInv == TypedAndTimely /\ (gap = "none" => QuietInv)

\* Of two sessions only one can be about to grab wrong, and then the other one is
\* in no recovery: it has made what is grabbed.
WrongGrabOfTwo(q) ==
  /\ pc[q] = "rename" /\ lock \notin {None, MaxAge} =>
       \A r \in Procs \ {q} : ~InRecovery(r)
  /\ MisGrabbed(q) =>
       /\ lock \in {None} \cup 0 .. clock[q]
       /\ \A r \in Procs \ {q} : ~InRecovery(r)

\* What holds of two sessions until one dies with a wrong directory set aside.
PairInv == Protection /\ \A p \in Procs : WrongGrabOfTwo(p)

IPair == TypedAndTimely /\ (Cardinality(Procs) = 2 /\ gap # "abandoned" => PairInv)
-----------------------------------------------------------------------------
(* Types and time. *)

\* A tick keeps an age an age.
LEMMA OlderAge ==
  ASSUME NEW a \in Ages \cup {None}
  PROVE  /\ Older(a) \in Ages \cup {None}
         /\ Older(a) = None <=> a = None
         /\ a = MaxAge => Older(a) = MaxAge
         /\ a \in Ages => Older(a) = a + 1 \/ (a = MaxAge /\ Older(a) = MaxAge)
BY LockAssumption DEF Older, Ages, MaxAge

\* It holds at the start.
LEMMA InitType == Init => TypeOK
<1> SUFFICES ASSUME Init PROVE TypeOK
  OBVIOUS
<1>1. MaxAge \in Ages /\ 1 \in 1 .. MaxRetries
  BY LockAssumption DEF Ages, MaxAge
<1>. QED
  BY <1>1 DEF Init, TypeOK, PCs, Callable

\* Every step keeps the types.
LEMMA NextType == TypeOK /\ [Next]_vars => TypeOK'
<1> SUFFICES ASSUME TypeOK, [Next]_vars PROVE TypeOK'
  OBVIOUS
<1> USE LockAssumption DEF TypeOK, Goto, StartClock, PCs, Callable, Recovery, Section
<1>1. CASE Tick
  <2>1. /\ lock' \in Ages \cup {None}
        /\ aside' \in [Procs -> Ages \cup {None}]
        /\ judged' \in [Procs -> Ages \cup {None}]
    BY <1>1, OlderAge DEF Tick
  <2>. QED
    BY <1>1, <2>1 DEF Tick
<1>2. ASSUME NEW p \in Procs, Step(p) PROVE TypeOK'
  <2>1. CASE Mkdir(p)
    BY <2>1 DEF Mkdir, TryMkdirLock, Ages, MaxAge
  <2>2. CASE Restore(p)
    BY <2>2 DEF Restore
  <2>3. CASE Start(p) \/ Judge(p) \/ SetAside(p) \/ Identify(p)
    BY <2>3 DEF Start, Judge, SetAside, Identify
  <2>4. CASE Remove(p) \/ Wait(p)
    BY <2>4 DEF Remove, Wait
  <2>5. CASE Read(p) \/ Replace(p) \/ Release(p)
    BY <2>5 DEF Read, Replace, Release
  <2>. QED
    BY <1>2, <2>1, <2>2, <2>3, <2>4, <2>5 DEF Step
<1>3. ASSUME NEW p \in Procs, Die(p) PROVE TypeOK'
  BY <1>3 DEF Die
<1>4. CASE UNCHANGED vars
  BY <1>4 DEF vars
<1>. QED
  BY <1>1, <1>2, <1>3, <1>4 DEF Next

\* Time passes within the limits of every live session only, and nothing is
\* judged that is not stale.
LEMMA NextTimely ==
  ASSUME TypeOK, \A p \in Procs : Timely(p), [Next]_vars
  PROVE  \A p \in Procs : Timely(p)'
<1> USE LockAssumption, TimelyAssumption DEF TypeOK, Timely, InSection, InRecovery,
       Goto, StartClock, PCs, Callable, Recovery, Section
<1>1. CASE Tick
  <2> SUFFICES ASSUME NEW p \in Procs PROVE Timely(p)'
    OBVIOUS
  <2>1. /\ pc'[p] = pc[p]
        /\ clock'[p] = IF pc[p] \in Section \cup Recovery THEN clock[p] + 1 ELSE clock[p]
        /\ aside'[p] = Older(aside[p]) /\ judged'[p] = Older(judged[p])
        /\ pc[p] \in Section => clock[p] < MaxHold
        /\ pc[p] \in Recovery => clock[p] < MaxRecover
    BY <1>1 DEF Tick
  <2>2. /\ judged[p] = MaxAge => judged'[p] = MaxAge
        /\ aside[p] \in Ages => aside'[p] \in Ages
    BY <2>1, OlderAge DEF MaxAge, Ages
  <2>. QED
    BY <2>1, <2>2
<1>2. ASSUME NEW q \in Procs, Step(q), NEW p \in Procs PROVE Timely(p)'
  <2>1. CASE Mkdir(q)
    BY <2>1 DEF Mkdir, TryMkdirLock
  <2>2. CASE Judge(q)
    BY <2>2 DEF Judge, IsStale, Ages, MaxAge
  <2>3. CASE SetAside(q)
    BY <2>3 DEF SetAside
  <2>4. CASE Start(q) \/ Identify(q) \/ Restore(q)
    BY <2>4 DEF Start, Identify, Restore
  <2>5. CASE Remove(q) \/ Wait(q)
    BY <2>5 DEF Remove, Wait
  <2>6. CASE Read(q) \/ Replace(q) \/ Release(q)
    BY <2>6 DEF Read, Replace, Release
  <2>. QED
    BY <1>2, <2>1, <2>2, <2>3, <2>4, <2>5, <2>6 DEF Step
<1>3. ASSUME NEW q \in Procs, Die(q), NEW p \in Procs PROVE Timely(p)'
  BY <1>3 DEF Die
<1>4. CASE UNCHANGED vars
  BY <1>4 DEF vars
<1>. QED
  BY <1>1, <1>2, <1>3, <1>4 DEF Next

\* Types and times hold for ever.
LEMMA NextTimed == TypedAndTimely /\ [Next]_vars => TypedAndTimely'
BY NextType, NextTimely DEF TypedAndTimely

-----------------------------------------------------------------------------
(* What excludes, step by step. *)

\* A grab is wrong when what it has set aside is not stale.
LEMMA WrongGrab ==
  ASSUME NEW q \in Procs, Timely(q)
  PROVE  MisGrabbed(q) <=> Grabbed(q) /\ aside[q] # MaxAge
BY DEF Timely, InRecovery, Recovery, MisGrabbed, Grabbed

\* What a tick does to one session.
LEMMA TickOfOne ==
  ASSUME TypeOK, Tick, NEW p \in Procs
  PROVE  /\ pc'[p] = pc[p]
         /\ clock'[p] = IF InSection(p) \/ InRecovery(p) THEN clock[p] + 1 ELSE clock[p]
         /\ aside'[p] = Older(aside[p])
         /\ InSection(p) => clock[p] < MaxHold
         /\ InRecovery(p) => clock[p] < MaxRecover
         /\ clock[p] \in Nat /\ aside[p] \in Ages \cup {None}
BY DEF Tick, TypeOK, InSection, InRecovery

\* Sessions and directories grow older together: nobody's place is lost, and
\* a wrong grab stays one.
LEMMA TickProtects ==
  ASSUME TypedAndTimely, TypedAndTimely', Protection, Tick
  PROVE  /\ Protection'
         /\ \A q \in Procs : MisGrabbed(q)' <=> MisGrabbed(q)
<1> USE LockAssumption, TimelyAssumption DEF TypedAndTimely
<1>1. lock' = Older(lock) /\ lock \in Ages \cup {None}
  BY DEF Tick, TypeOK
<1>2. MaxAge > MaxHold + MaxRecover /\ MaxAge \in Nat
  BY DEF MaxAge
<1>3. ASSUME NEW q \in Procs PROVE YoungSinceJudged(q)'
  <2>1. YoungSinceJudged(q)
    BY DEF Protection
  <2>2. pc[q] \in {"rename", "identify", "restore"} =>
          clock'[q] = clock[q] + 1 /\ clock[q] < MaxRecover
    BY TickOfOne DEF InRecovery, Recovery
  <2>. QED
    BY <1>1, <1>2, <2>1, <2>2, TickOfOne DEF YoungSinceJudged, Grabbed, Older
<1>4. ASSUME NEW q \in Procs PROVE MisGrabbed(q)' <=> MisGrabbed(q)
  <2>1. Timely(q) /\ Timely(q)' /\ YoungSinceJudged(q)
    BY DEF Protection
  <2>2. MisGrabbed(q)' <=> Grabbed(q)' /\ aside'[q] # MaxAge
    BY <2>1 DEF Timely, InRecovery, Recovery, MisGrabbed, Grabbed
  <2>3. Grabbed(q) => clock[q] < MaxRecover
    BY TickOfOne DEF Grabbed, InRecovery, Recovery
  <2>. QED
    BY <1>2, <2>1, <2>2, <2>3, TickOfOne, WrongGrab DEF YoungSinceJudged, Older, Grabbed
<1>5. ASSUME NEW p \in Procs PROVE Protected(p)'
  <2>1. Protected(p)
    BY DEF Protection
  <2>2. InSection(p)' <=> InSection(p)
    BY TickOfOne DEF InSection
  <2>3. (\E q \in Procs : MisGrabbed(q)') <=> \E q \in Procs : MisGrabbed(q)
    BY <1>4
  <2>. QED
    BY <1>1, <1>2, <2>1, <2>2, <2>3, TickOfOne DEF Protected, Older
<1>6. AloneInSection'
  BY TickOfOne DEF Protection, AloneInSection, InSection
<1>. QED
  BY <1>3, <1>4, <1>5, <1>6 DEF Protection

\* What a process p has to respect so that its step takes nobody's place: it
\* makes the lock only when nobody is in its section, and puts back only what is
\* newer than every judgement.
Respects(p) ==
  /\ Mkdir(p) /\ lock = None => \A q \in Procs : ~InSection(q)
  /\ MisGrabbed(p) => \A q \in Procs : pc[q] = "rename" => aside[p] \in 0 .. clock[q]
  /\ ~(Die(p) /\ MisGrabbed(p))

\* Every step of such a process keeps the exclusion.
LEMMA StepProtects ==
  ASSUME TypedAndTimely, TypedAndTimely', Protection,
         NEW p \in Procs, Respects(p), Step(p) \/ Die(p)
  PROVE  Protection'
<1> USE LockAssumption, TimelyAssumption
<1>1. MaxAge > MaxHold + MaxRecover /\ MaxAge \in Nat /\ MaxHold \in Nat /\ MaxRecover \in Nat
  BY DEF MaxAge
<1>2. /\ pc \in [Procs -> PCs] /\ clock \in [Procs -> Nat]
      /\ aside \in [Procs -> Ages \cup {None}] /\ judged \in [Procs -> Ages \cup {None}]
      /\ lock \in Ages \cup {None}
      /\ \A q \in Procs : Timely(q) /\ Timely(q)' /\ YoungSinceJudged(q) /\ Protected(q)
      /\ AloneInSection
  BY DEF TypedAndTimely, TypeOK, Protection
<1> USE <1>1, <1>2 DEF Timely, YoungSinceJudged, Protected, AloneInSection, InSection,
       InRecovery, Grabbed, MisGrabbed, Section, Recovery, Goto, StartClock, Ages
<1>a. ASSUME \A q \in Procs : YoungSinceJudged(q)' /\ Protected(q)', AloneInSection'
      PROVE  Protection'
  BY <1>a DEF Protection
<1>3. CASE Start(p)
  BY <1>3, <1>a DEF Start, Callable
<1>4. CASE Mkdir(p)
  <2>1. CASE lock = None
    BY <1>4, <2>1, <1>a DEF Mkdir, TryMkdirLock, Respects
  <2>2. CASE lock # None
    BY <1>4, <2>2, <1>a DEF Mkdir, TryMkdirLock
  <2>. QED
    BY <2>1, <2>2
<1>5. CASE Judge(p)
  BY <1>5, <1>a DEF Judge, IsStale, MaxAge
<1>6. CASE SetAside(p)
  BY <1>6, <1>a DEF SetAside
<1>7. CASE Identify(p)
  BY <1>7, <1>a DEF Identify
<1>8. CASE Restore(p)
  BY <1>8, <1>a DEF Restore, Respects
<1>9. CASE Remove(p)
  BY <1>9, <1>a DEF Remove
<1>10. CASE Wait(p)
  BY <1>10, <1>a DEF Wait
<1>11. CASE Read(p) \/ Replace(p)
  BY <1>11, <1>a DEF Read, Replace
<1>12. CASE Release(p)
  BY <1>12, <1>a DEF Release
<1>13. CASE Die(p)
  BY <1>13, <1>a DEF Die, Respects, Callable
<1>. QED
  BY <1>3, <1>4, <1>5, <1>6, <1>7, <1>8, <1>9, <1>10, <1>11, <1>12, <1>13 DEF Step

-----------------------------------------------------------------------------
(* Any number of sessions, as long as nobody slips into the gap. *)

\* The gap is not forgotten.
LEMMA GapStays == TypeOK /\ [Next]_vars /\ gap' = "none" => gap = "none"
BY DEF TypeOK, Next, vars, Tick, Step, Start, Mkdir, TryMkdirLock, Judge, SetAside,
       Identify, Restore, Remove, Wait, Read, Replace, Release, Die

\* While nobody slips in, every process respects the others.
LEMMA QuietRespects ==
  ASSUME TypedAndTimely, QuietInv, NEW p \in Procs, Step(p) \/ Die(p), gap = "none",
         gap' = "none"
  PROVE  Respects(p)
<1>1. ASSUME Mkdir(p), lock = None, NEW q \in Procs, InSection(q)
      PROVE  FALSE
  <2>1. \E r \in Procs : MisGrabbed(r)
    BY <1>1 DEF QuietInv, Protection, Protected
  <2>. QED
    BY <1>1, <2>1 DEF Mkdir, TryMkdirLock
<1>2. ~(Die(p) /\ MisGrabbed(p))
  BY DEF Die
<1>. QED
  BY <1>1, <1>2 DEF Respects, QuietInv, WrongGrabIsAlone

\* No step makes a second wrong grab, nor one older than a judgement.
LEMMA StepKeepsGrabAlone ==
  ASSUME TypedAndTimely, TypedAndTimely', QuietInv, gap = "none", gap' = "none",
         NEW p \in Procs, Step(p) \/ Die(p), NEW q \in Procs
  PROVE  WrongGrabIsAlone(q)'
<1>1. /\ pc \in [Procs -> PCs] /\ clock \in [Procs -> Nat]
      /\ aside \in [Procs -> Ages \cup {None}] /\ judged \in [Procs -> Ages \cup {None}]
      /\ lock \in Ages \cup {None}
      /\ \A r \in Procs : Timely(r) /\ Timely(r)' /\ YoungSinceJudged(r) /\ WrongGrabIsAlone(r)
  BY DEF TypedAndTimely, TypeOK, QuietInv, Protection
<1> USE <1>1, LockAssumption DEF Timely, YoungSinceJudged, InRecovery, Grabbed,
       WrongGrabIsAlone, MisGrabbed, Recovery, Goto, StartClock, Ages
<1>2. CASE Start(p) \/ Read(p) \/ Replace(p) \/ Release(p) \/ Wait(p)
  BY <1>2 DEF Start, Read, Replace, Release, Wait, Callable
<1>3. CASE Mkdir(p)
  BY <1>3 DEF Mkdir, TryMkdirLock
<1>4. CASE Judge(p)
  BY <1>4 DEF Judge
<1>5. CASE SetAside(p)
  BY <1>5 DEF SetAside
<1>6. CASE Identify(p)
  BY <1>6 DEF Identify
<1>7. CASE Restore(p)
  BY <1>7 DEF Restore
<1>8. CASE Remove(p)
  BY <1>8 DEF Remove
<1>9. CASE Die(p)
  BY <1>9 DEF Die
<1>. QED
  BY <1>2, <1>3, <1>4, <1>5, <1>6, <1>7, <1>8, <1>9 DEF Step

\* No step overtakes a session that has read: it would have to replace state.json
\* while another one is about to.
LEMMA NoneOvertaken ==
  ASSUME TypeOK, QuietInv, NEW p \in Procs, Step(p) \/ Die(p)
  PROVE  overtaken' = {}
<1>1. CASE Replace(p)
  <2>1. \A q \in Procs \ {p} : pc[q] # "replace"
    BY <1>1 DEF Replace, QuietInv, Protection, AloneInSection, InSection, Section
  <2>. QED
    BY <1>1, <2>1 DEF Replace, QuietInv
<1>. QED
  BY <1>1 DEF QuietInv, Step, Start, Mkdir, TryMkdirLock, Judge, SetAside, Identify, Restore,
     Remove, Wait, Read, Release, Die

\* The inductive step.
LEMMA NextQuiet ==
  ASSUME IInv, [Next]_vars, gap' = "none"
  PROVE  QuietInv'
<1>1. TypedAndTimely /\ TypedAndTimely' /\ gap = "none" /\ QuietInv
  BY NextTimed, GapStays DEF IInv, TypedAndTimely
<1>2. CASE Tick
  <2>1. Protection' /\ \A q \in Procs : MisGrabbed(q)' <=> MisGrabbed(q)
    BY <1>1, <1>2, TickProtects DEF QuietInv
  <2>2. ASSUME NEW q \in Procs, MisGrabbed(q)', NEW r \in Procs, pc'[r] = "rename"
        PROVE  aside'[q] \in 0 .. clock'[r]
    <3>1. /\ aside[q] \in 0 .. clock[r] /\ InRecovery(r) /\ clock[r] \in Nat
          /\ aside'[q] = Older(aside[q]) /\ clock'[r] = clock[r] + 1 /\ clock[r] < MaxRecover
      BY <1>1, <1>2, <2>1, <2>2, TickOfOne DEF TypedAndTimely, QuietInv, WrongGrabIsAlone,
         InRecovery, Recovery
    <3>. QED
      BY <3>1, LockAssumption, TimelyAssumption DEF Older, MaxAge
  <2>3. lock = None => lock' = None
    BY <1>2 DEF Tick, Older
  <2>4. \A q \in Procs : WrongGrabIsAlone(q)'
    BY <1>1, <2>1, <2>2, <2>3 DEF QuietInv, WrongGrabIsAlone
  <2>. QED
    BY <1>1, <1>2, <2>1, <2>4 DEF QuietInv, Tick
<1>3. ASSUME NEW p \in Procs, Step(p) \/ Die(p) PROVE QuietInv'
  <2>1. Protection'
    BY <1>1, <1>3, QuietRespects, StepProtects DEF QuietInv
  <2>2. \A q \in Procs : WrongGrabIsAlone(q)'
    BY <1>1, <1>3, StepKeepsGrabAlone
  <2>3. overtaken' = {}
    BY <1>1, <1>3, NoneOvertaken DEF TypedAndTimely
  <2>. QED
    BY <2>1, <2>2, <2>3 DEF QuietInv
<1>4. CASE UNCHANGED vars
  BY <1>1, <1>4 DEF vars, QuietInv, Protection, YoungSinceJudged, Protected, AloneInSection,
     WrongGrabIsAlone, MisGrabbed, Grabbed, InSection
<1>. QED
  BY <1>2, <1>3, <1>4 DEF Next

\* Nobody has started and nothing is set aside.
LEMMA InitIInv == Init => IInv /\ (Cardinality(Procs) = 2 => PairInv)
<1> SUFFICES ASSUME Init PROVE IInv /\ PairInv
  OBVIOUS
<1>1. TypeOK /\ MaxAge \in Nat
  BY InitType, LockAssumption DEF MaxAge
<1>2. \A p \in Procs : pc[p] = "idle"
  BY DEF Init
<1>. QED
  BY <1>1, <1>2 DEF Init, IInv, TypedAndTimely, Timely, QuietInv, Protection,
     YoungSinceJudged, Protected, AloneInSection, WrongGrabIsAlone, MisGrabbed, Grabbed,
     InSection, InRecovery, Section, Recovery, PairInv, WrongGrabOfTwo

\* The inductive invariant holds for ever.
THEOREM LockInvariance == Spec => []IInv
<1>1. IInv /\ [Next]_vars => IInv'
  BY NextTimed, NextQuiet DEF IInv
<1>. QED
  BY <1>1, InitIInv, PTL DEF Spec

\* Every reachable state of the lock has the declared shape.
THEOREM TypeCorrectness == Spec => []TypeOK
<1>1. IInv => TypeOK
  BY DEF IInv, TypedAndTimely
<1>. QED
  BY <1>1, LockInvariance, PTL

\* Whoever is alone in its section is at most one.
LEMMA AloneIsExclusive == AloneInSection => Exclusive
<1> DEFINE S == {p \in Procs : pc[p] \in Section}
<1> SUFFICES ASSUME AloneInSection PROVE Cardinality(S) <= 1
  BY DEF Exclusive
<1>1. CASE S = {}
  BY <1>1, FS_EmptySet
<1>2. ASSUME NEW p \in S PROVE Cardinality(S) <= 1
  <2>1. S = {p}
    BY <1>2 DEF AloneInSection, InSection
  <2>2. Cardinality(S) = 1
    BY <2>1, FS_Singleton, Zenon
  <2>. QED
    BY <2>2
<1>. QED
  BY <1>1, <1>2

\* However many sessions write, die in between and recover each other's locks, at
\* most one reads and replaces state.json at a time unless one slipped into the gap.
THEOREM Excludes == Spec => []MutualExclusion
<1>1. IInv => MutualExclusion
  BY AloneIsExclusive DEF IInv, QuietInv, Protection, MutualExclusion
<1>. QED
  BY <1>1, LockInvariance, PTL

\* As long, no session replaces a state.json it has not read.
THEOREM NothingLost == Spec => []NoLostUpdate
<1>1. IInv => NoLostUpdate
  BY DEF IInv, QuietInv, NoLostUpdate
<1>. QED
  BY <1>1, LockInvariance, PTL

-----------------------------------------------------------------------------
(* Two sessions, gap or not. *)

\* The other one of two.
LEMMA TwoProcs ==
  ASSUME Cardinality(Procs) = 2, NEW p \in Procs, NEW q \in Procs, p # q, NEW r \in Procs
  PROVE  r \in {p, q}
<1>1. /\ IsFiniteSet(Procs \ {p}) /\ Cardinality(Procs \ {p}) = 1
  BY LockAssumption, FS_RemoveElement
<1>2. PICK x : Procs \ {p} = {x}
  BY <1>1, FS_Singleton
<1>. QED
  BY <1>2

\* A session respects the other one: whoever stands in its section while the name
\* is free has been robbed by somebody, and that is the one who would enter.
LEMMA PairRespects ==
  ASSUME TypedAndTimely, PairInv, Cardinality(Procs) = 2,
         NEW p \in Procs, Step(p) \/ Die(p), gap' # "abandoned"
  PROVE  Respects(p)
<1>1. ASSUME Mkdir(p), lock = None, NEW q \in Procs, InSection(q)
      PROVE  FALSE
  <2>1. PICK r \in Procs : MisGrabbed(r)
    BY <1>1 DEF PairInv, Protection, Protected
  <2>2. p # q /\ r # p /\ r # q
    BY <1>1, <2>1 DEF Mkdir, MisGrabbed, InSection, Section
  <2>. QED
    BY <2>2, TwoProcs
<1>2. ~(Die(p) /\ MisGrabbed(p))
  BY DEF Die
<1>3. MisGrabbed(p) => \A q \in Procs : pc[q] # "rename"
  BY DEF PairInv, WrongGrabOfTwo, MisGrabbed, InRecovery, Recovery
<1>. QED
  BY <1>1, <1>2, <1>3 DEF Respects

\* No step brings the second of two sessions into a recovery while the first one is
\* about to grab wrong.
LEMMA StepKeepsGrabOfTwo ==
  ASSUME TypedAndTimely, TypedAndTimely', PairInv, Cardinality(Procs) = 2,
         NEW p \in Procs, Step(p) \/ Die(p), NEW q \in Procs
  PROVE  WrongGrabOfTwo(q)'
<1>1. /\ pc \in [Procs -> PCs] /\ clock \in [Procs -> Nat]
      /\ aside \in [Procs -> Ages \cup {None}] /\ judged \in [Procs -> Ages \cup {None}]
      /\ lock \in Ages \cup {None}
      /\ \A r \in Procs : /\ Timely(r) /\ Timely(r)' /\ YoungSinceJudged(r)
                          /\ WrongGrabOfTwo(r)
      /\ \A r \in Procs : p # q => r \in {p, q}
  BY TwoProcs DEF TypedAndTimely, TypeOK, PairInv, Protection
<1>2. MaxAge > MaxHold + MaxRecover /\ MaxAge = StaleAge + 1 /\ MaxAge \in Nat
      /\ MaxHold \in Nat /\ MaxRecover \in Nat
  BY LockAssumption, TimelyAssumption DEF MaxAge
<1> USE <1>1, <1>2, LockAssumption DEF Timely, YoungSinceJudged, InRecovery, Grabbed,
       WrongGrabOfTwo, MisGrabbed, Recovery, Goto, StartClock, Ages
<1>3. CASE Start(p) \/ Read(p) \/ Replace(p) \/ Release(p) \/ Wait(p)
  BY <1>3 DEF Start, Read, Replace, Release, Wait, Callable
<1>4. CASE Mkdir(p)
  BY <1>4 DEF Mkdir, TryMkdirLock
<1>5. CASE Judge(p)
  BY <1>5 DEF Judge, IsStale
<1>6. CASE SetAside(p)
  BY <1>6 DEF SetAside
<1>7. CASE Identify(p)
  BY <1>7 DEF Identify
<1>8. CASE Restore(p)
  BY <1>8 DEF Restore
<1>9. CASE Remove(p)
  BY <1>9 DEF Remove
<1>10. CASE Die(p)
  BY <1>10 DEF Die
<1>. QED
  BY <1>3, <1>4, <1>5, <1>6, <1>7, <1>8, <1>9, <1>10 DEF Step

\* A wrong directory that was abandoned stays abandoned.
LEMMA AbandonedStays == [Next]_vars /\ gap' # "abandoned" => gap # "abandoned"
BY DEF Next, vars, Tick, Step, Start, Mkdir, TryMkdirLock, Judge, SetAside,
       Identify, Restore, Remove, Wait, Read, Replace, Release, Die

\* The inductive step.
LEMMA NextPair ==
  ASSUME IPair, [Next]_vars, Cardinality(Procs) = 2, gap' # "abandoned"
  PROVE  PairInv'
<1>1. TypedAndTimely /\ TypedAndTimely' /\ PairInv
  BY NextTimed, AbandonedStays DEF IPair
<1>2. CASE Tick
  <2>1. Protection' /\ \A q \in Procs : MisGrabbed(q)' <=> MisGrabbed(q)
    BY <1>1, <1>2, TickProtects DEF PairInv
  <2>2. /\ lock' = Older(lock) /\ lock \in Ages \cup {None} /\ MaxAge \in Nat
        /\ MaxRecover < MaxAge /\ MaxRecover \in Nat /\ None \notin Nat
    BY <1>1, <1>2, LockAssumption, TimelyAssumption DEF Tick, TypedAndTimely, TypeOK, MaxAge
  <2>3. ASSUME NEW q \in Procs PROVE WrongGrabOfTwo(q)'
    <3>1. WrongGrabOfTwo(q) /\ \A r \in Procs : InRecovery(r)' <=> InRecovery(r)
      BY <1>1, <1>2, TickOfOne DEF PairInv, InRecovery, TypedAndTimely
    <3>2. InRecovery(q) => clock'[q] = clock[q] + 1 /\ clock[q] < MaxRecover /\ clock[q] \in Nat
      BY <1>1, <1>2, TickOfOne DEF TypedAndTimely
    <3>3. pc'[q] = pc[q] /\ (pc[q] = "rename" \/ MisGrabbed(q) => InRecovery(q))
      BY <1>1, <1>2, TickOfOne DEF TypedAndTimely, InRecovery, Recovery, MisGrabbed
    <3>4. /\ lock' \notin {None, MaxAge} => lock \notin {None, MaxAge}
          /\ InRecovery(q) /\ lock \in {None} \cup 0 .. clock[q] =>
               lock' \in {None} \cup 0 .. clock'[q]
      BY <2>2, <3>2 DEF Older
    <3>. QED
      BY <2>1, <3>1, <3>3, <3>4 DEF WrongGrabOfTwo
  <2>. QED
    BY <2>1, <2>3 DEF PairInv
<1>3. ASSUME NEW p \in Procs, Step(p) \/ Die(p) PROVE PairInv'
  <2>1. Protection'
    BY <1>1, <1>3, PairRespects, StepProtects DEF PairInv
  <2>. QED
    BY <1>1, <1>3, <2>1, StepKeepsGrabOfTwo DEF PairInv
<1>4. CASE UNCHANGED vars
  BY <1>1, <1>4 DEF vars, PairInv, Protection, YoungSinceJudged, Protected, AloneInSection,
     WrongGrabOfTwo, MisGrabbed, Grabbed, InSection, InRecovery
<1>. QED
  BY <1>2, <1>3, <1>4 DEF Next

\* Between two sessions the gap does no harm unless one of them dies in it, whatever
\* the delays and however often they recover each other's locks.
THEOREM PairExcludes == Spec => []TwoSessionsExclude
<1>1. Init => IPair
  BY InitIInv DEF IInv, IPair
<1>2. IPair /\ [Next]_vars => IPair'
  BY NextTimed, NextPair DEF IPair
<1>3. IPair => TwoSessionsExclude
  BY AloneIsExclusive DEF IPair, PairInv, Protection, TwoSessionsExclude
<1>. QED
  BY <1>1, <1>2, <1>3, PTL DEF Spec
=============================================================================

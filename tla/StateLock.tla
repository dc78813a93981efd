------------------------------ MODULE StateLock ------------------------------
(***************************************************************************)
(* The lock directory of a state dir: mkdir for exclusion, recovery of the *)
(* lock of a dead session after ten minutes, and the read-modify-write of  *)
(* state.json under it.  Every system call is a step of its own.           *)
(*                                                                         *)
(* A directory is its age, which is what its mtime says of it: mtime       *)
(* survives a rename, so the mtime a session has noted and the mtime of a  *)
(* directory are equal when both have the same age.                        *)
(***************************************************************************)
EXTENDS Integers, FiniteSets

CONSTANTS
  Procs,       \* processes of the state CLI
  None,
  StaleAge,    \* STALE_LOCK_MS in ticks
  MaxHold,     \* ticks a live session needs at most for a write
  MaxRecover,  \* ticks a live session needs at most for a recovery
  MaxRetries   \* opts.maxRetries

ASSUME LockAssumption ==
  /\ IsFiniteSet(Procs)
  /\ None \notin Procs /\ None \notin Nat
  /\ MaxHold \in Nat /\ MaxRecover \in Nat
  /\ StaleAge \in Nat /\ MaxRetries \in Nat \ {0}

\* Ten minutes are long against a write and against a recovery
\* (docs/state-machine.md, section 1).
ASSUME TimelyAssumption == MaxHold + MaxRecover <= StaleAge

VARIABLES
  pc,        \* where a process stands in the verb it executes
  attempt,   \* attempt of acquireLock's loop
  lock,      \* the directory <state dir>/lock, None when there is none
  aside,     \* the directory a process has renamed to lock.stale.<uuid>
  judged,    \* age of the directory a process has judged stale
  clock,     \* ticks a process has spent in its section or its recovery
  overtaken, \* processes that have read a state.json replaced since
  gap,       \* ghost: was a lock entered while a wrong directory was set aside
  died       \* ghost: a process has died

vars == <<pc, attempt, lock, aside, judged, clock, overtaken, gap, died>>

MaxAge == StaleAge + 1            \* bound: older directories are all stale
Section == {"read", "replace", "release"}
Recovery == {"rename", "identify", "restore", "remove"}
Callable == {"idle", "done"}      \* no verb is executing; done: the last one succeeded
PCs == Callable \cup {"mkdir", "stat", "retry", "wait"} \cup Recovery \cup Section

\* Mutant: the age of the directory is not looked at.
AnyIsStale(dir) == TRUE

\* Mutant: no directory is old enough.
NoneIsStale(dir) == dir > MaxAge

IsStale(dir) == dir > StaleAge
MisGrabbed(p) == pc[p] \in {"identify", "restore"} /\ aside[p] # judged[p]

\* The state dir may hold the lock of a session that died long ago.
Init ==
  /\ pc = [p \in Procs |-> "idle"]
  /\ attempt = [p \in Procs |-> 1]
  /\ lock \in {None, MaxAge}
  /\ aside = [p \in Procs |-> None]
  /\ judged = [p \in Procs |-> None]
  /\ clock = [p \in Procs |-> 0]
  /\ overtaken = {}
  /\ gap = "none"
  /\ died = FALSE

Goto(p, l) == pc' = [pc EXCEPT ![p] = l]
StartClock(p) == clock' = [clock EXCEPT ![p] = 0]

\* A verb that writes is called.
Start(p) ==
  /\ pc[p] \in Callable
  /\ Goto(p, "mkdir")
  /\ attempt' = [attempt EXCEPT ![p] = 1]
  /\ UNCHANGED <<lock, aside, judged, clock, overtaken, gap, died>>

\* tryMkdirLock; failed says where acquireLock goes on when the name is taken.
TryMkdirLock(p, failed) ==
  IF lock = None
  THEN /\ lock' = 0
       /\ Goto(p, "read")
       /\ StartClock(p)
       /\ gap' = IF gap = "none" /\ \E q \in Procs : MisGrabbed(q) THEN "entered" ELSE gap
  ELSE Goto(p, failed) /\ UNCHANGED <<lock, clock, gap>>

Mkdir(p) ==
  /\ \/ pc[p] = "mkdir" /\ TryMkdirLock(p, "stat")
     \/ pc[p] = "retry" /\ TryMkdirLock(p, "wait")
  /\ UNCHANGED <<attempt, aside, judged, overtaken, died>>

\* tryRecoverStaleLock: only a lock older than ten minutes is judged stale.
Judge(p) ==
  /\ pc[p] = "stat"
  /\ IF lock # None /\ IsStale(lock)
     THEN /\ Goto(p, "rename")
          /\ judged' = [judged EXCEPT ![p] = lock]
          /\ StartClock(p)
     ELSE Goto(p, "wait") /\ UNCHANGED <<judged, clock>>
  /\ UNCHANGED <<attempt, lock, aside, overtaken, gap, died>>

\* The rename takes whatever the name lock stands for now.
SetAside(p) ==
  /\ pc[p] = "rename"
  /\ IF lock = None
     THEN Goto(p, "wait") /\ UNCHANGED <<lock, aside>>
     ELSE /\ Goto(p, "identify")
          /\ aside' = [aside EXCEPT ![p] = lock]
          /\ lock' = None
  /\ UNCHANGED <<attempt, judged, clock, overtaken, gap, died>>

\* Mutant: whatever was set aside is taken for what was judged.
TrustingIdentify(p) ==
  /\ pc[p] = "identify"
  /\ Goto(p, "remove")
  /\ UNCHANGED <<attempt, lock, aside, judged, clock, overtaken, gap, died>>

\* Is it the directory that was judged?
Identify(p) ==
  /\ pc[p] = "identify"
  /\ Goto(p, IF aside[p] = judged[p] THEN "remove" ELSE "restore")
  /\ UNCHANGED <<attempt, lock, aside, judged, clock, overtaken, gap, died>>

\* A directory taken by mistake goes back to its name.  An empty directory
\* there is replaced (POSIX) or refuses, and then the one set aside is removed.
Restore(p) ==
  /\ pc[p] = "restore"
  /\ lock' \in {aside[p]} \cup ({lock} \ {None})
  /\ aside' = [aside EXCEPT ![p] = None]
  /\ Goto(p, "wait")
  /\ UNCHANGED <<attempt, judged, clock, overtaken, gap, died>>

\* The one remover of a stale lock tries to take its place.
Remove(p) ==
  /\ pc[p] = "remove"
  /\ aside' = [aside EXCEPT ![p] = None]
  /\ Goto(p, "retry")
  /\ UNCHANGED <<attempt, lock, judged, clock, overtaken, gap, died>>

\* Mutant: one attempt too many.
LongWait(p) ==
  /\ pc[p] = "wait"
  /\ IF attempt[p] <= MaxRetries
     THEN Goto(p, "mkdir") /\ attempt' = [attempt EXCEPT ![p] = @ + 1]
     ELSE Goto(p, "idle") /\ UNCHANGED attempt
  /\ UNCHANGED <<lock, aside, judged, clock, overtaken, gap, died>>

\* Sleep and try again, or give the verb up with the error "lock".
Wait(p) ==
  /\ pc[p] = "wait"
  /\ IF attempt[p] < MaxRetries
     THEN Goto(p, "mkdir") /\ attempt' = [attempt EXCEPT ![p] = @ + 1]
     ELSE Goto(p, "idle") /\ UNCHANGED attempt
  /\ UNCHANGED <<lock, aside, judged, clock, overtaken, gap, died>>

\* readState under the lock, and the verb on it; one that fails its
\* preconditions, or has nothing to write, goes straight to the release.
Read(p) ==
  /\ pc[p] = "read"
  /\ Goto(p, "replace") \/ Goto(p, "release")
  /\ overtaken' = overtaken \ {p}
  /\ UNCHANGED <<attempt, lock, aside, judged, clock, gap, died>>

\* atomicWriteText: the rename of the temporary file.
Replace(p) ==
  /\ pc[p] = "replace"
  /\ Goto(p, "release")
  /\ overtaken' = overtaken \cup {q \in Procs \ {p} : pc[q] = "replace"}
  /\ UNCHANGED <<attempt, lock, aside, judged, clock, gap, died>>

\* releaseLock removes what the name stands for; nothing there is no error.
Release(p) ==
  /\ pc[p] = "release"
  /\ lock' = None
  /\ Goto(p, "done")
  /\ UNCHANGED <<attempt, aside, judged, clock, overtaken, gap, died>>

\* The process is killed; what it has made in the state dir stays there.
Die(p) ==
  /\ pc[p] \notin Callable
  /\ Goto(p, "idle")
  /\ aside' = [aside EXCEPT ![p] = None]
  /\ overtaken' = overtaken \ {p}
  /\ gap' = IF MisGrabbed(p) THEN "abandoned" ELSE gap
  /\ died' = TRUE
  /\ UNCHANGED <<attempt, lock, judged, clock>>

Older(age) == IF age = None \/ age = MaxAge THEN age ELSE age + 1

\* Time passes, but no live session outstays MaxHold or MaxRecover.
Tick ==
  /\ \A p \in Procs :
       /\ pc[p] \in Section => clock[p] < MaxHold
       /\ pc[p] \in Recovery => clock[p] < MaxRecover
  /\ clock' = [p \in Procs |-> IF pc[p] \in Section \cup Recovery
                               THEN clock[p] + 1 ELSE clock[p]]
  /\ lock' = Older(lock)
  /\ aside' = [p \in Procs |-> Older(aside[p])]
  /\ judged' = [p \in Procs |-> Older(judged[p])]
  /\ UNCHANGED <<pc, attempt, overtaken, gap, died>>

Step(p) ==
  \/ Start(p) \/ Mkdir(p) \/ Judge(p) \/ SetAside(p) \/ Identify(p) \/ Restore(p)
  \/ Remove(p) \/ Wait(p) \/ Read(p) \/ Replace(p) \/ Release(p)

Next == Tick \/ \E p \in Procs : Step(p) \/ Die(p)

Spec == Init /\ [][Next]_vars

\* Time goes on, a live process does too, and verbs keep being called: the
\* heartbeat of every session and the loop of the Driver write periodically.
FairSpec == Spec /\ WF_vars(Tick) /\ \A p \in Procs : WF_vars(Step(p))

-----------------------------------------------------------------------------
Ages == 0 .. MaxAge

\* Every variable keeps its type.
TypeOK ==
  /\ pc \in [Procs -> PCs]
  /\ attempt \in [Procs -> 1 .. MaxRetries]
  /\ lock \in Ages \cup {None}
  /\ aside \in [Procs -> Ages \cup {None}]
  /\ judged \in [Procs -> Ages \cup {None}]
  /\ clock \in [Procs -> Nat]
  /\ overtaken \subseteq Procs
  /\ gap \in {"none", "entered", "abandoned"}
  /\ died \in BOOLEAN

Exclusive == Cardinality({p \in Procs : pc[p] \in Section}) <= 1

\* At most one session reads and replaces state.json at a time, also around
\* crashes and concurrent recoveries, unless a session slipped into the gap
\* that section 1 of docs/state-machine.md leaves open, or the session that
\* has made it died in it.
MutualExclusion == gap = "none" => Exclusive

\* Between two sessions the gap does no harm unless one of them dies in it: it
\* takes a third to get in between a holder and the session that grabbed wrong.
TwoSessionsExclude == Cardinality(Procs) = 2 /\ gap # "abandoned" => Exclusive

\* No write is lost: a session about to replace state.json has read the
\* state.json that is there.
NoLostUpdate == gap = "none" => overtaken = {}

\* When every caller has finished, one of them with success, and none of them
\* has died, no lock is left behind (tests T-L1 and T-L4 of state.test.ts).
NoLockLeftBehind ==
  /\ ~died
  /\ \A p \in Procs : pc[p] \in Callable
  /\ \E p \in Procs : pc[p] = "done"
  => lock = None

\* Whoever died at whatever point, the lock never shuts every session out for
\* good: once sessions stop dying, one of them writes again and again.
NeverShutOut ==
  <>[][\A p \in Procs : ~Die(p)]_vars => []<>(\E p \in Procs : pc[p] \in Section)
=============================================================================

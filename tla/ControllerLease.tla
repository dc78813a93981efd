--------------------------- MODULE ControllerLease ---------------------------
(***************************************************************************)
(* controller_lease of state.json: which resident Driver may dispatch.     *)
(* All Drivers of a state directory share one session id, so a lease is    *)
(* known by its epoch, the time its Driver was started: the wall clock,    *)
(* which two starts may share and which may be set back.  Driver           *)
(* implements this module; what a Driver does between two checks of the    *)
(* lease is one stay in "work" here.                                       *)
(***************************************************************************)
EXTENDS Integers

CONSTANTS
  Drivers,   \* slots for Driver processes
  MaxEpoch,  \* bound: the latest reading of the clock
  MaxStarts  \* bound: Drivers launched

ASSUME LeaseAssumption == MaxEpoch \in Nat /\ MaxStarts \in Nat

VARIABLES
  lease,     \* controller_lease.epoch, NoLease for null
  starts,    \* Drivers launched so far
  mode,      \* "off", "acquire", "check", "work" or "release"
  epoch      \* epoch of each process, 0 when it is off

vars == <<lease, starts, mode, epoch>>

NoLease == 0   \* epochs are later than this

Enter(p, m) == mode' = [mode EXCEPT ![p] = m] /\ UNCHANGED epoch

Exit(p) == mode' = [mode EXCEPT ![p] = "off"] /\ epoch' = [epoch EXCEPT ![p] = 0]

Init ==
  /\ lease = NoLease /\ starts = 0
  /\ mode = [p \in Drivers |-> "off"]
  /\ epoch = [p \in Drivers |-> 0]

\* A process is started; its epoch is the time (Date.now), which may be the
\* one of another start or an earlier one.
Launch(p) ==
  /\ mode[p] = "off" /\ starts < MaxStarts
  /\ starts' = starts + 1
  /\ mode' = [mode EXCEPT ![p] = "acquire"]
  /\ \E now \in 1 .. MaxEpoch : epoch' = [epoch EXCEPT ![p] = now]
  /\ UNCHANGED lease

\* A process dies and gives nothing back.
Die(p) == mode[p] # "off" /\ Exit(p) /\ UNCHANGED <<lease, starts>>

\* applyControllerLeaseSetV2: an older or an equal epoch is overwritten, a later
\* one is a conflict, on which the process exits, whoever held it.
Acquire(p) ==
  /\ mode[p] = "acquire"
  /\ \/ lease > epoch[p] /\ Exit(p) /\ UNCHANGED lease
     \/ lease <= epoch[p] /\ Enter(p, "check") /\ lease' = epoch[p]
  /\ UNCHANGED starts

\* Mutant: the lease of any Driver will do.
TrustingCheck(p) ==
  /\ mode[p] = "check"
  /\ \/ lease # NoLease /\ Enter(p, "work")
     \/ lease = NoLease /\ Exit(p)
  /\ UNCHANGED <<lease, starts>>

\* next: a process that finds another lease, or none, exits at once.
Check(p) ==
  /\ mode[p] = "check"
  /\ \/ lease = epoch[p] /\ Enter(p, "work")
     \/ lease # epoch[p] /\ Exit(p)
  /\ UNCHANGED <<lease, starts>>

\* The operation is over.
Done(p) == mode[p] = "work" /\ Enter(p, "check") /\ UNCHANGED <<lease, starts>>

\* A stop is asked for at the top of the loop, or a call failed.
GiveUp(p) ==
  /\ mode[p] \in {"check", "work"}
  /\ Enter(p, "release")
  /\ UNCHANGED <<lease, starts>>

\* Mutant: the lease is cleared without the check of its epoch.
UncheckedRelease(p) ==
  /\ mode[p] = "release"
  /\ lease' = NoLease
  /\ Exit(p)
  /\ UNCHANGED starts

\* The lease is cleared if it is still one's own; the process exits.
Release(p) ==
  /\ mode[p] = "release"
  /\ lease' = IF lease = epoch[p] THEN NoLease ELSE lease
  /\ Exit(p)
  /\ UNCHANGED starts

\* A person clears the lease unconditionally.
ForceClear == lease # NoLease /\ lease' = NoLease /\ UNCHANGED <<starts, mode, epoch>>

\* What a running process does by itself.
Step(p) == Acquire(p) \/ Check(p) \/ Done(p) \/ GiveUp(p) \/ Release(p)

Next ==
  \/ ForceClear
  \/ \E p \in Drivers : Launch(p) \/ Die(p) \/ Step(p)

Spec == Init /\ [][Next]_vars

-----------------------------------------------------------------------------
\* Every variable keeps its shape.
TypeOK ==
  /\ lease \in Nat
  /\ starts \in Nat
  /\ mode \in [Drivers -> {"off", "acquire", "check", "work", "release"}]
  /\ epoch \in [Drivers -> Nat]

Running == {p \in Drivers : mode[p] # "off"}

\* The lease is fenced by its epoch: a Driver takes it from an older one only
\* and gives up only its own.  (A person clearing it moves no Driver.)
LeaseIsFenced ==
  [][\A p \in Drivers : mode'[p] # mode[p] /\ lease' # lease =>
       \/ lease' = epoch[p] /\ lease < epoch[p]
       \/ lease' = NoLease /\ lease = epoch[p]]_vars

=============================================================================

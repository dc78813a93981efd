------------------------ MODULE ControllerLeaseProofs ------------------------
(* Theorems of ControllerLease, for any number of Drivers.                   *)
EXTENDS ControllerLease, TLAPS

\* The types hold at the start.
LEMMA InitTypes == Init => TypeOK
  BY DEF Init, TypeOK, NoLease

\* The inductive step, one case for each action.
LEMMA NextTypes == TypeOK /\ [Next]_vars => TypeOK'
<1> SUFFICES ASSUME TypeOK, [Next]_vars PROVE TypeOK'
  OBVIOUS
<1> USE DEF TypeOK, NoLease
<1>1. CASE ForceClear
  BY <1>1 DEF ForceClear
<1>2. ASSUME NEW p \in Drivers, Launch(p) PROVE TypeOK'
  BY <1>2, LeaseAssumption DEF Launch
<1>3. ASSUME NEW p \in Drivers, Die(p) PROVE TypeOK'
  BY <1>3 DEF Die, Exit
<1>4. ASSUME NEW p \in Drivers, Acquire(p) PROVE TypeOK'
  BY <1>4 DEF Acquire, Enter, Exit
<1>5. ASSUME NEW p \in Drivers, Check(p) PROVE TypeOK'
  BY <1>5 DEF Check, Enter, Exit
<1>6. ASSUME NEW p \in Drivers, Done(p) PROVE TypeOK'
  BY <1>6 DEF Done, Enter
<1>7. ASSUME NEW p \in Drivers, GiveUp(p) PROVE TypeOK'
  BY <1>7 DEF GiveUp, Enter
<1>8. ASSUME NEW p \in Drivers, Release(p) PROVE TypeOK'
  BY <1>8 DEF Release, Exit
<1>9. CASE UNCHANGED vars
  BY <1>9 DEF vars
<1>. QED
  BY <1>1, <1>2, <1>3, <1>4, <1>5, <1>6, <1>7, <1>8, <1>9 DEF Next, Step

\* Every state of the lease has its types.
THEOREM LeaseTypes == Spec => []TypeOK
<1>. QED
  BY InitTypes, NextTypes, PTL DEF Spec

\* Whatever the clock shows at a start, the lease is taken from older epochs only and
\* given back by its owner only.
THEOREM LeaseFenced == Spec => LeaseIsFenced
<1> DEFINE Fenced ==
      \A p \in Drivers : mode'[p] # mode[p] /\ lease' # lease =>
        \/ lease' = epoch[p] /\ lease < epoch[p]
        \/ lease' = NoLease /\ lease = epoch[p]
<1>1. TypeOK /\ [Next]_vars => [Fenced]_vars
  <2> SUFFICES ASSUME TypeOK, Next,
                      NEW p \in Drivers, mode'[p] # mode[p], lease' # lease
               PROVE  \/ lease' = epoch[p] /\ lease < epoch[p]
                      \/ lease' = NoLease /\ lease = epoch[p]
    OBVIOUS
  <2> USE DEF TypeOK
  <2>1. CASE ForceClear
    BY <2>1 DEF ForceClear
  <2>2. ASSUME NEW q \in Drivers, Launch(q) \/ Die(q) \/ Step(q)
        PROVE  \/ lease' = epoch[p] /\ lease < epoch[p]
               \/ lease' = NoLease /\ lease = epoch[p]
    <3>1. CASE Acquire(q)
      BY <3>1 DEF Acquire, Enter, Exit
    <3>2. CASE Release(q)
      BY <3>2 DEF Release, Exit
    <3>. QED
      BY <2>2, <3>1, <3>2 DEF Launch, Die, Step, Check, Done, GiveUp, Enter, Exit
  <2>. QED
    BY <2>1, <2>2 DEF Next
<1>. QED
  BY <1>1, LeaseTypes, PTL DEF Spec, LeaseIsFenced
=============================================================================

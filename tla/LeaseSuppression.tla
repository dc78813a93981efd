-------------------------- MODULE LeaseSuppression ---------------------------
(***************************************************************************)
(* The controller lease together with the heartbeat file of the Drivers'   *)
(* session.  Other sessions leave claim, takeover and status-check to the  *)
(* Driver while the lease is there and its session counts as alive.        *)
(***************************************************************************)
EXTENDS ControllerLease

VARIABLE heard   \* is the heartbeat file of the Drivers' session fresh

allVars == <<vars, heard>>

\* Mutant: the lease alone silences the others.
LeaseSuppresses == lease # NoLease

\* activeForeignLeaseOf, seen from a session that is not the Driver's.
Suppressed == lease # NoLease /\ heard

SuppressionInit == Init /\ heard = FALSE

\* Mutant: the session is not touched.
MuteCheck(p) == Check(p) /\ UNCHANGED heard

\* Every cycle touches the session before it asks for next.
TouchAndCheck(p) == Check(p) /\ heard' = TRUE

SilentStep(p) == (Acquire(p) \/ Done(p) \/ GiveUp(p) \/ Release(p)) /\ UNCHANGED heard

\* The file grows stale during a call that takes long, or the verb of another
\* session removes it between its stat and its remove, whether a Driver runs or not.
Expire == heard /\ heard' = FALSE /\ UNCHANGED vars

DriverStep(p) == TouchAndCheck(p) \/ SilentStep(p)

SuppressionNext ==
  \/ Expire
  \/ ForceClear /\ UNCHANGED heard
  \/ \E p \in Drivers : (Launch(p) \/ Die(p)) /\ UNCHANGED heard
  \/ \E p \in Drivers : DriverStep(p)

FairSpec ==
  /\ SuppressionInit /\ [][SuppressionNext]_allVars
  /\ \A p \in Drivers : WF_allVars(DriverStep(p))
  /\ WF_allVars(Expire)

\* When no more Drivers are started, those that keep running share one epoch: an
\* evicted one finds out at its next check, wherever it was when it lost the lease.
OneEpochRemains == <>[](\A p, q \in Running : epoch[p] = epoch[q])

\* A Driver that runs on with its lease silences the other sessions again and
\* again, however often its heartbeat file is lost while it works.
SilenceReturns ==
  \A p \in Drivers : <>[](p \in Running /\ lease = epoch[p]) => []<>Suppressed

\* Whatever lease a dead Driver left behind, the other sessions are free to
\* work again once no Driver runs.
SuppressionEnds == <>[](Running = {}) => <>[]~Suppressed
=============================================================================

-------------------------------- MODULE GateRun --------------------------------
(***************************************************************************)
(* The run of one task as the verification gate sees it: where it stands   *)
(* and the round, which is the number of judgements that failed since the  *)
(* phase was entered.  TaskQueue implements this module for each of its    *)
(* tasks (ImplementsGateRun); VerdictGate is built on it.                  *)
(***************************************************************************)
EXTENDS Phases

VARIABLE node   \* kind, gate, phase and attempts of item.run

gateRun == <<node>>

NoRun == [kind |-> "none", gate |-> "none", phase |-> "none", attempts |-> 0]

\* claim, fix-start and rebase-start enter a run at the first phase of its axis.
StartRun(kind, gate) ==
  /\ node = NoRun
  /\ GateMatchesKind(kind, gate)
  /\ node' = [kind |-> kind, gate |-> gate, phase |-> MainSequence(kind, gate)[1],
              attempts |-> 0]

\* set-gate swaps the first phase of an initial run, whatever its round.
ShortenGate ==
  /\ node.gate = "full" /\ node.phase = "research"
  /\ node' = [node EXCEPT !.gate = "light", !.phase = "research+plan", !.attempts = 0]

\* advance names the phase it leaves and not the round.
Advance(from, to) ==
  /\ node.phase = from /\ from # "finalize"
  /\ IsAdvanceEdge(node.kind, node.gate, from, to)
  /\ node' = [node EXCEPT !.phase = to, !.attempts = 0]

\* Mutant: the round the caller saw is not compared.
UncomparedPhaseFail(phase, expect) ==
  /\ node.phase = phase /\ phase # "finalize"
  /\ node' = [node EXCEPT !.attempts = node.attempts + 1]

\* phase-fail names the phase and the round (--expect-attempts).
PhaseFail(phase, expect) ==
  /\ node.phase = phase /\ phase # "finalize"
  /\ node.attempts = expect
  /\ node' = [node EXCEPT !.attempts = expect + 1]

\* A conflict met at finalize, and giving up its resolution.
Detour ==
  /\ node.phase = "finalize"
  /\ node' = [node EXCEPT !.phase = "rebase_fix", !.attempts = 0]

Forgo ==
  /\ node.kind # "rebase_fix" /\ node.phase = "rebase_fix"
  /\ node' = [node EXCEPT !.phase = "finalize", !.attempts = 0]

\* ship, block, give-up, release: the run is dropped.
EndRun == node # NoRun /\ node' = NoRun

RunInit == node = NoRun

RunNext ==
  \/ \E kind \in Kinds, gate \in {"full", "none"} : StartRun(kind, gate)
  \/ ShortenGate
  \/ \E from, to \in AllPhases : Advance(from, to)
  \/ \E from \in AllPhases : PhaseFail(from, node.attempts)
  \/ Detour \/ Forgo \/ EndRun

RunSpec == RunInit /\ [][RunNext]_gateRun
===============================================================================

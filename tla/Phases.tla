-------------------------------- MODULE Phases --------------------------------
(***************************************************************************)
(* The nodes a run can stand at, (kind, gate, phase) of PHASES_BY_AXIS, and *)
(* the edges along which a judged phase is left.                            *)
(***************************************************************************)
EXTENDS Integers, Sequences

Kinds == {"initial", "pr_fix", "rebase_fix"}
Gates == {"full", "light", "none"}   \* "none" is the null gate of a fix run
AllPhases == {"research", "plan", "research+plan", "implement", "report",
              "pr_fix", "rebase_fix", "finalize"}

\* The phases each axis passes in order; the rebase detour is not among them.
MainSequences ==
  [full       |-> <<"research", "plan", "implement", "report", "finalize">>,
   light      |-> <<"research+plan", "implement", "report", "finalize">>,
   pr_fix     |-> <<"pr_fix", "finalize">>,
   rebase_fix |-> <<"rebase_fix", "finalize">>]

MainSequence(kind, gate) == MainSequences[IF kind = "initial" THEN gate ELSE kind]

\* Mutant: any later phase of the sequence may follow.
SkippingAdvanceEdge(kind, gate, from, to) ==
  LET seq == MainSequence(kind, gate) IN
  \/ \E i, j \in 1 .. Len(seq) : i < j /\ seq[i] = from /\ seq[j] = to
  \/ kind # "rebase_fix" /\ from = "rebase_fix" /\ to = "finalize"

\* An edge to the next phase of the sequence, or the return from the detour.
IsAdvanceEdge(kind, gate, from, to) ==
  LET seq == MainSequence(kind, gate) IN
  \/ \E i \in 1 .. Len(seq) - 1 : seq[i] = from /\ seq[i + 1] = to
  \/ kind # "rebase_fix" /\ from = "rebase_fix" /\ to = "finalize"

\* The gate is null exactly when the kind is not initial.
GateMatchesKind(kind, gate) == (gate # "none") <=> (kind = "initial")

IsLegalRunNode(kind, gate, phase) ==
  /\ kind \in Kinds /\ gate \in Gates
  /\ GateMatchesKind(kind, gate)
  /\ \/ phase = "rebase_fix"
     \/ \E i \in 1 .. Len(MainSequence(kind, gate)) :
          MainSequence(kind, gate)[i] = phase
===============================================================================

----------------------------- MODULE MCVerdictGate -----------------------------
(* Instances of VerdictGate for TLC: a task for each way the mode of its audit *)
(* comes about, and configurations of a dual audit that are valid, of one      *)
(* family, and of one verifier.                                                *)
EXTENDS VerdictGate

CONSTANT p1   \* a path

Declared(class, declared, scope) ==
  [class |-> class, declared |-> declared, scope |-> scope]

\* trivial, with a scope: the shell for implement, one verifier elsewhere; high,
\* declared single: two verifiers nevertheless.
TwoTasks == {Declared(TaskClassOf(FALSE, TRUE), Undeclared, {p1}),
             Declared(TaskClassOf(TRUE, TRUE), "single", {})}

Claude == [provider |-> "claude", vendor |-> Unknown, prefix |-> Unknown]
OmpGpt == [provider |-> "omp", vendor |-> "openai", prefix |-> Unknown]
OmpClaude == [provider |-> "omp", vendor |-> "anthropic", prefix |-> Unknown]

\* The dual audit that two orchestrators may be at together.
FirstRound == {<<"research", 0>>}

Configs == {[launch |-> <<>>, prefs |-> <<Claude, OmpGpt>>],
            [launch |-> <<Claude, OmpClaude>>, prefs |-> <<Claude, OmpGpt>>],
            [launch |-> <<Claude>>, prefs |-> <<>>]}
===============================================================================

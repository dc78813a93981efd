------------------------------ MODULE VerdictPath ------------------------------
(***************************************************************************)
(* verdict-path: which file the judgement of a round is written to.  A     *)
(* path is its parts, <phase>[-<seq>]-<attempt>.json.  Directory entries   *)
(* and the findings file are what the code parses out of their names: the  *)
(* artifact they belong to and a number, which is no sequence number when  *)
(* it is below FIRST_SEQ (or not a number, NoSeq).                         *)
(***************************************************************************)
EXTENDS Phases, FiniteSetsExt

FirstSeq == 1
NoSeq == 0

\* Phases with a gate: all but finalize.
VerifiedPhases == AllPhases \ {"finalize"}

\* SEQUENCED_PHASE_ARTIFACT: phases a task may pass more than once.
SequencedPhases == {"pr_fix", "rebase_fix"}

ParseSeq(n) == IF n >= FirstSeq THEN n ELSE NoSeq

\* The numeric maximum of the <prefix><n>.md in the run dir, NoSeq if none.
MaxArtifactSeq(entries, phase) ==
  Max({NoSeq} \cup {ParseSeq(e.n) : e \in {x \in entries : x.artifact = phase}})

\* Mutant: one chain of fallbacks for both phases.
SharedSeqOf(phase, findings, entries) ==
  IF ParseSeq(findings) # NoSeq THEN ParseSeq(findings)
  ELSE IF MaxArtifactSeq(entries, phase) # NoSeq THEN MaxArtifactSeq(entries, phase)
  ELSE FirstSeq

\* Only pr_fix looks at the findings: a detour to rebase_fix leaves the fix ask,
\* and so the findings of another cycle, where they are.
SeqOf(phase, findings, entries) ==
  IF phase = "pr_fix" /\ ParseSeq(findings) # NoSeq THEN ParseSeq(findings)
  ELSE IF MaxArtifactSeq(entries, phase) # NoSeq THEN MaxArtifactSeq(entries, phase)
  ELSE FirstSeq

\* deriveVerdictPath.
VerdictPathOf(phase, attempt, findings, entries) ==
  [phase   |-> phase,
   seq     |-> IF phase \in SequencedPhases THEN SeqOf(phase, findings, entries)
               ELSE NoSeq,
   attempt |-> attempt]
===============================================================================

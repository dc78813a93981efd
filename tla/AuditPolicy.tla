------------------------------ MODULE AuditPolicy ------------------------------
(***************************************************************************)
(* How strong a gate has to be and what its outcome is worth: the pure     *)
(* parts of task-policy.ts, shell-check-manifest.ts and dual-verifier.ts.  *)
(***************************************************************************)
EXTENDS Phases, FiniteSets

TaskClasses == {"trivial", "standard", "high"}
AuditModes == {"shell", "single", "dual"}
Undeclared == "undeclared"   \* no audit_mode, or one with an unknown value

ClassAuditFloor == [trivial |-> "shell", standard |-> "single", high |-> "dual"]
AuditModeStrength == [shell |-> 0, single |-> 1, dual |-> 2]
ShellAuditable(phase) == phase = "implement"

\* deriveTaskClass: with both risk: high and gate: light the careful one counts.
TaskClassOf(high, light) ==
  IF high THEN "high" ELSE IF light THEN "trivial" ELSE "standard"

Stronger(m, n) == IF AuditModeStrength[m] > AuditModeStrength[n] THEN m ELSE n

\* Mutant: a declaration replaces the floor of the class.
DeclaredAuditMode(class, declared, phase) ==
  LET mode == IF declared = Undeclared THEN ClassAuditFloor[class] ELSE declared
  IN  IF mode = "shell" /\ ~ShellAuditable(phase) THEN "single" ELSE mode

\* A declaration can only raise the floor, and a phase of prose is never left to
\* the shell.
ResolveAuditMode(class, declared, phase) ==
  LET floor == ClassAuditFloor[class]
      mode == IF declared = Undeclared THEN floor ELSE Stronger(declared, floor)
  IN  IF mode = "shell" /\ ~ShellAuditable(phase) THEN "single" ELSE mode

-----------------------------------------------------------------------------
(* The shell check.  A pattern list is the set of paths it matches. *)

CheckOutcomes == {"passed", "failed", "timeout", "spawn-failed"}

\* evaluateScope: a path must be allowed by every list.
Violations(paths, allowLists) == {p \in paths : \E l \in allowLists : p \notin l}

\* Mutant: a check that could not be started is a failed one.
OptimisticVerdict(infraError, outcomes, violations) ==
  IF infraError THEN "UNAVAILABLE"
  ELSE IF "failed" \in outcomes \/ "timeout" \in outcomes \/ violations # {} THEN "FAIL"
  ELSE "PASS"

\* What did not run is neither a pass nor a fault of the executor.
ClassifyVerdict(infraError, outcomes, violations) ==
  IF infraError \/ "spawn-failed" \in outcomes THEN "UNAVAILABLE"
  ELSE IF "failed" \in outcomes \/ "timeout" \in outcomes \/ violations # {} THEN "FAIL"
  ELSE "PASS"

-----------------------------------------------------------------------------
(* The two verifiers of a dual audit.  A spec is its provider, the vendor in *)
(* front of the / of its model, and the vendor a known prefix of it tells.   *)

Unknown == "unknown"

ProviderFamilies == [claude |-> "anthropic", gemini |-> "google", codex |-> "openai"]

ModelFamilyOf(spec) ==
  IF spec.vendor # Unknown THEN spec.vendor
  ELSE IF spec.provider \in DOMAIN ProviderFamilies THEN ProviderFamilies[spec.provider]
  ELSE spec.prefix

\* A configured value is a sequence of specs; absent is the empty sequence, a
\* malformed one has an entry without a provider.
Malformed(specs) == \E i \in DOMAIN specs : specs[i].provider = ""

\* The launch arguments decide, even wrongly, before the preferences do.
ChosenSpecs(launch, prefs) == IF launch # <<>> THEN launch ELSE prefs

\* resolveAuditSlots: two providers of two families known to differ, or none;
\* a dual audit is never lowered to a single verifier.
DualSlotsValid(specs) ==
  /\ Len(specs) = 2
  /\ ~Malformed(specs)
  /\ specs[1].provider # specs[2].provider
  /\ \A i \in 1 .. 2 : ModelFamilyOf(specs[i]) # Unknown
  /\ ModelFamilyOf(specs[1]) # ModelFamilyOf(specs[2])
===============================================================================

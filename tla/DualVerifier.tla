----------------------------- MODULE DualVerifier -----------------------------
(***************************************************************************)
(* The files of one round of a dual audit, those beside its canonical      *)
(* verdict path: the manifest <stem>.slots.json and the verdict file of    *)
(* each slot; and what the verbs slots, next-slot, record-slot and         *)
(* synthesize of dual-verifier.ts make of them.                            *)
(*                                                                         *)
(* A snapshot digests the artifacts and the working tree; here it is a     *)
(* number, the version of the tree.                                        *)
(***************************************************************************)
EXTENDS Integers, Sequences, AuditPolicy

Slots == {"a", "b"}
NoSnapshot == -1

\* The manifest: baseline, the recorded snapshots and the families of the slots.
NoManifest == [baseline |-> NoSnapshot, snapshot |-> [s \in Slots |-> NoSnapshot],
               family |-> [s \in Slots |-> Unknown]]

\* A verdict file: phase and verdict as the verifier wrote them ("malformed" if
\* parseSlotVerdict finds neither PASS nor FAIL), and what nobody records, the
\* version of the tree the verifier looked at.
NoDoc == [verdict |-> "none", phase |-> "none", on |-> NoSnapshot]

NoFiles == [manifest |-> NoManifest, doc |-> [s \in Slots |-> NoDoc]]

\* slots: a new manifest for the round; the verdict files stay where they are.
NewManifest(specs, snapshot) ==
  [baseline |-> snapshot, snapshot |-> [s \in Slots |-> NoSnapshot],
   family |-> [a |-> ModelFamilyOf(specs[1]), b |-> ModelFamilyOf(specs[2])]]

SlotDone(f, s) == f.doc[s] # NoDoc /\ f.manifest.snapshot[s] # NoSnapshot

\* next-slot: the first that is not done, "ready" if both are.
NextSlot(f) ==
  IF ~SlotDone(f, "a") THEN "a" ELSE IF ~SlotDone(f, "b") THEN "b" ELSE "ready"

\* record-slot fails (exit 15) if there is no file; it asks for no more than that.
Recordable(f, s) == f.doc[s] # NoDoc

\* It writes back the manifest it has read, with the snapshot of the slot.
Recorded(manifest, s, snapshot) == [manifest EXCEPT !.snapshot[s] = snapshot]

MissingSlots(f)    == {s \in Slots : f.doc[s] = NoDoc}
MalformedSlots(f)  == {s \in Slots : f.doc[s].verdict = "malformed"}
UnrecordedSlots(f) == {s \in Slots : f.manifest.snapshot[s] = NoSnapshot}
PhasesDiffer(f)    == f.doc["a"].phase # f.doc["b"].phase

\* The slots an incomplete synthesis names, by the first reason that applies.
IncompleteSlots(f) ==
  IF MissingSlots(f) # {} THEN MissingSlots(f)
  ELSE IF MalformedSlots(f) # {} THEN MalformedSlots(f)
  ELSE IF UnrecordedSlots(f) # {} THEN UnrecordedSlots(f)
  ELSE IF PhasesDiffer(f) THEN Slots
  ELSE {}

Drifted(f) == \E s \in Slots : f.manifest.snapshot[s] # f.manifest.baseline

\* Mutant: a round whose tree moved is not discarded.
DriftingSynthesis(f) ==
  IF IncompleteSlots(f) # {} THEN "incomplete"
  ELSE IF \A s \in Slots : f.doc[s].verdict = "PASS" THEN "PASS"
  ELSE "FAIL"

\* synthesize: PASS only if both pass on the same snapshot.
Synthesis(f) ==
  IF IncompleteSlots(f) # {} THEN "incomplete"
  ELSE IF Drifted(f) THEN "discarded"
  ELSE IF \A s \in Slots : f.doc[s].verdict = "PASS" THEN "PASS"
  ELSE "FAIL"
===============================================================================

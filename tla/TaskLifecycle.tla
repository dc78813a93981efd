---------------------------- MODULE TaskLifecycle ----------------------------
(***************************************************************************)
(* The life of a task as the user, the tracker and the other sessions see  *)
(* it: its derived status, the session that owns it, and the consent of    *)
(* the tracker (an entry of relisted) that alone brings a task back.       *)
(***************************************************************************)
CONSTANTS Ids, Sessions, None

VARIABLES status, owner, consent

vars == <<status, owner, consent>>

Init ==
  /\ status = [id \in Ids |-> "absent"]
  /\ owner = [id \in Ids |-> None]
  /\ consent = {}

\* A task changes its status, and its owner with it.
Move(id, from, to, s) ==
  /\ status[id] = from
  /\ status' = [status EXCEPT ![id] = to]
  /\ owner' = [owner EXCEPT ![id] = s]

\* The tracker approves a new task.
Approve(id) == Move(id, "absent", "approved", None) /\ UNCHANGED consent

\* A session works on the task: afresh, or on what its review asks for.
Start(id, s) ==
  /\ \/ Move(id, "approved", "in_progress", s)
     \/ Move(id, "in_review", "in_progress", s)
  /\ UNCHANGED consent

\* Another session takes the work over.
TakeOver(id, s) == Move(id, "in_progress", "in_progress", s) /\ UNCHANGED consent

\* The work is shared for review and either watched on or left to anyone.
Deliver(id) ==
  /\ \E s \in {owner[id], None} : Move(id, "in_progress", "in_review", s)
  /\ UNCHANGED consent

\* A session begins, or nobody continues, to watch a task in review.
Watch(id, s) == Move(id, "in_review", "in_review", s) /\ UNCHANGED consent

Block(id) == Move(id, "in_progress", "blocked", None) /\ UNCHANGED consent

\* The merge is proved.
Finish(id) == Move(id, "in_review", "done", None) /\ UNCHANGED consent

\* The task leaves: dropped while worked on, withdrawn in review, or done.
Leave(id) ==
  /\ \E from \in {"in_progress", "in_review", "done"} : Move(id, from, "absent", None)
  /\ UNCHANGED consent

\* A task comes back to be worked on from the start, once per consent.
Return(id) ==
  /\ id \in consent
  /\ \E from \in {"blocked", "in_review"} : Move(id, from, "approved", None)
  /\ consent' = consent \ {id}

\* The tracker gives or takes back its consent.
Consent(id) ==
  /\ consent' \in {consent \cup {id}, consent \ {id}}
  /\ UNCHANGED <<status, owner>>

Next == \E id \in Ids :
  \/ Approve(id)
  \/ \E s \in Sessions : Start(id, s)
  \/ \E s \in Sessions : TakeOver(id, s)
  \/ Deliver(id)
  \/ \E s \in Sessions \cup {None} : Watch(id, s)
  \/ Block(id)
  \/ Finish(id)
  \/ Leave(id)
  \/ Return(id)
  \/ Consent(id)

Spec == Init /\ [][Next]_vars
=============================================================================

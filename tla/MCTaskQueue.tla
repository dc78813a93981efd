----------------------------- MODULE MCTaskQueue -----------------------------
(* Instances of TaskQueueHistory for TLC: one task, since no verb reads the  *)
(* item of another one, with every other constant as small as keeps each     *)
(* case.  Nothing tells one comment from another.                            *)
EXTENDS TaskQueueHistory, TLC

CommentSymmetry == Permutations(Comments)
=============================================================================

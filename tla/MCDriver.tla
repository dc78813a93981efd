------------------------------ MODULE MCDriver -------------------------------
(* Instances of Driver for TLC: one task, since a takeover and a sweep touch *)
(* the worktree, the agents and the workspaces of one task at a time.  The   *)
(* slots of Driver processes are interchangeable.                            *)
EXTENDS Driver, TLC

DriverSymmetry == Permutations(Drivers)
=============================================================================

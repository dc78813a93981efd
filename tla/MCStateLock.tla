---------------------------- MODULE MCStateLock ----------------------------
(* StateLock for TLC: the processes are interchangeable in the safety runs. *)
EXTENDS StateLock, TLC

ProcSymmetry == Permutations(Procs)
=============================================================================

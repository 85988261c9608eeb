---------------------------- MODULE MCTaskQueue ----------------------------
(* TaskQueue for TLC. *)
EXTENDS TaskQueue, TLC

\* Workers carry no identity of their own.
Interchangeable == Permutations(Workers)
=============================================================================

---------------------------- MODULE MCPublishing ----------------------------
(* Publishing for TLC. *)
EXTENDS Publishing, TLC

\* Publications and workers carry no identity of their own.
Interchangeable == Permutations(Pubs) \cup Permutations(Workers)
=============================================================================

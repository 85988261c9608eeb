----------------------------- MODULE MCIdentity -----------------------------
(* Identity for TLC. *)
EXTENDS Identity, TLC

\* Callers and accounts carry no identity of their own.
Interchangeable == Permutations(Callers) \cup Permutations(Accounts)
=============================================================================

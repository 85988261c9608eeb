----------------------------- MODULE MCTaxonomy -----------------------------
(* Taxonomy for TLC. *)
EXTENDS Taxonomy

\* Publishers and movers carry no identity of their own, and the four kinds of row
\* obey one rule.
Interchangeable == Permutations(Publishers) \cup Permutations(Movers) \cup Permutations(Kinds)
=============================================================================

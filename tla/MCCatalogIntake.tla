--------------------------- MODULE MCCatalogIntake ---------------------------
(* CatalogIntake for TLC. *)
EXTENDS CatalogIntake, TLC

CONSTANTS n1, n2

\* Two stock presets, seeded in one transaction.
TwoPresets == <<n1, n2>>

Scope(u, p, r, v, i, t) ==
    [uploads |-> u, puts |-> p, revisions |-> r, versions |-> v, images |-> i, templates |-> t]

\* Racing uploads; photos of a product; a repeated PUT under a photo; racing
\* templates; a template while the spec changes; a photo next to a template.
SixScopes == {Scope(2, 2, 0, 0, 0, 0), Scope(1, 1, 1, 1, 2, 0), Scope(1, 2, 0, 1, 1, 0),
              Scope(1, 1, 0, 0, 0, 2), Scope(1, 1, 1, 0, 0, 1), Scope(1, 1, 0, 1, 1, 1)}

\* Callers carry no identity of their own.
Interchangeable == Permutations(Callers)
=============================================================================

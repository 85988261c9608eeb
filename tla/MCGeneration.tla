---------------------------- MODULE MCGeneration ----------------------------
(* Generation for TLC. *)
EXTENDS Generation, TLC

\* Slots, workers of one kind and reviewers carry no identity of their own.
Interchangeable ==
    Permutations(Slots) \cup Permutations(RenderWorkers) \cup Permutations(QcWorkers)
        \cup Permutations(Reviewers)
=============================================================================

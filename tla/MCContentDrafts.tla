-------------------------- MODULE MCContentDrafts --------------------------
(* ContentDrafts for TLC. *)
EXTENDS ContentDrafts, TLC
=============================================================================

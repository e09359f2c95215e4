------------------------------ MODULE MCDrafts ------------------------------
(***************************************************************************)
(* A TLC instance of Drafts alone, for the PostgreSQL store.               *)
(***************************************************************************)
EXTENDS Drafts, TLC

Interchangeable == Permutations(Pages)

=============================================================================

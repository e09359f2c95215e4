---------------------------- MODULE MCApprovals ----------------------------
(***************************************************************************)
(* TLC instances of Approvals: one protected deployment, its requester and *)
(* two users that join, vote and change while it waits.                    *)
(***************************************************************************)
EXTENDS Approvals, TLC

\* Those who join are interchangeable.
Interchangeable == Permutations(Users \ (Owners \union Approvers))

=============================================================================

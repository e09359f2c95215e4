--------------------------- MODULE MemberDirectory ---------------------------
(***************************************************************************)
(* What the control plane promises of an organization's members, as the    *)
(* in-memory repository keeps them: every call of it is one step that      *)
(* counts the owners and writes the member's row.                          *)
(*                                                                         *)
(* Who may call only restricts these steps and is left to the detailed     *)
(* specification.                                                          *)
(***************************************************************************)
EXTENDS Naturals

CONSTANTS Users, GrantedRoles

VARIABLES role, active, version

ActiveOwners == { u \in Users : active[u] /\ role[u] = "owner" }

\* createOrganization: whoever creates it owns it.
Init ==
  /\ ActiveOwners # {}
  /\ \A u \in Users : active[u] => role[u] # "none"
  /\ version = [ u \in Users |-> 1 ]

\* assertNotFinalOwner, of a member that is about to lose the role.
NotFinalOwner(u) == role[u] = "owner" => ActiveOwners # { u }

Add(u, to) ==
  /\ role[u] = "none"
  /\ role'   = [ role EXCEPT ![u] = to ]
  /\ active' = [ active EXCEPT ![u] = TRUE ]
  /\ UNCHANGED version

AssignRole(u, to) ==
  /\ role[u] # "none"
  /\ to # "owner" => NotFinalOwner(u)
  /\ role'    = [ role EXCEPT ![u] = to ]
  /\ version' = [ version EXCEPT ![u] = @ + 1 ]
  /\ UNCHANGED active

Remove(u) ==
  /\ active[u]
  /\ NotFinalOwner(u)
  /\ active'  = [ active EXCEPT ![u] = FALSE ]
  /\ version' = [ version EXCEPT ![u] = @ + 1 ]
  /\ UNCHANGED role

Next ==
  \E u \in Users :
    \/ Remove(u)
    \/ \E to \in GrantedRoles : Add(u, to) \/ AssignRole(u, to)

Spec == Init /\ [][Next]_<< role, active, version >>

=============================================================================

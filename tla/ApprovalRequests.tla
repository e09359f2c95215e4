-------------------------- MODULE ApprovalRequests --------------------------
(***************************************************************************)
(* What the control plane promises of approval requests, as the in-memory  *)
(* MemoryApprovalStore keeps them: every call of it is one step, so votes  *)
(* are counted one by one, a request moves along TRANSITIONS only, and the *)
(* action behind it runs once, after an approval or an override.           *)
(*                                                                         *)
(* Policies, clocks and memberships only restrict these steps: whether     *)
(* they are respected is stated of the detailed specification.             *)
(***************************************************************************)
EXTENDS Naturals, FiniteSets

CONSTANTS
  Requests,
  Voters,          \* all members but the requester: separation of duties
  RequiredCount    \* approvals that a request needs

VARIABLES
  item,       \* the requests
  executed    \* those whose action has run

\* execution is one step: "executing" is left in the transaction that enters it
TRANSITIONS ==
  [ absent      |-> { "pending" },
    pending     |-> { "approved", "rejected", "expired", "cancelled", "invalidated", "overridden" },
    approved    |-> { "consumed", "invalidated", "expired" },
    overridden  |-> { "consumed", "invalidated", "expired" },
    rejected    |-> {}, expired |-> {}, cancelled |-> {}, invalidated |-> {}, consumed |-> {} ]

Init ==
  /\ item = [ a \in Requests |-> [ state |-> "absent", approvals |-> {}, override |-> "none" ] ]
  /\ executed = {}

\* transition: to another state, as far as TRANSITIONS allows it.
Becomes(a, to, new) ==
  /\ to \in TRANSITIONS[item[a].state]
  /\ item' = [ item EXCEPT ![a] = [ new EXCEPT !.state = to ] ]

Request(a) == Becomes(a, "pending", item[a]) /\ UNCHANGED executed

\* decide: a vote of somebody who has not voted yet, and the quorum with it.
Approve(a, u) ==
  LET voted == [ item[a] EXCEPT !.approvals = @ \union { u } ]
  IN /\ item[a].state = "pending"
     /\ u \notin item[a].approvals
     /\ IF Cardinality(voted.approvals) >= RequiredCount
        THEN Becomes(a, "approved", voted)
        ELSE item' = [ item EXCEPT ![a] = voted ]
     /\ UNCHANGED executed

Override(a) ==
  /\ Becomes(a, "overridden", [ item[a] EXCEPT !.override = "given" ])
  /\ UNCHANGED executed

\* decide with "reject", cancel, invalidate and _expire.
Close(a) ==
  /\ \E to \in { "rejected", "cancelled", "invalidated", "expired" } : Becomes(a, to, item[a])
  /\ UNCHANGED executed

\* beginExecution and finishExecution, with the action between them.
Execute(a) ==
  /\ Becomes(a, "consumed", item[a])
  /\ executed' = executed \union { a }

Calls(a) ==
  \/ Request(a) \/ Override(a) \/ Close(a) \/ Execute(a)
  \/ \E u \in Voters : Approve(a, u)

Next == \E a \in Requests : item[a] # item'[a] /\ Calls(a)

Spec == Init /\ [][Next]_<< item, executed >>

=============================================================================

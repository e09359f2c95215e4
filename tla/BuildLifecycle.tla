--------------------------- MODULE BuildLifecycle ---------------------------
(***************************************************************************)
(* What the control plane promises of a build, whatever fails: it starts   *)
(* only while the organization has a free build slot, it can be delivered  *)
(* only once it is complete, and a delivered one never starts again.       *)
(***************************************************************************)
EXTENDS Integers, FiniteSets

CONSTANTS
  Builds,   \* the deployments that build
  Slots     \* how many may build at once

VARIABLE phase

Phases == { "idle", "building", "built", "delivered" }

Building == { b \in Builds : phase[b] = "building" }

Init == phase = [ b \in Builds |-> "idle" ]

Move(b, from, to) ==
  /\ phase[b] \in from
  /\ phase' = [ phase EXCEPT ![b] = to ]

Start(b) == Cardinality(Building) < Slots /\ Move(b, { "idle" }, "building")

Complete(b) == Move(b, { "building" }, "built")

Abandon(b) == Move(b, { "building", "built" }, "idle")

Deliver(b) == Move(b, { "built" }, "delivered")

Next == \E b \in Builds : Start(b) \/ Complete(b) \/ Abandon(b) \/ Deliver(b)

Spec == Init /\ [][Next]_phase

=============================================================================

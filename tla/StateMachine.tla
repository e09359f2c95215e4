---------------------------- MODULE StateMachine ----------------------------
(***************************************************************************)
(* The deployment state machine of deployments/state-machine.js: the       *)
(* states, the ones that close an operation, and the transitions that      *)
(* assertTransition lets through.  The store applies it to every           *)
(* transition it commits, except the update that queues a rollback.        *)
(***************************************************************************)

STATES == { "waiting_for_approval", "queued", "validating", "testing",
            "scanning", "building", "build_complete", "pushing", "deploying",
            "verifying", "ready", "failed", "cancel_requested", "cancelled",
            "rollback_queued", "rolling_back", "rolled_back" }

\* Mutants of TERMINAL: one closing state forgotten.
TERMINALButCancelled == { "build_complete", "ready", "failed", "rolled_back" }
TERMINALButFailed    == { "build_complete", "ready", "cancelled", "rolled_back" }

TERMINAL == { "build_complete", "ready", "failed", "cancelled", "rolled_back" }

\* Most working states can also be cancelled or fail.
Interruptible(next) == next \union { "cancel_requested", "failed" }

ALLOWED(from) ==
  CASE from = "waiting_for_approval" -> { "queued", "cancelled", "failed" }
    [] from = "queued"           -> Interruptible({ "validating", "rollback_queued" })
    [] from = "validating"       -> Interruptible({ "testing" })
    [] from = "testing"          -> Interruptible({ "scanning" })
    [] from = "scanning"         -> Interruptible({ "building" })
    [] from = "building"         -> Interruptible({ "build_complete" })
    [] from = "build_complete"   -> { "pushing", "rollback_queued" }
    [] from = "pushing"          -> Interruptible({ "deploying" })
    [] from = "deploying"        -> Interruptible({ "verifying" })
    [] from = "verifying"        -> Interruptible({ "ready", "rolled_back" })
    [] from = "ready"            -> { "rollback_queued" }
    [] from = "failed"           -> { "queued", "rollback_queued" }
    [] from = "cancel_requested" -> { "cancelled", "failed" }
    [] from = "rollback_queued"  -> Interruptible({ "rolling_back" })
    [] from = "rolling_back"     -> Interruptible({ "verifying" })
    [] OTHER                     -> {}

CanTransition(from, to) == to \in STATES /\ to \in ALLOWED(from)

=============================================================================

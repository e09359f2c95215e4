---------------------------- MODULE UsageLedger ----------------------------
(***************************************************************************)
(* The usage of one meter of one organization (PostgresUsageLedger):       *)
(* deployments that are counted in the transaction that creates them,      *)
(* adjustments linked to a recorded event, totals over periods and their   *)
(* reconciliation with what another source says.                           *)
(***************************************************************************)
EXTENDS Integers, FiniteSets, FiniteSetsExt

CONSTANTS
  Sources,         \* deployments, and the idempotency keys of their usage
  Corrections,     \* idempotency keys of adjustments
  LedgerClients,   \* concurrent transactions
  Quantities,      \* quantities of adjustments
  MaxLedgerTime    \* bound: the clock

ASSUME LedgerAssumption ==
  /\ Quantities \subseteq Nat /\ MaxLedgerTime \in Nat /\ IsFiniteSet(Sources)
  /\ "none" \notin Sources \union Corrections

VARIABLES
  ledgerNow,         \* the clock
  usage,             \* rows of usage_events
  created,           \* the deployments that exist
  reconciliations,   \* rows of usage_reconciliations
  ledgerTx           \* what each client's transaction does and has inserted

ledgerVars == << ledgerNow, usage, created, reconciliations, ledgerTx >>

IdleLedger == [ step |-> "idle", expected |-> 0, recorded |-> 0, rows |-> {} ]

LedgerInit ==
  /\ ledgerNow = 0 /\ usage = {} /\ created = {} /\ reconciliations = {}
  /\ ledgerTx = [ c \in LedgerClients |-> IdleLedger ]

\* The insert conflicts with a key that is there, and waits for a transaction
\* that inserts the same one.
LedgerKeys(rows) == { r.key : r \in rows }
\* Mutant: two transactions insert one key.
InsertAnyway(c, key) == TRUE

InsertFree(c, key) == \A b \in LedgerClients \ { c } : key \notin LedgerKeys(ledgerTx[b].rows)

Inserted(key, quantity, of) ==
  IF key \in LedgerKeys(usage) THEN {}
  ELSE { [ key |-> key, quantity |-> quantity, at |-> ledgerNow, of |-> of ] }

\* A creation counts its deployment before it commits. A request that is
\* repeated while the first one is open finds the deployment afterwards.
RecordCreation(c, d) ==
  /\ ledgerTx[c].step = "idle" /\ InsertFree(c, d) /\ d \notin created
  /\ ledgerTx' = [ ledgerTx EXCEPT ![c].step = "create", ![c].rows = Inserted(d, 1, "none") ]
  /\ UNCHANGED << ledgerNow, usage, created, reconciliations >>

\* adjust: a further event that refers to a recorded one.
Adjust(c, original, key, quantity) ==
  /\ ledgerTx[c].step = "idle" /\ original \in LedgerKeys(usage) /\ InsertFree(c, key)
  /\ ledgerTx' = [ ledgerTx EXCEPT ![c].step = "adjust", ![c].rows = Inserted(key, quantity, original) ]
  /\ UNCHANGED << ledgerNow, usage, created, reconciliations >>

CommitUsage(c) ==
  /\ ledgerTx[c].step \in { "create", "adjust" }
  /\ usage' = usage \union ledgerTx[c].rows
  /\ created' = IF ledgerTx[c].step = "create" THEN created \union LedgerKeys(ledgerTx[c].rows) ELSE created
  /\ ledgerTx' = [ ledgerTx EXCEPT ![c] = IdleLedger ]
  /\ UNCHANGED << ledgerNow, reconciliations >>

RollbackUsage(c) ==
  /\ ledgerTx[c].step # "idle"
  /\ ledgerTx' = [ ledgerTx EXCEPT ![c] = IdleLedger ]
  /\ UNCHANGED << ledgerNow, usage, created, reconciliations >>

\* aggregate: the events of a period [start, end).
InPeriod(r, start, end) == start <= r.at /\ r.at < end
Aggregate(start, end) ==
  MapThenSumSet(LAMBDA r : IF InPeriod(r, start, end) THEN r.quantity ELSE 0, usage)

\* reconcile reads the total and records the comparison in another statement.
ReadTotal(c, expected) ==
  /\ ledgerTx[c].step = "idle"
  /\ ledgerTx' = [ ledgerTx EXCEPT ![c].step = "reconcile", ![c].expected = expected,
                                   ![c].recorded = Aggregate(0, MaxLedgerTime + 1) ]
  /\ UNCHANGED << ledgerNow, usage, created, reconciliations >>

Reconcile(c) ==
  /\ ledgerTx[c].step = "reconcile"
  /\ reconciliations' = reconciliations \union
       { [ expected |-> ledgerTx[c].expected, recorded |-> ledgerTx[c].recorded,
           matched |-> ledgerTx[c].expected = ledgerTx[c].recorded ] }
  /\ ledgerTx' = [ ledgerTx EXCEPT ![c] = IdleLedger ]
  /\ UNCHANGED << ledgerNow, usage, created >>

LedgerTick ==
  /\ ledgerNow < MaxLedgerTime /\ ledgerNow' = ledgerNow + 1
  /\ UNCHANGED << usage, created, reconciliations, ledgerTx >>

LedgerNext ==
  \/ \E c \in LedgerClients :
       \/ \E d \in Sources : RecordCreation(c, d)
       \/ \E r \in usage, key \in Corrections, q \in Quantities : Adjust(c, r.key, key, q)
       \/ CommitUsage(c) \/ RollbackUsage(c)
       \/ \E expected \in 0 .. 1 : ReadTotal(c, expected)
       \/ Reconcile(c)
  \/ LedgerTick

LedgerSpec == LedgerInit /\ [][LedgerNext]_ledgerVars

-----------------------------------------------------------------------------
LedgerTypeOK ==
  /\ ledgerNow \in 0 .. MaxLedgerTime /\ created \subseteq Sources
  /\ usage \subseteq [ key : Sources \union Corrections, quantity : Nat, at : 0 .. ledgerNow,
                       of : Sources \union Corrections \union { "none" } ]
  /\ \A r \in reconciliations : r.recorded \in Nat

\* Repeated and concurrent requests, and transactions that die, never make a
\* deployment count twice or not at all, and an adjustment counts once and
\* refers to an event that is there (append, adjust, create).
CountedOnce ==
  /\ created = { r.key : r \in { x \in usage : x.of = "none" } }
  /\ \A r, s \in usage : r.key = s.key => r = s
  /\ \A r \in usage : r.of # "none" => r.of \in LedgerKeys(usage)

=============================================================================

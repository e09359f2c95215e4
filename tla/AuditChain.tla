----------------------------- MODULE AuditChain -----------------------------
(***************************************************************************)
(* The enterprise audit of one organization in PostgreSQL: a hash chain    *)
(* that concurrent transactions extend, and what is kept beside it.        *)
(*                                                                         *)
(* A transaction appends one or several events, among statements of its    *)
(* caller. The first append locks the row of the chain's head until the    *)
(* transaction ends; what the transaction wrote is seen by others when it  *)
(* commits, and is gone when its process dies or a later statement throws. *)
(***************************************************************************)
EXTENDS Integers, Sequences, FiniteSets

CONSTANTS
  AuditWriters,     \* concurrent transactions
  AuditKeys,        \* idempotency keys of the events that callers append
  KeyVersions,      \* active key versions of the running processes
  MaxRetention,     \* bound: changes of the retention policy
  MaxAppends        \* bound: appends in one transaction

ASSUME AuditAssumption ==
  MaxRetention \in Nat /\ MaxAppends \in Nat /\ KeyVersions # {}

VARIABLES
  auditEvents,   \* rows of enterprise_audit_events
  auditHead,     \* the row of audit_chain_heads
  auditOutbox,   \* sequences of the events with a row in audit_outbox
  auditExport,   \* one row of audit_exports
  exportExpired, \* its download_expires_at has passed
  retention,     \* audit_retention_policies.version
  auditTx        \* what each transaction does, and wrote

auditVars ==
  << auditEvents, auditHead, auditOutbox, auditExport, exportExpired, retention, auditTx >>

\* An injective hash: all that went into it.
ZERO == << >>
AuditHash(previous, key, version) == Append(previous, << key, version >>)

\* The idempotency keys of the events.
EventKey(k)      == << "event", k >>
ExportKey        == << "export:completed" >>
DownloadKey      == << "export:downloaded" >>
RetentionKey(v)  == << "retention", v >>

NoHead == [ exists |-> FALSE, sequence |-> 0, hash |-> ZERO ]
IdleTx == [ phase |-> "idle", kind |-> "append", key |-> ZERO, holds |-> FALSE,
            head |-> NoHead, events |-> {}, outbox |-> {}, appends |-> 0 ]

AuditInit ==
  /\ auditEvents = {} /\ auditHead = NoHead /\ auditOutbox = {}
  /\ auditExport = "none" /\ exportExpired = FALSE /\ retention = 0
  /\ auditTx = [ w \in AuditWriters |-> IdleTx ]

OthersOf(w) == AuditWriters \ { w }

-----------------------------------------------------------------------------
\* Callers. Each opens its transaction, or goes on in it, and appends.

StartAppend(w, kind, key) ==
  auditTx' = [ auditTx EXCEPT ![w].phase = "insert_head", ![w].kind = kind, ![w].key = key,
                              ![w].appends = @ + 1 ]

\* audit and every caller of appendInTransaction.
RecordEvent(w, k) ==
  /\ \/ auditTx[w].phase = "idle"
     \/ auditTx[w].phase = "open" /\ auditTx[w].kind = "append"
  /\ auditTx[w].appends < MaxAppends
  /\ StartAppend(w, "append", EventKey(k))
  /\ UNCHANGED << auditEvents, auditHead, auditOutbox, auditExport, exportExpired, retention >>

\* A lock that lasts as long as the transaction: the advisory lock of an
\* export's key, the row of an export, the row of the retention policy.
Unlocked(w, kind) == \A x \in OthersOf(w) : auditTx[x].phase = "idle" \/ auditTx[x].kind # kind

\* requestExport: a key that was used returns its export.
RequestExport(w) ==
  /\ auditTx[w].phase = "idle" /\ Unlocked(w, "export")
  /\ auditExport = "none"
  /\ StartAppend(w, "export", ExportKey)
  /\ UNCHANGED << auditEvents, auditHead, auditOutbox, auditExport, exportExpired, retention >>

\* download: the select waits for a concurrent one and looks again.
Download(w) ==
  /\ auditTx[w].phase = "idle" /\ Unlocked(w, "download")
  /\ auditExport = "completed" /\ ~exportExpired
  /\ StartAppend(w, "download", DownloadKey)
  /\ UNCHANGED << auditEvents, auditHead, auditOutbox, auditExport, exportExpired, retention >>

\* setRetention: the upsert locks the policy and draws its next version.
SetRetention(w) ==
  /\ auditTx[w].phase = "idle" /\ Unlocked(w, "retention")
  /\ retention < MaxRetention
  /\ StartAppend(w, "retention", RetentionKey(retention + 1))
  /\ UNCHANGED << auditEvents, auditHead, auditOutbox, auditExport, exportExpired, retention >>

ExpireGrant ==
  /\ auditExport = "completed" /\ ~exportExpired
  /\ exportExpired' = TRUE
  /\ UNCHANGED << auditEvents, auditHead, auditOutbox, auditExport, retention, auditTx >>

-----------------------------------------------------------------------------
\* appendInTransaction, statement by statement up to the lock.

HeadFree(w) == \A x \in OthersOf(w) : ~auditTx[x].holds

\* The first row of an organization: a second inserter waits for the first.
InsertHead(w) ==
  /\ auditTx[w].phase = "insert_head"
  /\ IF auditHead.exists \/ auditTx[w].holds
     THEN auditTx' = [ auditTx EXCEPT ![w].phase = "lock_head" ]
     ELSE /\ HeadFree(w)
          /\ auditTx' = [ auditTx EXCEPT ![w].phase = "lock_head", ![w].holds = TRUE,
                                         ![w].head = [ NoHead EXCEPT !.exists = TRUE ] ]
  /\ UNCHANGED << auditEvents, auditHead, auditOutbox, auditExport, exportExpired, retention >>

\* SELECT ... FOR UPDATE: waits, and then reads the row as it is.
LockHead(w) ==
  /\ auditTx[w].phase = "lock_head" /\ HeadFree(w)
  /\ auditTx' = [ auditTx EXCEPT ![w].phase = "write_event", ![w].holds = TRUE,
                    ![w].head = IF auditTx[w].holds THEN @ ELSE auditHead ]
  /\ UNCHANGED << auditEvents, auditHead, auditOutbox, auditExport, exportExpired, retention >>

\* The event that tx appends under the active key of its process.
NewEvent(tx, version) ==
  [ sequence |-> tx.head.sequence + 1, key |-> tx.key, previous |-> tx.head.hash,
    version |-> version, hash |-> AuditHash(tx.head.hash, tx.key, version) ]

\* Mutants: the head moves on, or the event is written, for a key that is there.
AppendedHeadMoves(tx, version) ==
  LET e == NewEvent(tx, version)
  IN  [ tx EXCEPT !.phase = "open",
                  !.events = @ \union (IF \E x \in auditEvents \union tx.events : x.key = tx.key
                                       THEN {} ELSE { e }),
                  !.head = [ exists |-> TRUE, sequence |-> e.sequence, hash |-> e.hash ],
                  !.outbox = @ \union { e.sequence } ]
AppendedAgain(tx, version) ==
  LET e == NewEvent(tx, version)
  IN  [ tx EXCEPT !.phase = "open", !.events = @ \union { e },
                  !.head = [ exists |-> TRUE, sequence |-> e.sequence, hash |-> e.hash ],
                  !.outbox = @ \union { e.sequence } ]

\* The transaction after its insert: a key that is there changes nothing,
\* else the head follows the event and the outbox gets its row.
Appended(tx, version) ==
  LET e == NewEvent(tx, version)
  IN  IF \E x \in auditEvents \union tx.events : x.key = tx.key
      THEN [ tx EXCEPT !.phase = "open" ]
      ELSE [ tx EXCEPT !.phase = "open", !.events = @ \union { e },
                       !.head = [ exists |-> TRUE, sequence |-> e.sequence, hash |-> e.hash ],
                       !.outbox = @ \union { e.sequence } ]

WriteEvent(w) ==
  /\ auditTx[w].phase = "write_event"
  /\ \E version \in KeyVersions : auditTx' = [ auditTx EXCEPT ![w] = Appended(@, version) ]
  /\ UNCHANGED << auditEvents, auditHead, auditOutbox, auditExport, exportExpired, retention >>

CommitAudit(w) ==
  LET tx == auditTx[w]
  IN  /\ tx.phase = "open"
      /\ auditEvents' = auditEvents \union tx.events
      /\ auditHead'   = tx.head
      /\ auditOutbox' = auditOutbox \union tx.outbox
      /\ auditExport' = CASE tx.kind = "export"   -> "completed"
                          [] tx.kind = "download" -> "downloaded"
                          [] OTHER                -> auditExport
      /\ retention'   = IF tx.kind = "retention" THEN retention + 1 ELSE retention
      /\ auditTx'     = [ auditTx EXCEPT ![w] = IdleTx ]
      /\ UNCHANGED exportExpired

\* Mutant: the export is not part of the transaction.
RollbackAuditKeepsExport(w) ==
  /\ auditTx[w].phase # "idle"
  /\ auditExport' = IF auditTx[w].kind = "export" THEN "completed" ELSE auditExport
  /\ auditTx' = [ auditTx EXCEPT ![w] = IdleTx ]
  /\ UNCHANGED << auditEvents, auditHead, auditOutbox, exportExpired, retention >>

\* The process dies, or a later statement of the caller throws.
RollbackAudit(w) ==
  /\ auditTx[w].phase # "idle"
  /\ auditTx' = [ auditTx EXCEPT ![w] = IdleTx ]
  /\ UNCHANGED << auditEvents, auditHead, auditOutbox, auditExport, exportExpired, retention >>

AuditNext ==
  \/ \E w \in AuditWriters :
       \/ \E k \in AuditKeys : RecordEvent(w, k)
       \/ RequestExport(w) \/ Download(w) \/ SetRetention(w)
       \/ InsertHead(w) \/ LockHead(w) \/ WriteEvent(w)
       \/ CommitAudit(w) \/ RollbackAudit(w)
  \/ ExpireGrant

AuditSpec == AuditInit /\ [][AuditNext]_auditVars

-----------------------------------------------------------------------------
(***************************************************************************)
(* verify: what the service concludes about the events from a sequence up  *)
(* to another one, or to the end and then about the head too (to = 0).     *)
(***************************************************************************)
VerifiedRows(from, to) ==
  { e \in auditEvents : e.sequence >= from /\ (to = 0 \/ e.sequence <= to) }

Continues(e, rows, from) ==
  IF \E p \in rows : p.sequence < e.sequence
  THEN \E p \in rows : p.sequence = e.sequence - 1 /\ e.previous = p.hash
  ELSE IF from = 1 THEN e.previous = ZERO
       ELSE \E p \in auditEvents : p.sequence = from - 1 /\ e.previous = p.hash

MatchesHead(rows) ==
  auditHead.exists =>
    \E e \in rows : /\ e.sequence = auditHead.sequence /\ e.hash = auditHead.hash
                    /\ \A x \in rows : x.sequence <= e.sequence

Verify(from, to) ==
  LET rows == VerifiedRows(from, to)
  IN  /\ \A e \in rows : /\ Continues(e, rows, from)
                         /\ e.hash = AuditHash(e.previous, e.key, e.version)
      /\ to = 0 => MatchesHead(rows)

-----------------------------------------------------------------------------
\* The values of the rows, and of what the transactions hold.
AuditTypeOK ==
  /\ \A e \in auditEvents : e.sequence \in Nat \ { 0 } /\ e.version \in KeyVersions
  /\ auditHead.exists \in BOOLEAN /\ auditHead.sequence \in Nat
  /\ auditOutbox \subseteq Nat
  /\ auditExport \in { "none", "completed", "downloaded" } /\ exportExpired \in BOOLEAN
  /\ retention \in 0 .. MaxRetention
  /\ \A w \in AuditWriters :
       /\ auditTx[w].phase \in { "idle", "insert_head", "lock_head", "write_event", "open" }
       /\ auditTx[w].kind \in { "append", "export", "download", "retention" }
       /\ auditTx[w].holds \in BOOLEAN
       /\ auditTx[w].appends \in 0 .. MaxAppends + 1

\* Whatever transactions interleave, repeat a key or die, the service finds no
\* fault in the rows it wrote: from any sequence there is, up to any or to the
\* head (verify over what appendInTransaction leaves).
AuditVerifies ==
  \A from \in 1 .. auditHead.sequence : \A to \in { 0 } \union from .. auditHead.sequence :
    Verify(from, to)

\* What changed and the event that says so become durable together: a
\* completed or downloaded export, every version of the retention policy and
\* every event with its outbox row (requestExport, download, setRetention).
EffectsAudited ==
  LET keys == { e.key : e \in auditEvents }
  IN  /\ (auditExport # "none") = (ExportKey \in keys)
      /\ (auditExport = "downloaded") = (DownloadKey \in keys)
      /\ \A v \in 1 .. MaxRetention : (v <= retention) = (RetentionKey(v) \in keys)
      /\ auditOutbox = { e.sequence : e \in auditEvents }

\* The chain as the sequence of its keys, and the promise that it keeps: events
\* are only added, at the end, and no key is recorded twice.
ChainLog == [ i \in 1 .. Cardinality(auditEvents) |->
                (CHOOSE e \in auditEvents : e.sequence = i).key ]
Log == INSTANCE AuditLog WITH log <- ChainLog
ImplementsAuditLog == Log!LogSpec

=============================================================================

------------------------------ MODULE AuditLog ------------------------------
(***************************************************************************)
(* What the audit service promises, as its in-memory twin keeps it: the    *)
(* events of an organization are a sequence that only grows, and an        *)
(* idempotency key appears in it once.                                     *)
(***************************************************************************)
EXTENDS Sequences, Naturals

VARIABLE log   \* MemoryAuditService.events of the organization, as keys

LogInit == log = << >>

\* Several appends become visible together when one transaction makes them.
LogNext ==
  /\ Len(log') > Len(log)
  /\ SubSeq(log', 1, Len(log)) = log
  /\ \A i, j \in DOMAIN log' : log'[i] = log'[j] => i = j

LogSpec == LogInit /\ [][LogNext]_log

=============================================================================

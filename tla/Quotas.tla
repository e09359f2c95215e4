------------------------------- MODULE Quotas -------------------------------
(***************************************************************************)
(* The quota of one kind of resource of one organization: its limit and    *)
(* the reservations against it (PostgresQuotaManager).                     *)
(*                                                                         *)
(* A transaction takes its NOW() when it begins and may then wait for the  *)
(* quota's advisory lock, which it keeps until it commits: what it does    *)
(* under the lock is one step, with a clock that may be slow.              *)
(***************************************************************************)
EXTENDS Integers, FiniteSets, FiniteSetsExt

CONSTANTS
  Operations,       \* owners of reservations; the idempotency key of each
  Admissions,       \* those that admit a deployment, and consume at once
  QuotaClients,     \* concurrent transactions
  PlanLimits,       \* limits that plans and overrides may give
  Ttl,              \* lifetime of an active reservation
  MaxQuotaTime      \* bound: the database clock

ASSUME QuotaAssumption ==
  /\ IsFiniteSet(Operations) /\ Operations # {} /\ Admissions \subseteq Operations
  /\ PlanLimits \subseteq Nat /\ PlanLimits # {}
  /\ Ttl \in Nat \ { 0 } /\ MaxQuotaTime \in Nat

VARIABLES
  quotaNow,       \* the database clock
  planLimit,      \* what the effective plan allows
  quotaLimit,     \* quota_limits.limit_value
  reservation,    \* the quota_reservations row of each operation, if any
  quotaTx         \* what each client does, under which clock and plan

quotaVars == << quotaNow, planLimit, quotaLimit, reservation, quotaTx >>

NoReservation == [ status |-> "none", expires |-> 0 ]
IdleQuota == [ step |-> "idle", op |-> CHOOSE o \in Operations : TRUE, now |-> 0, plan |-> 0 ]

QuotaInit ==
  /\ quotaNow = 0 /\ planLimit \in PlanLimits /\ quotaLimit = planLimit
  /\ reservation = [ o \in Operations |-> NoReservation ]
  /\ quotaTx = [ c \in QuotaClients |-> IdleQuota ]

\* _used: consumed reservations and active ones that have not expired.
Counts(r, now) == \/ r.status = "consumed"
                  \/ r.status = "active" /\ r.expires > now
Used(rows, now) == Cardinality({ o \in Operations : Counts(rows[o], now) })

\* The reservations that are past their time are closed first.
Expired(rows, now) ==
  [ o \in Operations |-> IF rows[o].status = "active" /\ rows[o].expires <= now
                         THEN [ rows[o] EXCEPT !.status = "expired" ] ELSE rows[o] ]

-----------------------------------------------------------------------------
\* A transaction begins: its clock stands still, and an admission has read
\* the plan (entitlements.effective) before it asks for the lock.
BeginQuota(c, step, o) ==
  /\ quotaTx[c].step = "idle"
  /\ quotaTx' = [ quotaTx EXCEPT ![c] =
                    [ step |-> step, op |-> o, now |-> quotaNow, plan |-> planLimit ] ]
  /\ UNCHANGED << quotaNow, planLimit, quotaLimit, reservation >>

EndQuota(c) == quotaTx' = [ quotaTx EXCEPT ![c] = IdleQuota ]

\* Mutant: the limit follows the plan whatever is used.
SetLimitUnchecked(c) ==
  /\ quotaTx[c].step = "limit" /\ EndQuota(c)
  /\ quotaLimit' = quotaTx[c].plan
  /\ UNCHANGED << quotaNow, planLimit, reservation >>

\* setLimit refuses a limit below what is used.
SetLimit(c) ==
  LET tx == quotaTx[c]
  IN  /\ tx.step = "limit" /\ EndQuota(c)
      /\ quotaLimit' = IF Used(reservation, tx.now) > tx.plan THEN quotaLimit ELSE tx.plan
      /\ UNCHANGED << quotaNow, planLimit, reservation >>

\* reserveInTransaction: the rows after a reservation under a limit. A key
\* that was used keeps its row, whatever became of it.
Reserved(rows, o, now, limit) ==
  LET open == Expired(rows, now)
  IN  IF open[o].status = "none" /\ Used(open, now) + 1 <= limit
      THEN [ open EXCEPT ![o] = [ status |-> "active", expires |-> now + Ttl ] ]
      ELSE open

Refused(rows, o, now, limit) ==
  rows[o].status = "none" /\ Used(Expired(rows, now), now) + 1 > limit

Reserve(c) ==
  LET tx == quotaTx[c]
  IN  /\ tx.step = "reserve" /\ EndQuota(c)
      /\ reservation' = IF Refused(reservation, tx.op, tx.now, quotaLimit) THEN reservation
                        ELSE Reserved(reservation, tx.op, tx.now, quotaLimit)
      /\ UNCHANGED << quotaNow, planLimit, quotaLimit >>

\* _transition: the reservation that this caller may consume or give back.
Consumed(rows, o, now) ==
  IF rows[o].status = "active" /\ rows[o].expires > now
  THEN [ rows EXCEPT ![o].status = "consumed" ] ELSE rows

Released(rows, o, now) ==
  IF Counts(rows[o], now)
  THEN [ rows EXCEPT ![o].status = "released" ] ELSE rows

\* Admission of a deployment: setLimit, reserveInTransaction and consume in
\* the transaction that queues it; an exception of either undoes all of it.
Admit(c) ==
  LET tx == quotaTx[c]
  IN  /\ tx.step = "admit" /\ EndQuota(c)
      /\ IF \/ Used(reservation, tx.now) > tx.plan
            \/ Refused(reservation, tx.op, tx.now, tx.plan)
         THEN UNCHANGED << quotaLimit, reservation >>
         ELSE /\ quotaLimit' = tx.plan
              /\ reservation' =
                   Consumed(Reserved(reservation, tx.op, tx.now, tx.plan), tx.op, tx.now)
      /\ UNCHANGED << quotaNow, planLimit >>

Release(c) ==
  LET tx == quotaTx[c]
  IN  /\ tx.step = "release" /\ EndQuota(c)
      /\ reservation' = Released(reservation, tx.op, tx.now)
      /\ UNCHANGED << quotaNow, planLimit, quotaLimit >>

AbortQuota(c) == /\ quotaTx[c].step # "idle" /\ EndQuota(c)
            /\ UNCHANGED << quotaNow, planLimit, quotaLimit, reservation >>

-----------------------------------------------------------------------------
\* Without the lock: a deployment that ends gives its slot back, expire
\* closes what is past its time, and plans change.

EndDeployment(o) ==
  /\ reservation[o].status \in { "active", "consumed" }
  /\ reservation' = [ reservation EXCEPT ![o].status = "released" ]
  /\ UNCHANGED << quotaNow, planLimit, quotaLimit, quotaTx >>

Expire ==
  /\ Expired(reservation, quotaNow) # reservation
  /\ reservation' = Expired(reservation, quotaNow)
  /\ UNCHANGED << quotaNow, planLimit, quotaLimit, quotaTx >>

ChangePlan ==
  /\ \E limit \in PlanLimits \ { planLimit } : planLimit' = limit
  /\ UNCHANGED << quotaNow, quotaLimit, reservation, quotaTx >>

QuotaTick ==
  /\ quotaNow < MaxQuotaTime /\ quotaNow' = quotaNow + 1
  /\ UNCHANGED << planLimit, quotaLimit, reservation, quotaTx >>

QuotaNext ==
  \/ \E c \in QuotaClients :
       \/ BeginQuota(c, "limit", IdleQuota.op)
       \/ \E o \in Operations \ Admissions : BeginQuota(c, "reserve", o) \/ BeginQuota(c, "release", o)
       \/ \E o \in Admissions : BeginQuota(c, "admit", o)
       \/ SetLimit(c) \/ Reserve(c) \/ Admit(c) \/ Release(c) \/ AbortQuota(c)
  \/ \E o \in Admissions : EndDeployment(o)
  \/ Expire \/ ChangePlan \/ QuotaTick

QuotaSpec == QuotaInit /\ [][QuotaNext]_quotaVars

-----------------------------------------------------------------------------
QuotaTypeOK ==
  /\ quotaNow \in 0 .. MaxQuotaTime /\ planLimit \in PlanLimits /\ quotaLimit \in PlanLimits
  /\ reservation \in [ Operations -> [ status : { "none", "active", "consumed", "released", "expired" },
                                       expires : Nat ] ]
  /\ quotaTx \in [ QuotaClients -> [ step : { "idle", "limit", "reserve", "admit", "release" },
                                     op : Operations, now : Nat, plan : Nat ] ]

\* Slow clocks, expiry, changes of the plan and ends of deployments that no
\* lock orders notwithstanding, what counts against the quota is within the
\* limit in force (setLimit, reserveInTransaction, _event).
WithinLimit == Used(reservation, quotaNow) <= quotaLimit

\* A reservation that was released or expired never counts again, so a slow
\* transaction cannot take back what another one was given (_transition).
NeverTakenBack ==
  [][ \A o \in Operations :
        /\ reservation[o].status \in { "released", "expired" }
             => reservation'[o].status = reservation[o].status
        /\ ~Counts(reservation[o], quotaNow) /\ reservation[o].status # "none"
             => ~Counts(reservation'[o], quotaNow') ]_quotaVars

=============================================================================

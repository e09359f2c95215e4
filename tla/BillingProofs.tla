---------------------------- MODULE BillingProofs ----------------------------
(***************************************************************************)
(* What an organization pays for: quotas, usage and plans.                 *)
(*                                                                         *)
(* Quotas: a transaction's clock is never ahead of the clock, and less     *)
(* counts as time passes, so what it counts is no less than what counts.   *)
(***************************************************************************)
EXTENDS Quotas, UsageLedger, Subscriptions, FiniteSetTheorems, WellFoundedInduction, TLAPS

-----------------------------------------------------------------------------
(***************************************************************************)
(* Quotas.                                                                 *)
(***************************************************************************)
ReservationRow == [ status : { "none", "active", "consumed", "released", "expired" }, expires : Nat ]
Reservations == [ Operations -> ReservationRow ]

\* What a transaction knows: its clock, and an operation of its kind. Only an
\* admission consumes, and it does so at once.
TxSound(tx) ==
  /\ tx.now <= quotaNow
  /\ tx.step \in { "limit", "admit" } => tx.plan \in PlanLimits
  /\ tx.step = "admit" => tx.op \in Admissions
  /\ tx.step \in { "reserve", "release" } => tx.op \notin Admissions

QuotaInv ==
  /\ QuotaTypeOK /\ WithinLimit
  /\ \A c \in QuotaClients : TxSound(quotaTx[c])
  /\ \A o \in Admissions : reservation[o].status # "active"

LEMMA UsedIsNat ==
  ASSUME NEW rows, NEW t
  PROVE  Used(rows, t) \in Nat
<1>1. IsFiniteSet({ o \in Operations : Counts(rows[o], t) })
  BY QuotaAssumption, FS_Subset
<1> QED
  BY <1>1, FS_CardinalityType DEF Used

LEMMA UsedShrinks ==
  ASSUME NEW rows, NEW t, NEW rows2, NEW t2,
         \A o \in Operations : Counts(rows2[o], t2) => Counts(rows[o], t)
  PROVE  Used(rows2, t2) <= Used(rows, t)
<1> DEFINE S == { o \in Operations : Counts(rows[o], t) }
           T == { o \in Operations : Counts(rows2[o], t2) }
<1>1. IsFiniteSet(S) /\ T \in SUBSET S
  BY QuotaAssumption, FS_Subset
<1> QED
  BY <1>1, FS_Subset DEF Used

LEMMA UsedGrowsByOne ==
  ASSUME NEW rows, NEW t, NEW rows2, NEW t2, NEW p,
         \A o \in Operations \ { p } : Counts(rows2[o], t2) => Counts(rows[o], t)
  PROVE  Used(rows2, t2) <= Used(rows, t) + 1
<1> DEFINE S == { o \in Operations : Counts(rows[o], t) }
           T == { o \in Operations : Counts(rows2[o], t2) }
<1>1. IsFiniteSet(S) /\ T \in SUBSET (S \cup { p })
  BY QuotaAssumption, FS_Subset
<1>2. /\ IsFiniteSet(S \cup { p })
      /\ Cardinality(S \cup { p }) = IF p \in S THEN Cardinality(S) ELSE Cardinality(S) + 1
  BY <1>1, FS_AddElement
<1>3. Cardinality(T) <= Cardinality(S \cup { p }) /\ IsFiniteSet(T)
  BY <1>1, <1>2, FS_Subset
<1>4. Cardinality(S) \in Nat /\ Cardinality(T) \in Nat /\ Cardinality(S \cup { p }) \in Nat
  BY <1>1, <1>2, <1>3, FS_CardinalityType
<1>5. Cardinality(T) <= Cardinality(S) + 1
  <2> HIDE DEF S, T
  <2> QED BY <1>2, <1>3, <1>4
<1> QED
  BY <1>5 DEF Used

\* Less counts as time passes.
LEMMA LessCountsLater ==
  ASSUME NEW row \in ReservationRow, NEW t \in Nat, NEW t2 \in Nat, t <= t2, Counts(row, t2)
  PROVE  Counts(row, t)
BY DEF Counts, ReservationRow

\* What closing the expired rows does to each of them.
LEMMA ExpiredRows ==
  ASSUME NEW rows \in Reservations, NEW t \in Nat
  PROVE  /\ Expired(rows, t) \in Reservations
         /\ \A o \in Operations :
              /\ Expired(rows, t)[o] # rows[o]
                   => rows[o].status = "active" /\ Expired(rows, t)[o].status = "expired"
              /\ \A t2 : Counts(Expired(rows, t)[o], t2) => Counts(rows[o], t2)
<1>1. ASSUME NEW o \in Operations
      PROVE  [ rows[o] EXCEPT !.status = "expired" ] \in ReservationRow
  <2>1. rows[o] \in ReservationRow
    BY DEF Reservations
  <2> QED BY <2>1 DEF ReservationRow
<1>2. Expired(rows, t) \in Reservations
  BY <1>1 DEF Expired, Reservations
<1>3. ASSUME NEW o \in Operations
      PROVE  /\ Expired(rows, t)[o] # rows[o]
                   => rows[o].status = "active" /\ Expired(rows, t)[o].status = "expired"
             /\ \A t2 : Counts(Expired(rows, t)[o], t2) => Counts(rows[o], t2)
  <2>1. rows[o] \in ReservationRow
    BY DEF Reservations
  <2>2. Expired(rows, t)[o] = IF rows[o].status = "active" /\ rows[o].expires <= t
                         THEN [ rows[o] EXCEPT !.status = "expired" ] ELSE rows[o]
    BY DEF Expired
  <2>3. [ rows[o] EXCEPT !.status = "expired" ].status = "expired"
    BY <2>1 DEF ReservationRow
  <2> QED
    BY <2>2, <2>3 DEF Counts
<1> QED
  BY <1>2, <1>3

\* A reservation that is made takes one more, within the limit; a key that was
\* used keeps its row.
LEMMA ReservedRows ==
  ASSUME NEW rows \in Reservations, NEW t \in Nat, NEW o \in Operations, NEW limit \in Nat,
         ~Refused(rows, o, t, limit)
  PROVE  /\ Reserved(rows, o, t, limit) \in Reservations
         /\ \A p \in Operations \ { o } : Reserved(rows, o, t, limit)[p] = Expired(rows, t)[p]
         /\ rows[o].status # "none" => Reserved(rows, o, t, limit) = Expired(rows, t)
         /\ rows[o].status = "none" =>
              /\ Reserved(rows, o, t, limit)[o].status = "active"
              /\ Reserved(rows, o, t, limit)[o].expires > t
              /\ Used(Reserved(rows, o, t, limit), t) <= limit
<1> DEFINE open == Expired(rows, t)
           new  == [ status |-> "active", expires |-> t + Ttl ]
           next == Reserved(rows, o, t, limit)
<1>1. open \in Reservations
  BY ExpiredRows
<1>2. open[o].status = "none" <=> rows[o].status = "none"
  <2>1. open[o] # rows[o] => rows[o].status = "active" /\ open[o].status = "expired"
    BY ExpiredRows
  <2> HIDE DEF open
  <2> QED BY <2>1
<1>3. new \in ReservationRow /\ new.expires > t /\ new.status = "active"
  BY QuotaAssumption DEF ReservationRow
<1>4. CASE rows[o].status # "none"
  <2>1. next = open
    BY <1>2, <1>4 DEF Reserved
  <2> QED BY <2>1, <1>1, <1>4
<1>5. CASE rows[o].status = "none"
  <2>1. Used(open, t) + 1 <= limit
    <3>1. ~(Used(open, t) + 1 > limit)
      BY <1>5 DEF Refused
    <3>2. Used(open, t) \in Nat
      BY UsedIsNat
    <3> HIDE DEF open
    <3> QED BY <3>1, <3>2
  <2>2. next = [ open EXCEPT ![o] = new ]
    BY <1>2, <1>5, <2>1 DEF Reserved
  <2> HIDE DEF open, new, next
  <2>3. next \in Reservations /\ next[o] = new /\ \A p \in Operations \ { o } : next[p] = open[p]
    BY <2>2, <1>1, <1>3 DEF Reservations
  <2>4. Used(next, t) <= Used(open, t) + 1
    BY <2>3, UsedGrowsByOne
  <2>5. Used(next, t) \in Nat /\ Used(open, t) \in Nat
    BY UsedIsNat
  <2>6. Used(next, t) <= limit
    BY <2>1, <2>4, <2>5
  <2> USE DEF open, next
  <2> QED BY <2>3, <2>6, <1>3, <1>5
<1> QED
  BY <1>4, <1>5

\* A change of status keeps the type, and the other rows.
Rewritten(rows, o, status) == [ rows EXCEPT ![o].status = status ]

LEMMA RowsRewritten ==
  ASSUME NEW rows \in Reservations, NEW o \in Operations, NEW status \in { "consumed", "released" }
  PROVE  /\ Rewritten(rows, o, status) \in Reservations
         /\ \A p \in Operations \ { o } : Rewritten(rows, o, status)[p] = rows[p]
         /\ Rewritten(rows, o, status)[o].status = status
         /\ Rewritten(rows, o, status)[o].expires = rows[o].expires
<1>1. PICK row \in ReservationRow : row = rows[o]
  BY DEF Reservations
<1>2. /\ [ row EXCEPT !.status = status ] \in ReservationRow
      /\ [ row EXCEPT !.status = status ].status = status
      /\ [ row EXCEPT !.status = status ].expires = row.expires
  BY DEF ReservationRow
<1>3. PICK new \in ReservationRow : new = [ row EXCEPT !.status = status ]
  BY <1>2
<1>4. Rewritten(rows, o, status) = [ rows EXCEPT ![o] = new ]
  BY <1>1, <1>3 DEF Reservations, Rewritten
<1> QED
  BY <1>1, <1>2, <1>3, <1>4 DEF Reservations

\* The rows after an admission: its key is consumed or as it was.
Admitted(rows, o, t, limit) == Consumed(Reserved(rows, o, t, limit), o, t)

LEMMA AdmittedRows ==
  ASSUME NEW rows \in Reservations, NEW t \in Nat, NEW o \in Operations, NEW limit \in Nat,
         ~Refused(rows, o, t, limit), rows[o].status # "active", Used(rows, t) <= limit
  PROVE  /\ Admitted(rows, o, t, limit) \in Reservations
         /\ \A p \in Operations \ { o } : Admitted(rows, o, t, limit)[p] = Expired(rows, t)[p]
         /\ rows[o].status # "none" => Admitted(rows, o, t, limit) = Expired(rows, t)
         /\ rows[o].status = "none" => Admitted(rows, o, t, limit)[o].status = "consumed"
         /\ Used(Admitted(rows, o, t, limit), t) <= limit
<1> DEFINE mid  == Reserved(rows, o, t, limit)
           next == Consumed(mid, o, t)
           open == Expired(rows, t)
<1>1. /\ mid \in Reservations
      /\ \A p \in Operations \ { o } : mid[p] = open[p]
      /\ rows[o].status # "none" => mid = open
      /\ rows[o].status = "none" =>
           mid[o].status = "active" /\ mid[o].expires > t /\ Used(mid, t) <= limit
  BY ReservedRows
<1>2. /\ open \in Reservations
      /\ \A p \in Operations : Counts(open[p], t) => Counts(rows[p], t)
      /\ open[o].status # rows[o].status => rows[o].status = "active"
  BY ExpiredRows
<1>3. next = IF mid[o].status = "active" /\ mid[o].expires > t
             THEN Rewritten(mid, o, "consumed") ELSE mid
  BY DEF Consumed, Rewritten
<1> HIDE DEF mid, open, next
<1>4. CASE rows[o].status # "none"
  <2>1. next = open
    BY <1>1, <1>2, <1>3, <1>4
  <2>2. Used(open, t) <= Used(rows, t)
    BY <1>2, UsedShrinks
  <2>3. Used(open, t) <= limit
    BY <2>2, UsedIsNat
  <2> USE DEF next, mid, open
  <2> QED BY <2>1, <2>3, <1>2, <1>4 DEF Admitted
<1>5. CASE rows[o].status = "none"
  <2>1. next = Rewritten(mid, o, "consumed")
    BY <1>1, <1>3, <1>5
  <2>2. /\ next \in Reservations /\ next[o].status = "consumed"
        /\ \A p \in Operations \ { o } : next[p] = mid[p]
    <3>1. mid \in Reservations
      BY <1>1
    <3>2. /\ Rewritten(mid, o, "consumed") \in Reservations
          /\ Rewritten(mid, o, "consumed")[o].status = "consumed"
          /\ \A p \in Operations \ { o } : Rewritten(mid, o, "consumed")[p] = mid[p]
      BY <3>1, RowsRewritten
    <3> QED BY <2>1, <3>2
  <2>3. \A p \in Operations : Counts(next[p], t) => Counts(mid[p], t)
    BY <2>2, <1>1, <1>5 DEF Counts
  <2>4. Used(next, t) <= Used(mid, t)
    BY <2>3, UsedShrinks
  <2>5. Used(next, t) <= limit
    BY <2>4, <1>1, <1>5, UsedIsNat
  <2>6. \A p \in Operations \ { o } : next[p] = open[p]
    BY <2>2, <1>1
  <2> USE DEF next, mid, open
  <2> QED BY <2>2, <2>5, <2>6, <1>5 DEF Admitted
<1> QED
  BY <1>4, <1>5

\* Releasing and closing take nothing.
LEMMA ReleasedRows ==
  ASSUME NEW rows \in Reservations, NEW t \in Nat, NEW o \in Operations
  PROVE  /\ Released(rows, o, t) \in Reservations
         /\ \A p \in Operations \ { o } : Released(rows, o, t)[p] = rows[p]
         /\ Released(rows, o, t)[o] # rows[o] =>
              Counts(rows[o], t) /\ Released(rows, o, t)[o].status = "released"
<1>1. Released(rows, o, t) = IF Counts(rows[o], t) THEN Rewritten(rows, o, "released") ELSE rows
  BY DEF Released, Rewritten
<1> QED
  BY <1>1, RowsRewritten

LEMMA QuotaTypes ==
  ASSUME QuotaTypeOK
  PROVE  /\ quotaNow \in Nat /\ quotaLimit \in Nat /\ planLimit \in Nat
         /\ quotaLimit \in PlanLimits /\ planLimit \in PlanLimits
         /\ reservation \in Reservations
         /\ \A c \in QuotaClients :
              quotaTx[c].now \in Nat /\ quotaTx[c].op \in Operations /\ quotaTx[c].plan \in Nat
BY QuotaAssumption DEF QuotaTypeOK, Reservations, ReservationRow

LEMMA QuotaBegins == QuotaInit => QuotaInv
<1> SUFFICES ASSUME QuotaInit PROVE QuotaInv
  OBVIOUS
<1>1. quotaNow = 0 /\ quotaLimit = planLimit /\ planLimit \in PlanLimits /\ planLimit \in Nat
  BY QuotaAssumption DEF QuotaInit
<1>2. IdleQuota.op \in Operations /\ IdleQuota.now = 0 /\ IdleQuota.step = "idle" /\ IdleQuota.plan = 0
  BY QuotaAssumption DEF IdleQuota
<1>3. /\ reservation \in Reservations
      /\ \A o \in Operations : reservation[o].status = "none"
  BY DEF QuotaInit, NoReservation, Reservations, ReservationRow
<1>4. \A c \in QuotaClients : quotaTx[c] = IdleQuota
  BY DEF QuotaInit
<1>5. quotaTx \in [ QuotaClients -> [ step : { "idle", "limit", "reserve", "admit", "release" },
                                     op : Operations, now : Nat, plan : Nat ] ]
  BY <1>2 DEF QuotaInit, IdleQuota
<1>6. QuotaTypeOK
  BY <1>1, <1>3, <1>5, QuotaAssumption DEF QuotaTypeOK, Reservations, ReservationRow
<1>7. WithinLimit
  <2>1. { o \in Operations : Counts(reservation[o], quotaNow) } = {}
    BY <1>3 DEF Counts
  <2>2. Used(reservation, quotaNow) = 0
    BY <2>1, FS_EmptySet DEF Used
  <2> QED BY <2>2, <1>1 DEF WithinLimit
<1> QED
  BY <1>1, <1>2, <1>3, <1>4, <1>6, <1>7, QuotaAssumption DEF QuotaInv, TxSound

\* A row never counts again once it does not, and an ended one keeps its end:
\* what every step does to the rows.
Forward(o) ==
  /\ reservation[o].status \in { "released", "expired" } => reservation'[o].status = reservation[o].status
  /\ ~Counts(reservation[o], quotaNow) /\ reservation[o].status # "none"
       => ~Counts(reservation'[o], quotaNow')

LEMMA RowKept ==
  ASSUME QuotaInv, quotaNow' \in Nat, quotaNow <= quotaNow', NEW o \in Operations,
         reservation'[o] = reservation[o]
  PROVE  Forward(o)
<1>1. reservation[o] \in ReservationRow /\ quotaNow \in Nat
  BY QuotaTypes DEF QuotaInv, Reservations
<1>2. Counts(reservation[o], quotaNow') => Counts(reservation[o], quotaNow)
  BY <1>1, LessCountsLater
<1> QED
  BY <1>2 DEF Forward

LEMMA RowClosed ==
  ASSUME QuotaInv, NEW o \in Operations, NEW t \in Nat, quotaNow' = quotaNow,
         reservation'[o] = Expired(reservation, t)[o]
  PROVE  Forward(o)
<1>1. reservation \in Reservations /\ quotaNow \in Nat
  BY QuotaTypes DEF QuotaInv
<1>2. /\ Expired(reservation, t)[o] # reservation[o]
           => reservation[o].status = "active" /\ Expired(reservation, t)[o].status = "expired"
      /\ \A t2 : Counts(Expired(reservation, t)[o], t2) => Counts(reservation[o], t2)
  BY <1>1, ExpiredRows
<1> QED
  BY <1>2 DEF Forward

LEMMA RowEnded ==
  ASSUME NEW o \in Operations, reservation'[o].status = "released",
         reservation[o].status # "expired"
  PROVE  Forward(o)
BY DEF Forward, Counts

LEMMA RowOfAdmission ==
  ASSUME QuotaInv, NEW o \in Operations, reservation[o].status = "none"
  PROVE  Forward(o)
BY DEF Forward

\* What a step leaves within the limit.
LEMMA StillWithin ==
  ASSUME QuotaInv, quotaNow' \in Nat, quotaNow <= quotaNow', quotaLimit' = quotaLimit,
         \A o \in Operations : Counts(reservation'[o], quotaNow) => Counts(reservation[o], quotaNow),
         reservation' \in Reservations
  PROVE  WithinLimit'
<1>1. quotaNow \in Nat /\ quotaLimit \in Nat /\ Used(reservation, quotaNow) <= quotaLimit
  BY QuotaTypes DEF QuotaInv, WithinLimit
<1>2. \A o \in Operations : Counts(reservation'[o], quotaNow') => Counts(reservation[o], quotaNow)
  BY <1>1, LessCountsLater DEF Reservations
<1>3. Used(reservation', quotaNow') <= Used(reservation, quotaNow)
  BY <1>2, UsedShrinks
<1>4. Used(reservation', quotaNow') \in Nat /\ Used(reservation, quotaNow) \in Nat
  BY UsedIsNat
<1>5. Used(reservation', quotaNow') <= quotaLimit'
  BY <1>1, <1>3, <1>4
<1> QED
  BY <1>5 DEF WithinLimit

\* What was counted under a slow clock is within the limit now.
LEMMA WithinUnderSlowClock ==
  ASSUME QuotaInv, NEW t \in Nat, t <= quotaNow, quotaNow' = quotaNow, NEW rows \in Reservations,
         reservation' = rows, quotaLimit' \in Nat, Used(rows, t) <= quotaLimit'
  PROVE  WithinLimit'
<1>1. quotaNow \in Nat
  BY QuotaTypes DEF QuotaInv
<1>2. \A o \in Operations : Counts(rows[o], quotaNow) => Counts(rows[o], t)
  BY <1>1, LessCountsLater DEF Reservations
<1>3. Used(rows, quotaNow) <= Used(rows, t)
  BY <1>2, UsedShrinks
<1>4. Used(rows, quotaNow) \in Nat /\ Used(rows, t) \in Nat
  BY UsedIsNat
<1>5. Used(rows, quotaNow) <= quotaLimit'
  BY <1>3, <1>4
<1> QED
  BY <1>5 DEF WithinLimit

\* What transactions know, after one of them ends or the clock moves.
Transactions ==
  [ QuotaClients -> [ step : { "idle", "limit", "reserve", "admit", "release" },
                      op : Operations, now : Nat, plan : Nat ] ]

TxInv == quotaTx \in Transactions /\ \A c \in QuotaClients : TxSound(quotaTx[c])

LEMMA TxEnds ==
  ASSUME TxInv, quotaNow \in Nat, NEW c \in QuotaClients, EndQuota(c), quotaNow' = quotaNow
  PROVE  TxInv'
<1>1. /\ IdleQuota \in [ step : { "idle", "limit", "reserve", "admit", "release" },
                         op : Operations, now : Nat, plan : Nat ]
      /\ IdleQuota.now = 0 /\ IdleQuota.step = "idle"
  BY QuotaAssumption DEF IdleQuota
<1> HIDE DEF IdleQuota
<1>2. /\ quotaTx' \in Transactions
      /\ \A b \in QuotaClients : quotaTx'[b] = quotaTx[b] \/ quotaTx'[b] = IdleQuota
  BY <1>1 DEF TxInv, EndQuota, Transactions
<1>3. \A b \in QuotaClients : TxSound(quotaTx[b])'
  BY <1>1, <1>2 DEF TxInv, TxSound
<1> QED
  BY <1>2, <1>3 DEF TxInv

LEMMA TxBegins ==
  ASSUME TxInv, quotaNow \in Nat, planLimit \in Nat, planLimit \in PlanLimits,
         NEW c \in QuotaClients, NEW o \in Operations,
         NEW step \in { "limit", "reserve", "admit", "release" }, BeginQuota(c, step, o),
         step = "admit" => o \in Admissions,
         step \in { "reserve", "release" } => o \notin Admissions
  PROVE  TxInv'
<1>1. PICK tx \in [ step : { "idle", "limit", "reserve", "admit", "release" },
                   op : Operations, now : Nat, plan : Nat ] :
             tx = [ step |-> step, op |-> o, now |-> quotaNow, plan |-> planLimit ]
  OBVIOUS
<1>2. tx.now = quotaNow /\ tx.plan = planLimit /\ tx.step = step /\ tx.op = o
  BY <1>1
<1>3. /\ quotaTx' \in Transactions /\ quotaNow' = quotaNow
      /\ \A b \in QuotaClients : quotaTx'[b] = quotaTx[b] \/ quotaTx'[b] = tx
  BY <1>1 DEF BeginQuota, TxInv, Transactions
<1>4. \A b \in QuotaClients : TxSound(quotaTx[b])'
  BY <1>2, <1>3 DEF TxInv, TxSound
<1> QED
  BY <1>3, <1>4 DEF TxInv

LEMMA TxWaits ==
  ASSUME TxInv, quotaNow \in Nat, quotaTx' = quotaTx, quotaNow' \in Nat, quotaNow <= quotaNow'
  PROVE  TxInv'
<1>1. \A b \in QuotaClients : quotaTx[b].now \in Nat
  BY DEF TxInv, Transactions
<1>2. \A b \in QuotaClients : TxSound(quotaTx[b])'
  BY <1>1 DEF TxInv, TxSound
<1> QED
  BY <1>2 DEF TxInv

\* The parts of the invariant.
RowsInv == /\ reservation \in Reservations /\ WithinLimit
           /\ \A o \in Admissions : reservation[o].status # "active"

LEMMA QuotaParts ==
  QuotaInv <=> /\ TxInv /\ RowsInv
               /\ quotaNow \in 0 .. MaxQuotaTime /\ planLimit \in PlanLimits /\ quotaLimit \in PlanLimits
BY DEF QuotaInv, QuotaTypeOK, TxInv, RowsInv, Transactions, Reservations, ReservationRow

LEMMA QuotaPartsNext ==
  ASSUME TxInv', RowsInv', quotaNow' \in 0 .. MaxQuotaTime, planLimit' \in PlanLimits,
         quotaLimit' \in PlanLimits
  PROVE  QuotaInv'
BY DEF QuotaInv, QuotaTypeOK, TxInv, RowsInv, Transactions, Reservations, ReservationRow

\* Steps under the quota's lock.
LEMMA LimitStep ==
  ASSUME QuotaInv, NEW c \in QuotaClients, SetLimit(c)
  PROVE  RowsInv' /\ quotaLimit' \in PlanLimits /\ \A o \in Operations : Forward(o)
<1> DEFINE tx == quotaTx[c]
<1>1. /\ reservation' = reservation /\ quotaNow' = quotaNow
      /\ quotaLimit' = IF Used(reservation, tx.now) > tx.plan THEN quotaLimit ELSE tx.plan
  BY DEF SetLimit
<1>2. /\ quotaNow \in Nat /\ tx.now \in Nat /\ tx.plan \in Nat /\ tx.now <= quotaNow
      /\ reservation \in Reservations /\ quotaLimit \in Nat /\ tx.plan \in PlanLimits
  BY QuotaTypes DEF QuotaInv, TxSound, SetLimit
<1>3. WithinLimit'
  <2>1. CASE Used(reservation, tx.now) > tx.plan
    BY <1>1, <1>2, <2>1, StillWithin
  <2>2. CASE ~(Used(reservation, tx.now) > tx.plan)
    <3>1. Used(reservation, tx.now) <= tx.plan
      BY <1>2, <2>2, UsedIsNat
    <3> QED
      BY <1>1, <1>2, <2>2, <3>1, WithinUnderSlowClock
  <2> QED BY <2>1, <2>2
<1> QED
  BY <1>1, <1>2, <1>3, RowKept, QuotaParts DEF RowsInv

LEMMA ReserveStep ==
  ASSUME QuotaInv, NEW c \in QuotaClients, Reserve(c)
  PROVE  RowsInv' /\ \A o \in Operations : Forward(o)
<1> DEFINE tx == quotaTx[c]
           op == tx.op
           next == Reserved(reservation, op, tx.now, quotaLimit)
           open == Expired(reservation, tx.now)
<1>1. /\ quotaNow' = quotaNow /\ quotaLimit' = quotaLimit
      /\ reservation' = IF Refused(reservation, op, tx.now, quotaLimit) THEN reservation ELSE next
  BY DEF Reserve
<1>2. /\ quotaNow \in Nat /\ tx.now \in Nat /\ tx.now <= quotaNow
      /\ reservation \in Reservations /\ quotaLimit \in Nat /\ op \in Operations
      /\ op \notin Admissions /\ Admissions \subseteq Operations
  BY QuotaTypes, QuotaAssumption DEF QuotaInv, TxSound, Reserve
<1>3. CASE Refused(reservation, op, tx.now, quotaLimit)
  BY <1>1, <1>2, <1>3, RowKept, StillWithin, QuotaParts DEF RowsInv
<1>4. CASE ~Refused(reservation, op, tx.now, quotaLimit)
  <2>1. reservation' = next
    BY <1>1, <1>4
  <2>2. /\ next \in Reservations
        /\ \A p \in Operations \ { op } : next[p] = open[p]
        /\ reservation[op].status # "none" => next = open
        /\ reservation[op].status = "none" => Used(next, tx.now) <= quotaLimit
    BY <1>2, <1>4, ReservedRows
  <2>3. \A o \in Operations :
          /\ open[o] # reservation[o] => reservation[o].status = "active" /\ open[o].status = "expired"
          /\ \A t : Counts(open[o], t) => Counts(reservation[o], t)
    <3>1. reservation \in Reservations /\ tx.now \in Nat
      BY <1>2
    <3> HIDE DEF tx, op, next
    <3> QED BY <3>1, ExpiredRows
  <2> HIDE DEF next, open, op
  <2>4. WithinLimit'
    <3>1. CASE reservation[op].status = "none"
      BY <1>1, <1>2, <2>1, <2>2, <3>1, WithinUnderSlowClock
    <3>2. CASE reservation[op].status # "none"
      BY <1>1, <1>2, <2>1, <2>2, <2>3, <3>2, StillWithin
    <3> QED BY <3>1, <3>2
  <2>5. ASSUME NEW o \in Operations PROVE Forward(o)
    <3>1. CASE o = op /\ reservation[op].status = "none"
      BY <3>1, RowOfAdmission
    <3>2. CASE o # op \/ reservation[op].status # "none"
      <4>1. reservation'[o] = open[o]
        BY <2>1, <2>2, <3>2
      <4> QED BY <1>1, <1>2, <4>1, RowClosed DEF open
    <3> QED BY <3>1, <3>2
  <2>6. ASSUME NEW o \in Admissions PROVE reservation'[o].status # "active"
    <3>1. reservation[o].status # "active" /\ o \in Operations /\ o # op
      BY <1>2 DEF QuotaInv
    <3> QED BY <2>1, <2>2, <2>3, <3>1
  <2> QED
    BY <2>1, <2>2, <2>4, <2>5, <2>6 DEF RowsInv
<1> QED
  BY <1>3, <1>4

LEMMA AdmitStep ==
  ASSUME QuotaInv, NEW c \in QuotaClients, Admit(c)
  PROVE  RowsInv' /\ quotaLimit' \in PlanLimits /\ \A o \in Operations : Forward(o)
<1> DEFINE tx == quotaTx[c]
           op == tx.op
           next == Admitted(reservation, op, tx.now, tx.plan)
           open == Expired(reservation, tx.now)
           refused == Used(reservation, tx.now) > tx.plan \/ Refused(reservation, op, tx.now, tx.plan)
<1>1. /\ quotaNow' = quotaNow
      /\ refused => quotaLimit' = quotaLimit /\ reservation' = reservation
      /\ ~refused => quotaLimit' = tx.plan /\ reservation' = next
  BY DEF Admit, Admitted
<1>2. /\ quotaNow \in Nat /\ tx.now \in Nat /\ tx.now <= quotaNow /\ tx.plan \in Nat
      /\ tx.plan \in PlanLimits /\ quotaLimit \in PlanLimits /\ quotaLimit \in Nat
      /\ reservation \in Reservations /\ op \in Operations /\ Admissions \subseteq Operations
      /\ reservation[op].status # "active"
  BY QuotaTypes, QuotaAssumption DEF QuotaInv, TxSound, Admit
<1>3. CASE refused
  BY <1>1, <1>2, <1>3, RowKept, StillWithin, QuotaParts DEF RowsInv
<1>4. CASE ~refused
  <2>1. reservation' = next /\ quotaLimit' = tx.plan
    BY <1>1, <1>4
  <2>2. Used(reservation, tx.now) <= tx.plan /\ ~Refused(reservation, op, tx.now, tx.plan)
    BY <1>2, <1>4, UsedIsNat
  <2>3. /\ next \in Reservations
        /\ \A p \in Operations \ { op } : next[p] = open[p]
        /\ reservation[op].status # "none" => next = open
        /\ reservation[op].status = "none" => next[op].status = "consumed"
        /\ Used(next, tx.now) <= tx.plan
    BY <1>2, <2>2, AdmittedRows
  <2>4. \A o \in Operations :
          open[o] # reservation[o] => reservation[o].status = "active" /\ open[o].status = "expired"
    <3>1. reservation \in Reservations /\ tx.now \in Nat
      BY <1>2
    <3> HIDE DEF tx, op, next, refused
    <3> QED BY <3>1, ExpiredRows
  <2> HIDE DEF next, open, op
  <2>5. WithinLimit'
    BY <1>1, <1>2, <2>1, <2>3, WithinUnderSlowClock
  <2>6. ASSUME NEW o \in Operations PROVE Forward(o)
    <3>1. CASE o = op /\ reservation[op].status = "none"
      BY <3>1, RowOfAdmission
    <3>2. CASE o # op \/ reservation[op].status # "none"
      <4>1. reservation'[o] = open[o]
        BY <2>1, <2>3, <3>2
      <4> QED BY <1>1, <1>2, <4>1, RowClosed DEF open
    <3> QED BY <3>1, <3>2
  <2>7. ASSUME NEW o \in Admissions PROVE reservation'[o].status # "active"
    <3>1. reservation[o].status # "active" /\ o \in Operations
      BY <1>2 DEF QuotaInv
    <3> QED BY <2>1, <2>3, <2>4, <3>1
  <2> QED
    BY <1>2, <2>1, <2>3, <2>5, <2>6, <2>7 DEF RowsInv
<1> QED
  BY <1>3, <1>4

\* A release, an end, an expiry: one row or several end, and nothing is taken.
LEMMA ReleaseStep ==
  ASSUME QuotaInv, NEW c \in QuotaClients, Release(c)
  PROVE  RowsInv' /\ \A o \in Operations : Forward(o)
<1> DEFINE tx == quotaTx[c]
           op == tx.op
           next == Released(reservation, op, tx.now)
<1>1. quotaNow' = quotaNow /\ quotaLimit' = quotaLimit /\ reservation' = next
  BY DEF Release
<1>2. /\ quotaNow \in Nat /\ tx.now \in Nat /\ reservation \in Reservations /\ op \in Operations
      /\ Admissions \subseteq Operations
  BY QuotaTypes, QuotaAssumption DEF QuotaInv
<1>3. /\ next \in Reservations
      /\ \A p \in Operations \ { op } : next[p] = reservation[p]
      /\ next[op] # reservation[op] =>
           Counts(reservation[op], tx.now) /\ next[op].status = "released"
  BY <1>2, ReleasedRows
<1> HIDE DEF next, op
<1>4. \A o \in Operations : next[o] = reservation[o] \/
                            (next[o].status = "released" /\ reservation[o].status # "expired")
  BY <1>3 DEF Counts
<1>5. WithinLimit'
  <2>1. \A o \in Operations : Counts(next[o], quotaNow) => Counts(reservation[o], quotaNow)
    BY <1>4 DEF Counts
  <2> QED BY <1>1, <1>2, <1>3, <2>1, StillWithin
<1>6. \A o \in Operations : Forward(o)
  BY <1>1, <1>2, <1>4, RowKept, RowEnded
<1>7. \A o \in Admissions : reservation'[o].status # "active"
  BY <1>1, <1>2, <1>4 DEF QuotaInv
<1> QED
  BY <1>1, <1>3, <1>5, <1>6, <1>7 DEF RowsInv

LEMMA EndStep ==
  ASSUME QuotaInv, NEW a \in Admissions, EndDeployment(a)
  PROVE  RowsInv' /\ \A o \in Operations : Forward(o)
<1> DEFINE next == Rewritten(reservation, a, "released")
<1>1. /\ quotaNow' = quotaNow /\ quotaLimit' = quotaLimit /\ reservation' = next
      /\ reservation[a].status # "expired"
  BY DEF EndDeployment, Rewritten
<1>2. /\ quotaNow \in Nat /\ reservation \in Reservations /\ a \in Operations
      /\ Admissions \subseteq Operations
  BY QuotaTypes, QuotaAssumption DEF QuotaInv
<1>3. /\ next \in Reservations /\ next[a].status = "released"
      /\ \A p \in Operations \ { a } : next[p] = reservation[p]
  BY <1>2, RowsRewritten
<1> HIDE DEF next
<1>4. \A o \in Operations : next[o] = reservation[o] \/
                            (next[o].status = "released" /\ reservation[o].status # "expired")
  BY <1>1, <1>3
<1>5. WithinLimit'
  <2>1. \A o \in Operations : Counts(next[o], quotaNow) => Counts(reservation[o], quotaNow)
    BY <1>4 DEF Counts
  <2> QED BY <1>1, <1>2, <1>3, <2>1, StillWithin
<1>6. \A o \in Operations : Forward(o)
  BY <1>1, <1>2, <1>4, RowKept, RowEnded
<1>7. \A o \in Admissions : reservation'[o].status # "active"
  BY <1>1, <1>2, <1>4 DEF QuotaInv
<1> QED
  BY <1>1, <1>3, <1>5, <1>6, <1>7 DEF RowsInv

LEMMA ExpireStep ==
  ASSUME QuotaInv, Expire
  PROVE  RowsInv' /\ \A o \in Operations : Forward(o)
<1> DEFINE next == Expired(reservation, quotaNow)
<1>1. quotaNow' = quotaNow /\ quotaLimit' = quotaLimit /\ reservation' = next
  BY DEF Expire
<1>2. /\ quotaNow \in Nat /\ reservation \in Reservations /\ Admissions \subseteq Operations
  BY QuotaTypes, QuotaAssumption DEF QuotaInv
<1>3. /\ next \in Reservations
      /\ \A o \in Operations :
           /\ next[o] # reservation[o] => reservation[o].status = "active" /\ next[o].status = "expired"
           /\ \A t : Counts(next[o], t) => Counts(reservation[o], t)
  BY <1>2, ExpiredRows
<1>4. \A o \in Operations : Forward(o)
  BY <1>1, <1>2, RowClosed
<1> HIDE DEF next
<1>5. WithinLimit'
  BY <1>1, <1>2, <1>3, StillWithin
<1>6. \A o \in Admissions : reservation'[o].status # "active"
  BY <1>1, <1>2, <1>3 DEF QuotaInv
<1> QED
  BY <1>1, <1>3, <1>4, <1>5, <1>6 DEF RowsInv

\* The rows stay while the clock moves, a plan changes or a transaction begins.
LEMMA WaitStep ==
  ASSUME QuotaInv, reservation' = reservation, quotaLimit' = quotaLimit,
         quotaNow' \in Nat, quotaNow <= quotaNow'
  PROVE  RowsInv' /\ \A o \in Operations : Forward(o)
<1>1. WithinLimit' /\ \A o \in Operations : Forward(o)
  BY RowKept, StillWithin, QuotaTypes DEF QuotaInv
<1> QED
  BY <1>1, QuotaParts DEF RowsInv

LEMMA QuotaSteps ==
  ASSUME QuotaInv, [QuotaNext]_quotaVars
  PROVE  QuotaInv' /\ \A o \in Operations : Forward(o)
<1>0. /\ TxInv /\ quotaNow \in Nat /\ quotaNow \in 0 .. MaxQuotaTime /\ quotaNow <= quotaNow
      /\ planLimit \in PlanLimits /\ quotaLimit \in PlanLimits /\ planLimit \in Nat
      /\ IdleQuota.op \in Operations /\ Admissions \subseteq Operations
  BY QuotaTypes, QuotaParts, QuotaAssumption DEF QuotaInv, IdleQuota
<1> USE QuotaPartsNext
<1>1. ASSUME NEW c \in QuotaClients, NEW o \in Operations,
             NEW step \in { "limit", "reserve", "admit", "release" }, BeginQuota(c, step, o),
             step = "admit" => o \in Admissions,
             step \in { "reserve", "release" } => o \notin Admissions
      PROVE  QuotaInv' /\ \A p \in Operations : Forward(p)
  <2>1. TxInv'
    BY <1>0, <1>1, TxBegins
  <2> QED BY <1>0, <1>1, <2>1, WaitStep DEF BeginQuota
<1>2. ASSUME NEW c \in QuotaClients, SetLimit(c)
      PROVE  QuotaInv' /\ \A o \in Operations : Forward(o)
  BY <1>0, <1>2, LimitStep, TxEnds DEF SetLimit
<1>3. ASSUME NEW c \in QuotaClients, Reserve(c)
      PROVE  QuotaInv' /\ \A o \in Operations : Forward(o)
  BY <1>0, <1>3, ReserveStep, TxEnds DEF Reserve
<1>4. ASSUME NEW c \in QuotaClients, Admit(c)
      PROVE  QuotaInv' /\ \A o \in Operations : Forward(o)
  BY <1>0, <1>4, AdmitStep, TxEnds DEF Admit
<1>5. ASSUME NEW c \in QuotaClients, Release(c)
      PROVE  QuotaInv' /\ \A o \in Operations : Forward(o)
  BY <1>0, <1>5, ReleaseStep, TxEnds DEF Release
<1>6. ASSUME NEW c \in QuotaClients, AbortQuota(c)
      PROVE  QuotaInv' /\ \A o \in Operations : Forward(o)
  BY <1>0, <1>6, WaitStep, TxEnds DEF AbortQuota
<1>7. ASSUME NEW o \in Admissions, EndDeployment(o)
      PROVE  QuotaInv' /\ \A p \in Operations : Forward(p)
  BY <1>0, <1>7, EndStep, TxWaits DEF EndDeployment
<1>8. CASE Expire
  BY <1>0, <1>8, ExpireStep, TxWaits DEF Expire
<1>9. CASE ChangePlan
  BY <1>0, <1>9, WaitStep, TxWaits DEF ChangePlan
<1>10. CASE QuotaTick
  <2>1. quotaNow' \in 0 .. MaxQuotaTime /\ quotaNow <= quotaNow' /\ quotaNow' \in Nat
    BY <1>0, <1>10, QuotaAssumption DEF QuotaTick
  <2> QED BY <1>0, <1>10, <2>1, WaitStep, TxWaits DEF QuotaTick
<1>11. CASE UNCHANGED quotaVars
  BY <1>0, <1>11, WaitStep, TxWaits DEF quotaVars
<1>12. ASSUME NEW c \in QuotaClients,
              \/ BeginQuota(c, "limit", IdleQuota.op)
              \/ \E o \in Operations \ Admissions :
                    BeginQuota(c, "reserve", o) \/ BeginQuota(c, "release", o)
              \/ \E o \in Admissions : BeginQuota(c, "admit", o)
       PROVE  QuotaInv' /\ \A o \in Operations : Forward(o)
  BY <1>0, <1>1, <1>12
<1> QED
  BY <1>2, <1>3, <1>4, <1>5, <1>6, <1>7, <1>8, <1>9, <1>10, <1>11, <1>12 DEF QuotaNext

\* The reservations, the limits and the transactions keep their types.
THEOREM QuotasTyped == QuotaSpec => []QuotaTypeOK
<1>1. QuotaInv => QuotaTypeOK
  BY DEF QuotaInv
<1> QED
  BY <1>1, QuotaBegins, QuotaSteps, PTL DEF QuotaSpec

\* Slow clocks, expiry, changes of the plan and deployments that end without
\* the lock notwithstanding, what counts is within the limit in force.
THEOREM QuotaKept == QuotaSpec => []WithinLimit
<1>1. QuotaInv => WithinLimit
  BY DEF QuotaInv
<1> QED
  BY <1>1, QuotaBegins, QuotaSteps, PTL DEF QuotaSpec

\* What was released or expired never counts again, so that no slow
\* transaction takes back what another one was given.
THEOREM ReservationsEndOnce == QuotaSpec => NeverTakenBack
<1>1. QuotaInv /\ [QuotaNext]_quotaVars =>
        [ \A o \in Operations :
            /\ reservation[o].status \in { "released", "expired" }
                 => reservation'[o].status = reservation[o].status
            /\ ~Counts(reservation[o], quotaNow) /\ reservation[o].status # "none"
                 => ~Counts(reservation'[o], quotaNow') ]_quotaVars
  BY QuotaSteps DEF Forward
<1> QED
  BY <1>1, QuotaBegins, QuotaSteps, PTL DEF QuotaSpec, NeverTakenBack

-----------------------------------------------------------------------------
(***************************************************************************)
(* Usage: the keys that an open transaction has inserted are its own, so   *)
(* that what it commits is one row that is not there, or none.             *)
(***************************************************************************)
LedgerKeySet == Sources \union Corrections

\* A transaction of any kind, whatever it has read.
LedgerTx(tx) ==
  tx \in [ step : { tx.step }, expected : { tx.expected }, recorded : { tx.recorded }, rows : { tx.rows } ]

\* The row that a transaction has inserted, in the view of the others.
RowsSound(tx) ==
  /\ LedgerTx(tx)
  /\ \A r, s \in tx.rows : r = s
  /\ \A r \in tx.rows :
       /\ r.key \in LedgerKeySet /\ r.key \notin LedgerKeys(usage)
       /\ tx.step = "create" => r.of = "none"
       /\ tx.step = "adjust" => r.of \in LedgerKeys(usage)

KeysApart ==
  \A b, c \in LedgerClients : b # c => LedgerKeys(ledgerTx[b].rows) \cap LedgerKeys(ledgerTx[c].rows) = {}

LedgerInv ==
  /\ ledgerTx = [ c \in LedgerClients |-> ledgerTx[c] ]
  /\ \A c \in LedgerClients : RowsSound(ledgerTx[c])
  /\ KeysApart
  /\ LedgerKeys(usage) \subseteq LedgerKeySet
  /\ CountedOnce

LEMMA LedgerBegins == LedgerInit => LedgerInv
BY DEF LedgerInit, LedgerInv, IdleLedger, RowsSound, LedgerTx, KeysApart, LedgerKeys, CountedOnce

\* Every step but a commit: the table stays, and one transaction has no row,
\* or one under a key that nobody has.
LEMMA TxWritten ==
  ASSUME LedgerInv, UNCHANGED << usage, created >>, NEW c \in LedgerClients, NEW tx,
         ledgerTx' = [ ledgerTx EXCEPT ![c] = tx ], RowsSound(tx),
         \A b \in LedgerClients \ { c } : LedgerKeys(ledgerTx[b].rows) \cap LedgerKeys(tx.rows) = {}
  PROVE  LedgerInv'
<1>1. /\ ledgerTx' = [ b \in LedgerClients |-> ledgerTx'[b] ] /\ ledgerTx'[c] = tx
      /\ \A b \in LedgerClients \ { c } : ledgerTx'[b] = ledgerTx[b]
  BY DEF LedgerInv
<1>2. \A b \in LedgerClients : RowsSound(ledgerTx[b])'
  BY <1>1 DEF LedgerInv, RowsSound, LedgerKeys
<1>3. KeysApart'
  BY <1>1 DEF LedgerInv, KeysApart
<1> QED
  BY <1>1, <1>2, <1>3 DEF LedgerInv, CountedOnce, LedgerKeys

LEMMA TxEmptied ==
  ASSUME LedgerInv, UNCHANGED << usage, created >>, NEW c \in LedgerClients, NEW tx,
         ledgerTx' = [ ledgerTx EXCEPT ![c] = tx ], LedgerTx(tx), tx.rows = {}
  PROVE  LedgerInv'
<1>1. RowsSound(tx) /\ LedgerKeys(tx.rows) = {}
  BY DEF RowsSound, LedgerKeys
<1> QED
  BY <1>1, TxWritten

\* What the insert leaves to commit.
Inserting(tx, step, rows) == [ tx EXCEPT !.step = step, !.rows = rows ]

LEMMA InsertingMade ==
  ASSUME NEW tx, LedgerTx(tx), NEW step, NEW rows
  PROVE  /\ LedgerTx(Inserting(tx, step, rows))
         /\ Inserting(tx, step, rows).step = step /\ Inserting(tx, step, rows).rows = rows
BY DEF LedgerTx, Inserting

\* What a reconciliation has read.
Reading(tx, expected, total) ==
  [ tx EXCEPT !.step = "reconcile", !.expected = expected, !.recorded = total ]

LEMMA ReadingMade ==
  ASSUME NEW tx, LedgerTx(tx), NEW expected, NEW total
  PROVE  /\ LedgerTx(Reading(tx, expected, total))
         /\ Reading(tx, expected, total).step = "reconcile"
         /\ Reading(tx, expected, total).rows = tx.rows
BY DEF LedgerTx, Reading

LEMMA InsertedRow ==
  ASSUME NEW key \in LedgerKeySet, NEW quantity, NEW of
  PROVE  /\ \A r, s \in Inserted(key, quantity, of) : r = s
         /\ \A r \in Inserted(key, quantity, of) :
              r.key = key /\ r.of = of /\ key \notin LedgerKeys(usage)
BY DEF Inserted

LEMMA InsertStep ==
  ASSUME LedgerInv, NEW c \in LedgerClients, NEW key \in LedgerKeySet, NEW quantity, NEW of,
         InsertFree(c, key), NEW step \in { "create", "adjust" },
         step = "create" => of = "none", step = "adjust" => of \in LedgerKeys(usage),
         UNCHANGED << usage, created >>,
         ledgerTx' = [ ledgerTx EXCEPT ![c].step = step, ![c].rows = Inserted(key, quantity, of) ]
  PROVE  LedgerInv'
<1> DEFINE rows == Inserted(key, quantity, of)
           tx == Inserting(ledgerTx[c], step, rows)
<1>1. LedgerTx(ledgerTx[c])
  BY DEF LedgerInv, RowsSound
<1>2. LedgerTx(tx) /\ tx.step = step /\ tx.rows = rows
  BY <1>1, InsertingMade
<1>3. /\ \A r, s \in rows : r = s
      /\ \A r \in rows : r.key = key /\ r.of = of /\ key \notin LedgerKeys(usage)
  BY InsertedRow
<1>4. ledgerTx' = [ ledgerTx EXCEPT ![c] = tx ]
  BY <1>1 DEF Inserting, LedgerInv
<1> HIDE DEF rows, tx
<1>5. RowsSound(tx)
  BY <1>2, <1>3 DEF RowsSound
<1>6. LedgerKeys(tx.rows) \subseteq { key }
  BY <1>2, <1>3 DEF LedgerKeys
<1>7. \A b \in LedgerClients \ { c } : LedgerKeys(ledgerTx[b].rows) \cap LedgerKeys(tx.rows) = {}
  BY <1>6 DEF InsertFree
<1> QED
  BY <1>4, <1>5, <1>7, TxWritten

\* A commit: the row is new to the table, and a deployment exists with it.
LEMMA CommitStep ==
  ASSUME LedgerInv, NEW c \in LedgerClients, CommitUsage(c)
  PROVE  LedgerInv'
<1> DEFINE tx == ledgerTx[c]
<1>1. /\ usage' = usage \union tx.rows /\ tx.step \in { "create", "adjust" }
      /\ created' = IF tx.step = "create" THEN created \union LedgerKeys(tx.rows) ELSE created
      /\ ledgerTx' = [ ledgerTx EXCEPT ![c] = IdleLedger ]
  BY DEF CommitUsage
<1>2. /\ RowsSound(tx) /\ CountedOnce /\ LedgerKeys(usage) \subseteq LedgerKeySet /\ KeysApart
      /\ "none" \notin LedgerKeySet
  BY LedgerAssumption DEF LedgerInv, LedgerKeySet
<1>3. /\ ledgerTx' = [ b \in LedgerClients |-> ledgerTx'[b] ] /\ ledgerTx'[c] = IdleLedger
      /\ \A b \in LedgerClients \ { c } : ledgerTx'[b] = ledgerTx[b]
  BY <1>1 DEF LedgerInv
<1>4. LedgerTx(IdleLedger) /\ IdleLedger.rows = {}
  BY DEF LedgerTx, IdleLedger
<1>5. LedgerKeys(usage') = LedgerKeys(usage) \union LedgerKeys(tx.rows)
  BY <1>1 DEF LedgerKeys
<1> HIDE DEF tx, IdleLedger
<1>6. ASSUME NEW b \in LedgerClients PROVE RowsSound(ledgerTx[b])'
  <2>1. CASE b = c
    BY <1>3, <1>4, <2>1 DEF RowsSound
  <2>2. CASE b # c
    <3>1. RowsSound(ledgerTx[b]) /\ ledgerTx'[b] = ledgerTx[b]
      BY <1>3, <2>2 DEF LedgerInv
    <3>2. LedgerKeys(ledgerTx[b].rows) \cap LedgerKeys(tx.rows) = {}
      BY <1>2, <2>2 DEF KeysApart, tx
    <3>3. \A r \in ledgerTx[b].rows : r.key \notin LedgerKeys(usage')
      BY <1>5, <3>1, <3>2 DEF RowsSound, LedgerKeys
    <3> QED
      BY <1>5, <3>1, <3>3 DEF RowsSound, LedgerTx, LedgerKeys
  <2> QED BY <2>1, <2>2
<1>7. KeysApart'
  BY <1>2, <1>3, <1>4 DEF KeysApart, LedgerKeys
<1>8. LedgerKeys(usage') \subseteq LedgerKeySet
  BY <1>2, <1>5 DEF RowsSound, LedgerKeys
<1>9. \A r, s \in usage' : r.key = s.key => r = s
  BY <1>1, <1>2 DEF RowsSound, LedgerKeys, CountedOnce
<1>10. \A r \in usage' : r.of # "none" => r.of \in LedgerKeys(usage')
  BY <1>1, <1>2, <1>5 DEF RowsSound, CountedOnce
<1>11. created' = { r.key : r \in { x \in usage' : x.of = "none" } }
  <2>1. CASE tx.step = "create"
    BY <1>1, <1>2, <2>1 DEF RowsSound, CountedOnce, LedgerKeys
  <2>2. CASE tx.step = "adjust"
    <3>1. \A r \in tx.rows : r.of # "none"
      BY <1>2, <2>2 DEF RowsSound
    <3> QED BY <1>1, <1>2, <2>2, <3>1 DEF CountedOnce
  <2> QED BY <1>1, <2>1, <2>2
<1> QED
  BY <1>3, <1>6, <1>7, <1>8, <1>9, <1>10, <1>11 DEF LedgerInv, CountedOnce, LedgerKeys

LEMMA LedgerSteps ==
  ASSUME LedgerInv, [LedgerNext]_ledgerVars
  PROVE  LedgerInv'
<1>1. ASSUME NEW c \in LedgerClients, NEW d \in Sources, RecordCreation(c, d)
      PROVE  LedgerInv'
  BY <1>1, InsertStep DEF RecordCreation, LedgerKeySet
<1>2. ASSUME NEW c \in LedgerClients, NEW r \in usage, NEW key \in Corrections,
             NEW q \in Quantities, Adjust(c, r.key, key, q)
      PROVE  LedgerInv'
  BY <1>2, InsertStep DEF Adjust, LedgerKeySet
<1>3. ASSUME NEW c \in LedgerClients, RollbackUsage(c) \/ Reconcile(c)
      PROVE  LedgerInv'
  <2>1. LedgerTx(IdleLedger) /\ IdleLedger.rows = {}
    BY DEF LedgerTx, IdleLedger
  <2> QED BY <1>3, <2>1, TxEmptied DEF RollbackUsage, Reconcile
<1>4. ASSUME NEW c \in LedgerClients, NEW expected, ReadTotal(c, expected)
      PROVE  LedgerInv'
  <2>1. PICK total : ledgerTx' = [ ledgerTx EXCEPT ![c].step = "reconcile",
                         ![c].expected = expected, ![c].recorded = total ]
    BY <1>4 DEF ReadTotal
  <2> DEFINE tx == Reading(ledgerTx[c], expected, total)
  <2>2. RowsSound(ledgerTx[c])
    BY DEF LedgerInv
  <2>3. LedgerTx(tx) /\ tx.step = "reconcile" /\ tx.rows = ledgerTx[c].rows
    BY <2>2, ReadingMade DEF RowsSound
  <2>4. ledgerTx' = [ ledgerTx EXCEPT ![c] = tx ]
    BY <2>1, <2>2 DEF Reading, LedgerInv
  <2> HIDE DEF tx
  <2>5. RowsSound(tx)
    BY <2>2, <2>3 DEF RowsSound
  <2>6. \A b \in LedgerClients \ { c } : LedgerKeys(ledgerTx[b].rows) \cap LedgerKeys(tx.rows) = {}
    BY <2>3 DEF LedgerInv, KeysApart
  <2> QED
    BY <1>4, <2>4, <2>5, <2>6, TxWritten DEF ReadTotal
<1>5. ASSUME NEW c \in LedgerClients, CommitUsage(c)
      PROVE  LedgerInv'
  BY <1>5, CommitStep
<1>6. CASE LedgerTick
  BY <1>6 DEF LedgerTick, LedgerInv, RowsSound, LedgerTx, KeysApart, LedgerKeys, CountedOnce
<1>7. CASE UNCHANGED ledgerVars
  BY <1>7 DEF ledgerVars, LedgerInv, RowsSound, LedgerTx, KeysApart, LedgerKeys, CountedOnce
<1> QED
  BY <1>1, <1>2, <1>3, <1>4, <1>5, <1>6, <1>7 DEF LedgerNext

\* However often a creation or an adjustment is asked for, side by side, and
\* whichever transactions die: a deployment that exists has one event, and an
\* adjustment refers to an event.
THEOREM UsageCountedOnce == LedgerSpec => []CountedOnce
<1>1. LedgerInv => CountedOnce
  BY DEF LedgerInv
<1> QED
  BY <1>1, LedgerBegins, LedgerSteps, PTL DEF LedgerSpec

-----------------------------------------------------------------------------
(***************************************************************************)
(* A total over a finite set. The library's sum is a recursive function on *)
(* its subsets: that there is such a function, and that it gives natural   *)
(* numbers, is shown by a least counterexample in each case.               *)
(***************************************************************************)
\* A set of natural numbers has a least one.
LEMMA Least ==
  ASSUME NEW T \in SUBSET Nat, T # {}
  PROVE  \E t \in T : \A u \in T : t <= u
<1>1. PICK t \in T : \A u \in T : ~(<< u, t >> \in OpToRel(<, Nat))
  BY NatLessThanWellFounded, WFMin, Zenon
<1>2. ASSUME NEW u \in T PROVE t <= u
  <2>1. ~(u < t)
    BY <1>1 DEF OpToRel
  <2> QED
    BY <2>1
<1> QED
  BY <1>2

\* The sum over the subsets of S, one element after the other.
Picked(s) == CHOOSE x \in s : TRUE
Sums(S, w, f) == f = [ s \in SUBSET S |-> IF s = {} THEN 0 ELSE w[Picked(s)] + f[s \ { Picked(s) }] ]
SmallSubsets(S, n) == { s \in SUBSET S : Cardinality(s) <= n }

LEMMA SmallerBy ==
  ASSUME NEW S, IsFiniteSet(S), NEW s \in SUBSET S, s # {}
  PROVE  /\ Picked(s) \in s /\ s \ { Picked(s) } \in SUBSET S
         /\ Cardinality(s) \in Nat /\ Cardinality(s \ { Picked(s) }) = Cardinality(s) - 1
         /\ Cardinality(s) - 1 \in Nat
<1>1. Picked(s) \in s
  BY DEF Picked
<1>2. IsFiniteSet(s)
  BY FS_Subset
<1>3. Cardinality(s) \in Nat /\ Cardinality(s \ { Picked(s) }) \in Nat
      /\ Cardinality(s \ { Picked(s) }) = Cardinality(s) - 1
  BY <1>1, <1>2, FS_RemoveElement, FS_CardinalityType, FS_Subset
<1> QED
  BY <1>1, <1>3

LEMMA SumsExist ==
  ASSUME NEW S, IsFiniteSet(S), NEW w
  PROVE  \E f : Sums(S, w, f)
<1> DEFINE Part(n, f) == f = [ s \in SmallSubsets(S, n) |-> IF s = {} THEN 0
                                 ELSE w[Picked(s)] + f[s \ { Picked(s) }] ]
           Missing == { n \in Nat : ~ \E f : Part(n, f) }
<1>1. ASSUME NEW n \in Nat, n \in Missing, \A m \in Missing : n <= m PROVE FALSE
  <2>1. PICK f : n # 0 => Part(n - 1, f)
    <3>1. n # 0 => n - 1 \in Nat /\ n - 1 \notin Missing
      <4> HIDE DEF Missing
      <4> QED
        BY <1>1
    <3> QED
      BY <3>1
  <2> DEFINE g == [ s \in SmallSubsets(S, n) |-> IF s = {} THEN 0 ELSE w[Picked(s)] + f[s \ { Picked(s) }] ]
  <2>2. ASSUME NEW s \in SmallSubsets(S, n), s # {}
        PROVE  g[s \ { Picked(s) }] = f[s \ { Picked(s) }]
    <3> DEFINE t == s \ { Picked(s) }
    <3>1. n # 0 /\ t \in SmallSubsets(S, n) /\ t \in SmallSubsets(S, n - 1)
      BY <2>2, SmallerBy DEF SmallSubsets
    <3>2. f[t] = IF t = {} THEN 0 ELSE w[Picked(t)] + f[t \ { Picked(t) }]
      BY <2>1, <3>1
    <3> QED
      BY <3>1, <3>2
  <2>3. Part(n, g)
    <3> HIDE DEF g
    <3>1. g = [ s \in SmallSubsets(S, n) |-> IF s = {} THEN 0 ELSE w[Picked(s)] + g[s \ { Picked(s) }] ]
      <4>1. \A s \in SmallSubsets(S, n) : (IF s = {} THEN 0 ELSE w[Picked(s)] + f[s \ { Picked(s) }])
                               = (IF s = {} THEN 0 ELSE w[Picked(s)] + g[s \ { Picked(s) }])
        BY <2>2
      <4> QED
        BY <4>1 DEF g
    <3> QED
      BY <3>1
  <2> QED
    BY <1>1, <2>3
<1>2. Missing = {}
  <2> HIDE DEF Missing
  <2>1. Missing \subseteq Nat
    BY DEF Missing
  <2> QED
    BY <1>1, <2>1, Least
<1>3. Cardinality(S) \in Nat /\ SmallSubsets(S, Cardinality(S)) = SUBSET S
  BY FS_CardinalityType, FS_Subset DEF SmallSubsets
<1>4. PICK f : Part(Cardinality(S), f)
  BY <1>2, <1>3
<1> QED
  BY <1>3, <1>4 DEF Sums

LEMMA SumsTyped ==
  ASSUME NEW S, IsFiniteSet(S), NEW w \in [ S -> Nat ], NEW f, Sums(S, w, f)
  PROVE  f \in [ SUBSET S -> Nat ]
<1> DEFINE Wrong == { n \in Nat : \E s \in SUBSET S : Cardinality(s) = n /\ f[s] \notin Nat }
<1>1. ASSUME NEW n \in Nat, n \in Wrong, \A m \in Wrong : n <= m PROVE FALSE
  <2>1. PICK s \in SUBSET S : Cardinality(s) = n /\ f[s] \notin Nat
    BY <1>1
  <2>2. f[s] = IF s = {} THEN 0 ELSE w[Picked(s)] + f[s \ { Picked(s) }]
    BY DEF Sums
  <2>3. s # {}
    BY <2>1, <2>2
  <2>4. /\ Picked(s) \in S /\ s \ { Picked(s) } \in SUBSET S
        /\ Cardinality(s \ { Picked(s) }) = n - 1 /\ n - 1 \in Nat
    BY <2>1, <2>3, SmallerBy
  <2>5. f[s \ { Picked(s) }] \in Nat
    BY <1>1, <2>4
  <2> QED
    BY <2>1, <2>2, <2>3, <2>4, <2>5
<1>2. Wrong = {}
  <2> HIDE DEF Wrong
  <2>1. Wrong \subseteq Nat
    BY DEF Wrong
  <2> QED
    BY <1>1, <2>1, Least
<1>3. \A s \in SUBSET S : f[s] \in Nat
  <2>1. \A s \in SUBSET S : Cardinality(s) \in Nat
    BY FS_Subset, FS_CardinalityType
  <2> QED
    BY <1>2, <2>1
<1> QED
  BY <1>3 DEF Sums

\* A reconciliation records a number, whatever period it is about.
LEMMA TotalIsNumber ==
  ASSUME IsFiniteSet(usage), NEW start, NEW end, \A r \in usage : r.quantity \in Nat
  PROVE  Aggregate(start, end) \in Nat
<1> DEFINE w == [ r \in usage |-> IF InPeriod(r, start, end) THEN r.quantity ELSE 0 ]
           F == CHOOSE f : f = [ s \in SUBSET usage |-> IF s = {} THEN 0
                    ELSE (IF InPeriod(Picked(s), start, end) THEN Picked(s).quantity ELSE 0)
                         + f[s \ { Picked(s) }] ]
<1>1. Aggregate(start, end) = F[usage]
  BY DEF Aggregate, MapThenSumSet, MapThenFoldSet, Picked
<1>2. w \in [ usage -> Nat ]
  OBVIOUS
<1>3. PICK f : Sums(usage, w, f)
  BY SumsExist
<1>4. ASSUME NEW g
      PROVE  Sums(usage, w, g) <=>
               g = [ s \in SUBSET usage |-> IF s = {} THEN 0
                       ELSE (IF InPeriod(Picked(s), start, end) THEN Picked(s).quantity ELSE 0)
                            + g[s \ { Picked(s) }] ]
  <2>1. ASSUME NEW s \in SUBSET usage, s # {}
        PROVE  w[Picked(s)] = IF InPeriod(Picked(s), start, end) THEN Picked(s).quantity ELSE 0
    BY <2>1, SmallerBy
  <2> HIDE DEF w
  <2>2. [ s \in SUBSET usage |-> IF s = {} THEN 0 ELSE w[Picked(s)] + g[s \ { Picked(s) }] ]
        = [ s \in SUBSET usage |-> IF s = {} THEN 0
              ELSE (IF InPeriod(Picked(s), start, end) THEN Picked(s).quantity ELSE 0)
                   + g[s \ { Picked(s) }] ]
    BY <2>1
  <2> QED
    BY <2>2 DEF Sums
<1>5. Sums(usage, w, F)
  <2> HIDE DEF w
  <2> QED
    BY <1>3, <1>4
<1> HIDE DEF F, w
<1>6. F \in [ SUBSET usage -> Nat ]
  BY <1>2, <1>5, SumsTyped
<1> QED
  BY <1>1, <1>6

-----------------------------------------------------------------------------
(***************************************************************************)
(* Types of the ledger: an open transaction holds rows of the instant, and *)
(* a creation one of its deployment.                                       *)
(***************************************************************************)
UsageRow(now) == [ key : LedgerKeySet, quantity : Nat, at : 0 .. now, of : LedgerKeySet \union { "none" } ]

UsageTx(tx, now) ==
  /\ IsFiniteSet(tx.rows) /\ tx.rows \subseteq UsageRow(now)
  /\ tx.step = "create" => LedgerKeys(tx.rows) \subseteq Sources
  /\ tx.step = "reconcile" => tx.recorded \in Nat

LedgerTypeInv ==
  /\ LedgerInv
  /\ LedgerTypeOK
  /\ IsFiniteSet(usage)
  /\ \A c \in LedgerClients : UsageTx(ledgerTx[c], ledgerNow)

LEMMA LedgerTypesBegin == LedgerInit => LedgerTypeInv
<1> SUFFICES ASSUME LedgerInit PROVE LedgerTypeInv
  OBVIOUS
<1>1. UsageTx(IdleLedger, 0)
  BY FS_EmptySet DEF UsageTx, IdleLedger
<1>2. LedgerTypeOK /\ IsFiniteSet(usage)
  BY LedgerAssumption, FS_EmptySet DEF LedgerInit, LedgerTypeOK
<1> QED
  BY <1>1, <1>2, LedgerBegins DEF LedgerInit, LedgerTypeInv

\* One transaction moves and the tables stay.
LEMMA TypedTx ==
  ASSUME LedgerTypeInv, LedgerInv', NEW c \in LedgerClients, NEW tx, UsageTx(tx, ledgerNow),
         ledgerTx' = [ ledgerTx EXCEPT ![c] = tx ], UNCHANGED << ledgerNow, usage, created >>,
         \A r \in reconciliations' : r.recorded \in Nat
  PROVE  LedgerTypeInv'
<1>1. ledgerTx'[c] = tx /\ \A b \in LedgerClients \ { c } : ledgerTx'[b] = ledgerTx[b]
  BY DEF LedgerTypeInv, LedgerInv
<1>2. \A b \in LedgerClients : UsageTx(ledgerTx[b], ledgerNow)'
  BY <1>1 DEF LedgerTypeInv, UsageTx, LedgerKeys, UsageRow
<1> QED
  BY <1>2 DEF LedgerTypeInv, LedgerTypeOK

LEMMA InsertedTyped ==
  ASSUME LedgerTypeInv, LedgerInv', NEW c \in LedgerClients, NEW key \in LedgerKeySet,
         NEW quantity \in Nat, NEW of \in LedgerKeySet \union { "none" },
         NEW step \in { "create", "adjust" }, step = "create" => key \in Sources,
         UNCHANGED << ledgerNow, usage, created, reconciliations >>,
         ledgerTx' = [ ledgerTx EXCEPT ![c].step = step, ![c].rows = Inserted(key, quantity, of) ]
  PROVE  LedgerTypeInv'
<1> DEFINE rows == Inserted(key, quantity, of)
           tx == Inserting(ledgerTx[c], step, rows)
           row == [ key |-> key, quantity |-> quantity, at |-> ledgerNow, of |-> of ]
<1>1. LedgerTx(ledgerTx[c])
  BY DEF LedgerTypeInv, LedgerInv, RowsSound
<1>2. tx.step = step /\ tx.rows = rows
  BY <1>1, InsertingMade
<1>3. ledgerTx' = [ ledgerTx EXCEPT ![c] = tx ]
  BY <1>1 DEF Inserting, LedgerTypeInv, LedgerInv
<1>4. ledgerNow \in 0 .. ledgerNow /\ row \in UsageRow(ledgerNow)
  BY LedgerAssumption DEF LedgerTypeInv, LedgerTypeOK, UsageRow
<1>5. rows = {} \/ rows = { row }
  BY DEF Inserted
<1> HIDE DEF rows, tx, row
<1>6. IsFiniteSet(rows) /\ rows \subseteq UsageRow(ledgerNow)
  <2>1. IsFiniteSet({}) /\ IsFiniteSet({ row })
    BY FS_EmptySet, FS_Singleton
  <2> QED
    BY <1>4, <1>5, <2>1
<1>7. LedgerKeys(rows) \subseteq { key }
  BY <1>5 DEF LedgerKeys, row
<1>8. UsageTx(tx, ledgerNow)
  BY <1>2, <1>6, <1>7 DEF UsageTx
<1> QED
  BY <1>3, <1>8, TypedTx DEF LedgerTypeInv, LedgerTypeOK

LEMMA LedgerTypesStep ==
  ASSUME LedgerTypeInv, [LedgerNext]_ledgerVars
  PROVE  LedgerTypeInv'
<1>a. LedgerInv' /\ LedgerInv
  BY LedgerSteps DEF LedgerTypeInv
<1>b. UsageTx(IdleLedger, ledgerNow)
  BY FS_EmptySet DEF UsageTx, IdleLedger
<1>c. \A r \in usage : r.key \in LedgerKeySet /\ r.quantity \in Nat
  BY DEF LedgerTypeInv, LedgerTypeOK, LedgerKeySet
<1>d. ledgerNow \in 0 .. MaxLedgerTime /\ MaxLedgerTime \in Nat
  BY LedgerAssumption DEF LedgerTypeInv, LedgerTypeOK
<1>1. ASSUME NEW c \in LedgerClients, NEW d \in Sources, RecordCreation(c, d)
      PROVE  LedgerTypeInv'
  <2>1. d \in LedgerKeySet
    BY DEF LedgerKeySet
  <2> QED
    BY <1>a, <1>1, <2>1, InsertedTyped DEF RecordCreation
<1>2. ASSUME NEW c \in LedgerClients, NEW r \in usage, NEW key \in Corrections,
             NEW q \in Quantities, Adjust(c, r.key, key, q)
      PROVE  LedgerTypeInv'
  <2>1. key \in LedgerKeySet /\ r.key \in LedgerKeySet /\ q \in Nat
    BY <1>c, LedgerAssumption DEF LedgerKeySet
  <2> QED
    BY <1>a, <1>2, <2>1, InsertedTyped DEF Adjust
<1>3. ASSUME NEW c \in LedgerClients, RollbackUsage(c)
      PROVE  LedgerTypeInv'
  BY <1>a, <1>b, <1>3, TypedTx DEF RollbackUsage, LedgerTypeInv, LedgerTypeOK
<1>4. ASSUME NEW c \in LedgerClients, Reconcile(c)
      PROVE  LedgerTypeInv'
  <2>1. ledgerTx[c].recorded \in Nat
    BY <1>4 DEF Reconcile, LedgerTypeInv, UsageTx
  <2>2. \A r \in reconciliations' : r.recorded \in Nat
    BY <1>4, <2>1 DEF Reconcile, LedgerTypeInv, LedgerTypeOK
  <2> QED
    BY <1>a, <1>b, <1>4, <2>2, TypedTx DEF Reconcile
<1>5. ASSUME NEW c \in LedgerClients, NEW expected, ReadTotal(c, expected)
      PROVE  LedgerTypeInv'
  <2> DEFINE total == Aggregate(0, MaxLedgerTime + 1)
             tx == Reading(ledgerTx[c], expected, total)
  <2>1. LedgerTx(ledgerTx[c]) /\ UsageTx(ledgerTx[c], ledgerNow)
    BY <1>a DEF LedgerInv, RowsSound, LedgerTypeInv
  <2>2. total \in Nat
    BY <1>c, TotalIsNumber DEF LedgerTypeInv
  <2> HIDE DEF total
  <2>3. tx.step = "reconcile" /\ tx.rows = ledgerTx[c].rows /\ tx.recorded = total
    BY <2>1 DEF Reading, LedgerTx
  <2>4. ledgerTx' = [ ledgerTx EXCEPT ![c] = tx ]
    BY <1>5, <1>a, <2>1 DEF ReadTotal, Reading, LedgerInv, total
  <2> HIDE DEF tx
  <2>5. UsageTx(tx, ledgerNow)
    BY <2>1, <2>2, <2>3 DEF UsageTx
  <2> QED
    BY <1>a, <1>5, <2>4, <2>5, TypedTx DEF ReadTotal, LedgerTypeInv, LedgerTypeOK
<1>6. ASSUME NEW c \in LedgerClients, CommitUsage(c)
      PROVE  LedgerTypeInv'
  <2>1. /\ usage' = usage \union ledgerTx[c].rows /\ UNCHANGED << ledgerNow, reconciliations >>
        /\ created' = IF ledgerTx[c].step = "create" THEN created \union LedgerKeys(ledgerTx[c].rows)
                      ELSE created
        /\ ledgerTx' = [ ledgerTx EXCEPT ![c] = IdleLedger ] /\ UsageTx(ledgerTx[c], ledgerNow)
    BY <1>6 DEF CommitUsage, LedgerTypeInv
  <2>2. IsFiniteSet(usage')
    BY <2>1, FS_Union DEF LedgerTypeInv, UsageTx
  <2>3. usage' \subseteq UsageRow(ledgerNow) /\ created' \subseteq Sources
    BY <2>1 DEF LedgerTypeInv, LedgerTypeOK, UsageTx, UsageRow, LedgerKeySet
  <2>4. \A b \in LedgerClients : UsageTx(ledgerTx'[b], ledgerNow)
    BY <1>a, <1>b, <2>1 DEF LedgerTypeInv, LedgerInv
  <2>5. LedgerTypeOK'
    BY <2>1, <2>3 DEF LedgerTypeInv, LedgerTypeOK, UsageRow, LedgerKeySet
  <2> QED
    BY <1>a, <2>1, <2>2, <2>4, <2>5 DEF LedgerTypeInv
<1>7. CASE LedgerTick
  <2>1. /\ ledgerNow' \in 0 .. MaxLedgerTime /\ 0 .. ledgerNow \subseteq 0 .. ledgerNow'
        /\ UNCHANGED << usage, created, reconciliations, ledgerTx >>
    BY <1>d, <1>7 DEF LedgerTick
  <2>2. UsageRow(ledgerNow) \subseteq UsageRow(ledgerNow')
    BY <2>1 DEF UsageRow
  <2>3. LedgerTypeOK'
    BY <2>1, <2>2 DEF LedgerTypeInv, LedgerTypeOK, UsageRow, LedgerKeySet
  <2>4. \A c \in LedgerClients : UsageTx(ledgerTx'[c], ledgerNow')
    BY <2>1, <2>2 DEF LedgerTypeInv, UsageTx
  <2> QED
    BY <1>a, <2>1, <2>3, <2>4 DEF LedgerTypeInv
<1>8. CASE UNCHANGED ledgerVars
  BY <1>a, <1>8 DEF ledgerVars, LedgerTypeInv, LedgerTypeOK, UsageTx, UsageRow, LedgerKeys
<1> QED
  BY <1>1, <1>2, <1>3, <1>4, <1>5, <1>6, <1>7, <1>8 DEF LedgerNext

\* The rows, the deployments and what reconciliations record keep their types:
\* a total of the ledger is a number.
THEOREM LedgerTyped == LedgerSpec => []LedgerTypeOK
<1>1. LedgerTypeInv => LedgerTypeOK
  BY DEF LedgerTypeInv
<1> QED
  BY <1>1, LedgerTypesBegin, LedgerTypesStep, PTL DEF LedgerSpec

-----------------------------------------------------------------------------
(***************************************************************************)
(* Plans: each subscription ends when the next one begins, and the last    *)
(* has no end. So the last of those that are due is in effect.             *)
(***************************************************************************)
SubRow == [ plan : DOMAIN Plans, effective : 0 .. MaxSubTime, ended : 0 .. Forever ]

SubInv ==
  /\ subNow \in 0 .. MaxSubTime /\ subscriptions \in Seq(SubRow)
  /\ \A i \in 1 .. Len(subscriptions) :
       subscriptions[i].ended = IF i = Len(subscriptions) THEN Forever
                                ELSE subscriptions[i + 1].effective

\* A set of numbers below a bound has a greatest one.
LEMMA Greatest ==
  ASSUME NEW bound \in Nat, NEW S, S \subseteq 0 .. bound, S # {}
  PROVE  \E x \in S : \A y \in S : y <= x
<1> DEFINE T == { bound - x : x \in S }
<1>1. T \subseteq Nat /\ T # {}
  <2>1. \A x \in S : bound - x \in Nat
    OBVIOUS
  <2> QED BY <2>1
<1>2. PICK t \in T : \A u \in T : ~(<< u, t >> \in OpToRel(<, Nat))
  <2> HIDE DEF T
  <2> QED BY <1>1, NatLessThanWellFounded, WFMin, Zenon
<1>3. PICK x \in S : t = bound - x
  BY <1>2
<1>4. ASSUME NEW y \in S PROVE y <= x
  <2>1. bound - y \in T /\ bound - y \in Nat /\ t \in Nat
    BY <1>1
  <2>2. ~(bound - y < t)
    BY <1>2, <2>1 DEF OpToRel
  <2> QED
    BY <1>3, <2>1, <2>2
<1> QED
  BY <1>4

\* What an assignment does to each row.
Closed(row, at) == IF row.ended = Forever THEN [ row EXCEPT !.ended = at ] ELSE row

LEMMA ClosedRow ==
  ASSUME NEW row \in SubRow, NEW at \in 0 .. MaxSubTime
  PROVE  /\ Closed(row, at) \in SubRow /\ Closed(row, at).effective = row.effective
         /\ Closed(row, at).ended = IF row.ended = Forever THEN at ELSE row.ended
BY SubAssumption DEF Closed, SubRow, Forever

LEMMA AssignStep ==
  ASSUME SubInv, NEW plan \in DOMAIN Plans, NEW at \in 0 .. MaxSubTime, Assign(plan, at)
  PROVE  SubInv'
<1> DEFINE new == [ plan |-> plan, effective |-> at, ended |-> Forever ]
           old == [ i \in DOMAIN subscriptions |-> Closed(subscriptions[i], at) ]
           n   == Len(subscriptions)
<1>1. /\ subscriptions' = Append(old, new) /\ subNow' = subNow
      /\ DOMAIN subscriptions = 1 .. n /\ n \in Nat
      /\ \A i \in 1 .. n : subscriptions[i] \in SubRow
  BY DEF Assign, Closed, SubInv
<1>2. new \in SubRow /\ new.ended = Forever /\ new.effective = at
  BY SubAssumption DEF SubRow, Forever
<1>3. /\ old \in Seq(SubRow) /\ Len(old) = n
      /\ \A i \in 1 .. n : old[i] = Closed(subscriptions[i], at)
  <2>1. \A i \in 1 .. n : Closed(subscriptions[i], at) \in SubRow
    BY <1>1, ClosedRow
  <2> HIDE DEF n
  <2>2. old = [ i \in 1 .. n |-> Closed(subscriptions[i], at) ]
    BY <1>1
  <2> QED BY <1>1, <2>1, <2>2
<1> HIDE DEF new, old, n
<1>4. /\ subscriptions' \in Seq(SubRow) /\ Len(subscriptions') = n + 1
      /\ subscriptions'[n + 1] = new /\ \A i \in 1 .. n : subscriptions'[i] = old[i]
  BY <1>1, <1>2, <1>3
<1>5. \A i \in 1 .. n : /\ old[i].effective = subscriptions[i].effective
                       /\ old[i].ended = IF subscriptions[i].ended = Forever THEN at
                                         ELSE subscriptions[i].ended
  BY <1>1, <1>3, ClosedRow
<1>6. ASSUME NEW i \in 1 .. n + 1
      PROVE  subscriptions'[i].ended = IF i = n + 1 THEN Forever ELSE subscriptions'[i + 1].effective
  <2>1. CASE i = n + 1
    BY <1>2, <1>4, <2>1
  <2>2. CASE i = n /\ i # n + 1
    <3>1. n \in 1 .. n
      BY <1>1, <2>2
    <3>2. subscriptions[n].ended = Forever
      BY <3>1 DEF SubInv, n
    <3> QED BY <1>1, <1>2, <1>4, <1>5, <2>2, <3>1, <3>2
  <2>3. CASE i # n /\ i # n + 1
    <3>1. i \in 1 .. n /\ i + 1 \in 1 .. n
      BY <1>1, <2>3
    <3>2. subscriptions[i].ended = subscriptions[i + 1].effective
      BY <2>3, <3>1 DEF SubInv, n
    <3>3. subscriptions[i + 1].effective \in 0 .. MaxSubTime
      BY <1>1, <3>1 DEF SubRow
    <3>4. subscriptions[i].ended # Forever
      BY <3>2, <3>3, SubAssumption DEF Forever
    <3> QED BY <1>4, <1>5, <2>3, <3>1, <3>2, <3>4
  <2> QED BY <2>1, <2>2, <2>3
<1> QED
  BY <1>1, <1>4, <1>6 DEF SubInv

LEMMA SubSteps ==
  ASSUME SubInv, [SubNext]_subVars
  PROVE  SubInv'
<1>1. CASE \E plan \in DOMAIN Plans, at \in 0 .. MaxSubTime : Assign(plan, at)
  BY <1>1, AssignStep
<1>2. CASE \E value \in OverrideValues, at \in subNow + 1 .. Forever : Override(value, at)
  BY <1>2 DEF Override, SubInv
<1>3. CASE SubTick
  BY <1>3, SubAssumption DEF SubTick, SubInv
<1>4. CASE UNCHANGED subVars
  BY <1>4 DEF subVars, SubInv
<1> QED
  BY <1>1, <1>2, <1>3, <1>4 DEF SubNext

\* In a chain of subscriptions the last that is due is in effect.
LEMMA ChainCovers == SubInv => NeverWithoutPlan
<1> SUFFICES ASSUME SubInv, NEW k \in DOMAIN subscriptions, subscriptions[k].effective <= subNow
             PROVE  Effective # {}
  BY DEF NeverWithoutPlan
<1> DEFINE n   == Len(subscriptions)
           due == { i \in 1 .. n : subscriptions[i].effective <= subNow }
           times == { subscriptions[i].effective : i \in Current }
<1>1. /\ n \in Nat /\ DOMAIN subscriptions = 1 .. n /\ subNow \in 0 .. MaxSubTime
      /\ \A i \in 1 .. n : subscriptions[i].effective \in 0 .. MaxSubTime
  <2>1. /\ n \in Nat /\ DOMAIN subscriptions = 1 .. n /\ subNow \in 0 .. MaxSubTime
        /\ \A i \in 1 .. n : subscriptions[i] \in SubRow
    BY DEF SubInv
  <2> QED BY <2>1 DEF SubRow
<1>2. PICK last \in due : \A i \in due : i <= last
  <2>1. due \subseteq 0 .. n /\ k \in due
    BY <1>1
  <2> HIDE DEF due, n
  <2> QED BY <1>1, <2>1, Greatest
<1>3. subNow < subscriptions[last].ended
  <2>1. CASE last = n
    <3>1. subscriptions[last].ended = Forever
      BY <1>2, <2>1 DEF SubInv
    <3> QED BY <1>1, <3>1, SubAssumption DEF Forever
  <2>2. CASE last # n
    <3>0. last \in 1 .. n
      BY <1>2
    <3>1. last + 1 \in 1 .. n
      <4> HIDE DEF n
      <4> QED BY <1>1, <2>2, <3>0
    <3>2. ~(subscriptions[last + 1].effective <= subNow)
      BY <1>1, <1>2, <3>1
    <3>3. subscriptions[last].ended = subscriptions[last + 1].effective
      BY <1>2, <2>2 DEF SubInv
    <3> QED BY <1>1, <3>1, <3>2, <3>3
  <2> QED BY <2>1, <2>2
<1>4. last \in Current /\ times \subseteq 0 .. MaxSubTime
  BY <1>1, <1>2, <1>3 DEF Current
<1>5. PICK t \in times : \A u \in times : u <= t
  <2>1. times # {}
    BY <1>4
  <2> HIDE DEF times
  <2> QED BY <1>4, <2>1, SubAssumption, Greatest
<1>6. PICK i \in Current : t = subscriptions[i].effective
  BY <1>5
<1>7. i \in Effective
  BY <1>5, <1>6 DEF Effective
<1> QED
  BY <1>7

\* However plans are assigned for later and then earlier again: once one was
\* due, one is in effect.
THEOREM AlwaysSomePlan == SubSpec => []NeverWithoutPlan
<1>1. SubInit => SubInv
  BY SubAssumption DEF SubInit, SubInv
<1> QED
  BY <1>1, SubSteps, ChainCovers, PTL DEF SubSpec

-----------------------------------------------------------------------------
(***************************************************************************)
(* Types of the plans: an override that holds was made before now, and of  *)
(* several the last one decides.                                           *)
(***************************************************************************)
OverrideRow == [ value : OverrideValues, starts : 0 .. MaxSubTime, expires : 0 .. Forever ]

SubTypeInv ==
  /\ SubInv /\ overrides \in Seq(OverrideRow)
  /\ \A i \in DOMAIN overrides : overrides[i].starts <= subNow

LEMMA SubTypesStep ==
  ASSUME SubTypeInv, [SubNext]_subVars
  PROVE  SubTypeInv'
<1>a. SubInv' /\ SubInv /\ subNow \in 0 .. MaxSubTime /\ MaxSubTime \in Nat
  BY SubSteps, SubAssumption DEF SubTypeInv, SubInv
<1>1. CASE \E plan \in DOMAIN Plans, at \in 0 .. MaxSubTime : Assign(plan, at)
  BY <1>a, <1>1 DEF Assign, SubTypeInv
<1>2. ASSUME NEW value \in OverrideValues, NEW at \in subNow + 1 .. Forever, Override(value, at)
      PROVE  SubTypeInv'
  <2> DEFINE row == [ value |-> value, starts |-> subNow, expires |-> at ]
  <2>1. row \in OverrideRow /\ row.starts <= subNow
    BY <1>a DEF OverrideRow, Forever
  <2>2. overrides' = Append(overrides, row) /\ overrides \in Seq(OverrideRow) /\ subNow' = subNow
    BY <1>2 DEF Override, SubTypeInv
  <2> HIDE DEF row
  <2>3. /\ overrides' \in Seq(OverrideRow)
        /\ \A i \in DOMAIN overrides' :
             \/ overrides'[i] = row
             \/ i \in DOMAIN overrides /\ overrides'[i] = overrides[i]
    <3>1. Len(overrides) \in Nat /\ DOMAIN overrides = 1 .. Len(overrides)
      BY <2>2
    <3>2. /\ overrides' \in Seq(OverrideRow) /\ DOMAIN overrides' = 1 .. Len(overrides) + 1
          /\ overrides'[Len(overrides) + 1] = row
          /\ \A i \in 1 .. Len(overrides) : overrides'[i] = overrides[i]
      BY <2>1, <2>2
    <3> QED
      BY <3>1, <3>2
  <2> QED
    BY <1>a, <2>1, <2>2, <2>3 DEF SubTypeInv
<1>3. CASE SubTick
  <2>1. ASSUME NEW i \in DOMAIN overrides PROVE overrides[i].starts <= subNow + 1
    <3>0. overrides[i] \in OverrideRow
      BY DEF SubTypeInv
    <3>1. overrides[i].starts \in 0 .. MaxSubTime
      BY <3>0 DEF OverrideRow
    <3> QED
      BY <1>a, <3>1 DEF SubTypeInv
  <2> QED
    BY <1>a, <1>3, <2>1 DEF SubTick, SubTypeInv
<1>4. CASE UNCHANGED subVars
  BY <1>a, <1>4 DEF subVars, SubTypeInv
<1> QED
  BY <1>1, <1>2, <1>3, <1>4 DEF SubNext

\* Whatever is in effect entitles to a value of an override or of a plan.
LEMMA EntitledValue ==
  ASSUME SubTypeInv, NEW i \in Effective
  PROVE  Entitled(i) \in OverrideValues \union { Plans[p] : p \in DOMAIN Plans }
<1>1. CASE Overriding = {}
  <2>1. subscriptions[i] \in SubRow
    BY DEF Effective, Current, SubTypeInv, SubInv
  <2> QED
    BY <1>1, <2>1 DEF Entitled, SubRow
<1>2. CASE Overriding # {}
  <2>1. /\ Len(overrides) \in Nat /\ Overriding \subseteq 0 .. Len(overrides)
        /\ Overriding \subseteq DOMAIN overrides
    BY DEF Overriding, SubTypeInv
  <2>2. PICK x \in Overriding : \A y \in Overriding : y <= x
    BY <1>2, <2>1, Greatest
  <2>3. Max(Overriding) \in Overriding
    <3>1. \A y \in Overriding : x >= y
      BY <2>1, <2>2
    <3> QED
      BY <3>1 DEF Max
  <2>4. overrides[Max(Overriding)] \in OverrideRow
    BY <2>1, <2>3 DEF SubTypeInv
  <2> QED
    BY <1>2, <2>4 DEF Entitled, OverrideRow
<1> QED
  BY <1>1, <1>2

\* The clock, the subscriptions and the overrides keep their types, and what a
\* subscription in effect entitles to is a value of a plan or of an override.
THEOREM PlansTyped == SubSpec => []SubTypeOK
<1>1. SubInit => SubTypeInv
  BY SubAssumption DEF SubInit, SubInv, SubTypeInv
<1>2. SubTypeInv => SubTypeOK
  <2> SUFFICES ASSUME SubTypeInv PROVE SubTypeOK
    OBVIOUS
  <2>1. ASSUME NEW i \in DOMAIN subscriptions
        PROVE  /\ subscriptions[i].plan \in DOMAIN Plans
               /\ subscriptions[i].effective \in 0 .. MaxSubTime /\ subscriptions[i].ended \in 0 .. Forever
    <3>1. subscriptions[i] \in SubRow
      BY DEF SubTypeInv, SubInv
    <3> QED
      BY <3>1 DEF SubRow
  <2>2. ASSUME NEW i \in DOMAIN overrides PROVE overrides[i].starts \in 0 .. subNow
    <3>1. overrides[i] \in OverrideRow /\ overrides[i].starts <= subNow /\ subNow \in 0 .. MaxSubTime
      BY DEF SubTypeInv, SubInv
    <3> QED
      BY <3>1, SubAssumption DEF OverrideRow
  <2> QED
    BY <2>1, <2>2, EntitledValue DEF SubTypeOK, SubTypeInv, SubInv
<1> QED
  BY <1>1, <1>2, SubTypesStep, PTL DEF SubSpec

=============================================================================

--------------------------- MODULE Subscriptions ---------------------------
(***************************************************************************)
(* The plan of one organization over time (PostgresEntitlementService):    *)
(* subscriptions that are assigned now, for later or with an earlier date, *)
(* and overrides of an entitlement for some time.                          *)
(***************************************************************************)
EXTENDS Integers, Sequences, FiniteSetsExt

CONSTANTS
  Plans,             \* plan |-> what it entitles to
  OverrideValues,    \* values of overrides
  MaxSubTime,        \* bound: the clock
  MaxAssignments,    \* bound: assignments of a plan
  MaxOverrides       \* bound: overrides

ASSUME SubAssumption == MaxSubTime \in Nat

VARIABLES
  subNow,          \* the clock
  subscriptions,   \* rows of organization_subscriptions in the order of assignment
  overrides        \* rows of entitlement_overrides in the order of creation

subVars == << subNow, subscriptions, overrides >>

Forever == MaxSubTime + 1   \* a NULL ended_at or expires_at

SubInit == subNow = 0 /\ subscriptions = << >> /\ overrides = << >>

\* Mutant: the subscription in effect ends now, and not when the new one begins.
AssignEndsNow(plan, effectiveAt) ==
  /\ Len(subscriptions) < MaxAssignments
  /\ subscriptions' =
       Append([ i \in DOMAIN subscriptions |->
                  IF subscriptions[i].ended = Forever
                  THEN [ subscriptions[i] EXCEPT !.ended = subNow ] ELSE subscriptions[i] ],
              [ plan |-> plan, effective |-> effectiveAt, ended |-> Forever ])
  /\ UNCHANGED << subNow, overrides >>

\* assign, under the organization's advisory lock: the subscription that has
\* no end gets one, and the new one none.
Assign(plan, effectiveAt) ==
  /\ Len(subscriptions) < MaxAssignments
  /\ subscriptions' =
       Append([ i \in DOMAIN subscriptions |->
                  IF subscriptions[i].ended = Forever
                  THEN [ subscriptions[i] EXCEPT !.ended = effectiveAt ] ELSE subscriptions[i] ],
              [ plan |-> plan, effective |-> effectiveAt, ended |-> Forever ])
  /\ UNCHANGED << subNow, overrides >>

\* override: it starts when it is made and may expire.
Override(value, expiresAt) ==
  /\ Len(overrides) < MaxOverrides
  /\ overrides' = Append(overrides, [ value |-> value, starts |-> subNow, expires |-> expiresAt ])
  /\ UNCHANGED << subNow, subscriptions >>

SubTick == subNow < MaxSubTime /\ subNow' = subNow + 1 /\ UNCHANGED << subscriptions, overrides >>

SubNext ==
  \/ \E plan \in DOMAIN Plans, at \in 0 .. MaxSubTime : Assign(plan, at)
  \/ \E value \in OverrideValues, at \in subNow + 1 .. Forever : Override(value, at)
  \/ SubTick

SubSpec == SubInit /\ [][SubNext]_subVars

\* The rows that effective may take: those of the latest effective_at among
\* the ones that have begun and not ended.
Current ==
  { i \in DOMAIN subscriptions : subscriptions[i].effective <= subNow
                                 /\ subNow < subscriptions[i].ended }
Effective == { i \in Current : \A j \in Current :
                 subscriptions[j].effective <= subscriptions[i].effective }

\* The overrides that hold now, of which the last made decides.
Overriding == { i \in DOMAIN overrides : overrides[i].starts <= subNow
                                         /\ subNow < overrides[i].expires }
Entitled(i) == IF Overriding = {} THEN Plans[subscriptions[i].plan]
               ELSE overrides[Max(Overriding)].value

-----------------------------------------------------------------------------
SubTypeOK ==
  /\ subNow \in 0 .. MaxSubTime
  /\ \A i \in DOMAIN subscriptions :
       /\ subscriptions[i].plan \in DOMAIN Plans
       /\ subscriptions[i].effective \in 0 .. MaxSubTime /\ subscriptions[i].ended \in 0 .. Forever
  /\ \A i \in DOMAIN overrides : overrides[i].starts \in 0 .. subNow
  /\ \A i \in Effective : Entitled(i) \in OverrideValues \union { Plans[p] : p \in DOMAIN Plans }

\* An assignment for later, or one with an earlier date, never leaves the
\* organization without a plan, and so with the limits of the foundation plan:
\* once an assigned plan was due, one is in effect (assign, effective).
NeverWithoutPlan ==
  (\E i \in DOMAIN subscriptions : subscriptions[i].effective <= subNow) => Effective # {}

=============================================================================

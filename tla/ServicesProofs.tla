--------------------------- MODULE ServicesProofs ---------------------------
(***************************************************************************)
(* The services side by side: what the components promise of their tables  *)
(* holds of them together, since a step of one leaves the others alone.    *)
(***************************************************************************)
EXTENDS MCServices, ResourceProofs, BillingProofs, TenantProofs, LogProofs

-----------------------------------------------------------------------------
(***************************************************************************)
(* Members. A change names a user and a role that requests assign, and its *)
(* locks are on rows of users.                                             *)
(***************************************************************************)
LEMMA NoChangeTyped == NoChange \in ChangeType
<1>1. PICK o \in Owners : o \in Users
  BY MembershipAssumption
<1>2. (CHOOSE u \in Users : TRUE) \in Users
  BY <1>1
<1> QED
  BY <1>2 DEF NoChange, ChangeType

LEMMA MembersStart == MembershipInit => MembershipTypeOK
BY NoChangeTyped DEF MembershipInit, MembershipTypeOK, ROLES

\* A change that starts, goes on or ends leaves the rows alone.
LEMMA ChangeTyped ==
  ASSUME MembershipTypeOK, NEW c \in Changes, NEW r \in ChangeType,
         change' = [ change EXCEPT ![c] = r ], UNCHANGED << role, active, version >>
  PROVE  MembershipTypeOK'
BY DEF MembershipTypeOK

LEMMA ChangesStay ==
  ASSUME MembershipTypeOK, NEW c \in Changes,
         \/ \E u \in Users, to \in GrantedRoles \union { "removed" } : BeginChange(c, u, to)
         \/ LockTarget(c) \/ LockOwner(c) \/ CountOwners(c) \/ Abort(c)
  PROVE  MembershipTypeOK'
<1>1. PICK old \in ChangeType : old = change[c]
  BY DEF MembershipTypeOK
<1>2. ActiveOwners \subseteq Users
  BY DEF ActiveOwners
<1>3. UNCHANGED << role, active, version >>
  BY DEF BeginChange, LockTarget, LockOwner, CountOwners, Abort
<1>4. CASE End(c)
  BY <1>3, <1>4, NoChangeTyped, ChangeTyped DEF End
<1>5. ASSUME NEW u \in Users, NEW to \in GrantedRoles \union { "removed" }, BeginChange(c, u, to)
      PROVE  MembershipTypeOK'
  <2>1. PICK r : r = [ NoChange EXCEPT !.phase = "target", !.target = u, !.to = to, !.expected = version[u] ]
    OBVIOUS
  <2>2. version[u] \in Nat
    BY DEF MembershipTypeOK
  <2>3. r \in ChangeType
    BY <2>1, <2>2, NoChangeTyped DEF ChangeType
  <2> QED BY <1>3, <1>5, <2>1, <2>3, ChangeTyped DEF BeginChange
<1>6. ASSUME LockTarget(c), ~ End(c) PROVE MembershipTypeOK'
  <2>1. PICK phase \in { "owners", "update" } : phase = IF LosesOwner(c) THEN "owners" ELSE "update"
    OBVIOUS
  <2>2. PICK unread \in SUBSET Users : unread = IF LosesOwner(c) THEN ActiveOwners ELSE {}
    BY <1>2
  <2>3. PICK r : r = [ old EXCEPT !.phase = phase, !.held = { old.target }, !.unread = unread ]
    OBVIOUS
  <2>4. r \in ChangeType
    BY <2>3 DEF ChangeType
  <2>5. change' = [ change EXCEPT ![c].phase = phase, ![c].held = { old.target }, ![c].unread = unread ]
    BY <1>1, <1>6, <2>1, <2>2 DEF LockTarget
  <2>6. change' = [ change EXCEPT ![c] = r ]
    BY <1>1, <2>3, <2>5
  <2> QED BY <1>3, <2>4, <2>6, ChangeTyped
<1>7. ASSUME LockOwner(c) PROVE MembershipTypeOK'
  <2>1. PICK u \in old.unread :
          change' = [ change EXCEPT ![c].unread = @ \ { u }, ![c].held = @ \union { u },
                                    ![c].found = @ \union ({ u } \intersect ActiveOwners) ]
    BY <1>1, <1>7 DEF LockOwner
  <2>2. PICK r : r = [ old EXCEPT !.unread = @ \ { u }, !.held = @ \union { u },
                                  !.found = @ \union ({ u } \intersect ActiveOwners) ]
    OBVIOUS
  <2>3. r \in ChangeType
    BY <1>2, <2>2 DEF ChangeType
  <2>4. change' = [ change EXCEPT ![c] = r ]
    BY <1>1, <2>1, <2>2
  <2> QED BY <1>3, <2>3, <2>4, ChangeTyped
<1>8. ASSUME CountOwners(c), ~ End(c) PROVE MembershipTypeOK'
  <2>1. PICK r : r = [ old EXCEPT !.phase = "update" ]
    OBVIOUS
  <2>2. r \in ChangeType
    BY <2>1 DEF ChangeType
  <2>3. change' = [ change EXCEPT ![c] = r ]
    BY <1>1, <1>8, <2>1 DEF CountOwners
  <2> QED BY <1>3, <2>2, <2>3, ChangeTyped
<1> QED
  BY <1>4, <1>5, <1>6, <1>7, <1>8 DEF Abort

LEMMA RowsStay ==
  ASSUME MembershipTypeOK,
         \/ \E c \in Changes : UpdateMember(c)
         \/ \E u \in Users, to \in GrantedRoles : AddMember(u, to)
  PROVE  MembershipTypeOK'
<1>1. GrantedRoles \subseteq ROLES
  BY MembershipAssumption
<1>2. ASSUME NEW c \in Changes, UpdateMember(c) PROVE MembershipTypeOK'
  <2>1. PICK u \in Users, to \in GrantedRoles \union { "removed" } :
          u = change[c].target /\ to = change[c].to
    BY DEF MembershipTypeOK, ChangeType
  <2>2. /\ role' = IF to = "removed" THEN role ELSE [ role EXCEPT ![u] = to ]
        /\ active' = IF to = "removed" THEN [ active EXCEPT ![u] = FALSE ] ELSE active
        /\ version' = [ version EXCEPT ![u] = version[u] + 1 ]
        /\ change' = [ change EXCEPT ![c] = NoChange ]
    BY <1>2, <2>1 DEF UpdateMember, End
  <2> QED BY <1>1, <2>1, <2>2, NoChangeTyped DEF MembershipTypeOK
<1>3. ASSUME NEW u \in Users, NEW to \in GrantedRoles, AddMember(u, to) PROVE MembershipTypeOK'
  BY <1>1, <1>3 DEF AddMember, MembershipTypeOK
<1> QED
  BY <1>2, <1>3

LEMMA MembersStep == MembershipTypeOK /\ [MembershipNext]_membershipVars => MembershipTypeOK'
<1> SUFFICES ASSUME MembershipTypeOK, [MembershipNext]_membershipVars PROVE MembershipTypeOK'
  OBVIOUS
<1>1. CASE UNCHANGED membershipVars
  BY <1>1 DEF membershipVars, MembershipTypeOK
<1> QED
  BY <1>1, ChangesStay, RowsStay DEF MembershipNext, ChangeStep

\* The members' rows and the changes under way keep their types, for any users,
\* roles and number of concurrent changes.
THEOREM MembersTyped == MembershipSpec => []MembershipTypeOK
BY MembersStart, MembersStep, PTL DEF MembershipSpec

-----------------------------------------------------------------------------
(***************************************************************************)
(* All of them. Each component runs as it does alone.                      *)
(***************************************************************************)
LEMMA ServicesStart ==
  ServicesInit =>
    /\ part \in Parts
    /\ MembershipInit /\ AuditInit /\ QuotaInit /\ SubInit /\ LedgerInit /\ SecretInit
    /\ RevalidationInit /\ PreviewInit /\ StreamInit /\ DraftInit /\ ExceptionInit
    /\ GitInit /\ DomainInit
BY DEF ServicesInit

LEMMA ServicesStep ==
  [ServicesNext]_servicesVars =>
    /\ part' = part
    /\ [MembershipNext]_membershipVars /\ [AuditNext]_auditVars /\ [QuotaNext]_quotaVars
    /\ [SubNext]_subVars /\ [LedgerNext]_ledgerVars /\ [SecretNext]_secretVars
    /\ [RevalidationNext]_revalidationVars /\ [PreviewNext]_previewVars
    /\ [StreamNext]_streamVars /\ [DraftNext]_draftVars /\ [ExceptionNext]_exceptionVars
    /\ [GitNext]_gitVars /\ [DomainNext]_domainVars
BY DEF ServicesNext, servicesVars

LEMMA ServicesRunAlone ==
  ServicesSpec =>
    /\ [](part \in Parts)
    /\ MembershipSpec /\ AuditSpec /\ QuotaSpec /\ SubSpec /\ LedgerSpec /\ SecretSpec
    /\ RevalidationSpec /\ PreviewSpec /\ StreamRuns /\ DraftSpec /\ ExceptionSpec
    /\ GitSpec /\ DomainSpec
<1>1. part \in Parts /\ part' = part => (part \in Parts)'
  OBVIOUS
<1> QED
  BY <1>1, ServicesStart, ServicesStep, PTL
  DEF ServicesSpec, MembershipSpec, AuditSpec, QuotaSpec, SubSpec, LedgerSpec, SecretSpec,
      RevalidationSpec, PreviewSpec, StreamRuns, DraftSpec, ExceptionSpec, GitSpec, DomainSpec

\* Every table, every call under way and every history keeps its type, for every
\* value of the constants of the thirteen components.
THEOREM ServicesTypeCorrect == ServicesSpec => []ServicesTypeOK
<1>1. /\ part \in Parts
      /\ MembershipTypeOK /\ AuditTypeOK /\ QuotaTypeOK /\ SubTypeOK /\ LedgerTypeOK
      /\ SecretTypeOK /\ RevalidationTypeOK /\ PreviewTypeOK /\ StreamTypeOK /\ DraftTypeOK
      /\ ExceptionTypeOK /\ GitTypeOK /\ DomainTypeOK
      => ServicesTypeOK
  BY Zenon DEF Parts, ServicesTypeOK
<1> QED
  BY <1>1, ServicesRunAlone, MembersTyped, AuditsTyped, QuotasTyped, PlansTyped, LedgerTyped,
     SecretsTyped, RevalidationTyped, PreviewsTyped, StreamRunsTyped, DraftsTyped,
     ExceptionsTyped, GitTyped, DomainsTyped, PTL

-----------------------------------------------------------------------------
(***************************************************************************)
(* What each component keeps alone, it keeps beside the others.            *)
(***************************************************************************)
LogsSound  == AuditVerifies /\ EffectsAudited /\ ShownInOrder /\ SlotsCounted /\ NothingOverwritten
MoneySound == WithinLimit /\ NeverWithoutPlan /\ CountedOnce
RunsSound  == DeploysConfirmed /\ NothingOutdatedRuns /\ RevisionsDeployed /\ ClosingHasJob
OwnedSound == InForce /\ ReportedOnce /\ TenantsApart /\ ActiveWasProven

\* Logs and drafts: the chain verifies and holds the effects' events, the view
\* shows rows in order, streams are counted, nothing unseen is overwritten.
LEMMA ServicesLogs == ServicesSpec => []LogsSound
BY ServicesRunAlone, AuditAlwaysVerifies, EffectsAlwaysAudited, StreamRunsSound,
   NothingIsOverwritten, PTL DEF LogsSound

\* Billing: no admission beyond the limit, some plan at every instant, usage
\* counted once.
LEMMA ServicesBilling == ServicesSpec => []MoneySound
BY ServicesRunAlone, QuotaKept, AlwaysSomePlan, UsageCountedOnce, PTL DEF MoneySound

\* What deployments rest on: confirmed secrets, nothing withdrawn, a deployment
\* for every revision of a preview and a job for every preview that closes.
LEMMA ServicesDeploy == ServicesSpec => []RunsSound
BY ServicesRunAlone, OnlyConfirmedIsDeployed, NothingOutdatedIsRun, RevisionsAlwaysDeployed,
   ClosingAlwaysHasJob, PTL DEF RunsSound

\* What tenants own: exceptions in force and reported once, repositories of one
\* organization, hostnames that were proven.
LEMMA ServicesOwned == ServicesSpec => []OwnedSound
BY ServicesRunAlone, ExceptionsInForce, ExceptionsReported, TenantsKeptApart, DomainsProven,
   PTL DEF OwnedSound

\* The run's specification keeps what each component's does: every invariant
\* that the run checks but that of the members, whose proof is beside that of
\* the approvals.
THEOREM ServicesSound ==
  ServicesSpec => [](LogsSound /\ MoneySound /\ RunsSound /\ OwnedSound)
BY ServicesLogs, ServicesBilling, ServicesDeploy, ServicesOwned, PTL

\* What never goes back: a reservation that ended, a repository that was
\* disconnected; and the chain is an audit log that only grows.
THEOREM ServicesForGood ==
  ServicesSpec => NeverTakenBack /\ DisconnectedForGood /\ ImplementsAuditLog
BY ServicesRunAlone, ReservationsEndOnce, StaysDisconnected, AuditLogImplemented, PTL

=============================================================================

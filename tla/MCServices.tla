----------------------------- MODULE MCServices -----------------------------
(***************************************************************************)
(* The services around the deployments, checked in one run. They share no  *)
(* state, so their interleavings would show nothing: Init chooses the one  *)
(* that acts and the others stay as they start, so that the states of the  *)
(* run are the sum of theirs and not the product.                          *)
(***************************************************************************)
EXTENDS Membership, AuditChain, Quotas, Subscriptions, UsageLedger, Secrets, Revalidation,
        Previews, EventStream, Drafts, PolicyExceptions, GitConnections, Domains, TLC

VARIABLE part

Parts == { "members", "audit", "quotas", "plans", "usage", "secrets", "revalidation",
           "previews", "events", "drafts", "exceptions", "git", "domains" }

\* Two plans, the foundation's and a larger one.
MCPlans == "foundation" :> 1 @@ "team" :> 5

\* A pull request that is opened and closed; a user deploys another commit.
MCPrEvents == "opened" :> [ action |-> "deploy", commit |-> "c1" ] @@
              "closed" :> [ action |-> "close",  commit |-> "c1" ]

MCWindows == { << 0, 1 >>, << 1, 2 >>, << 0, 2 >> }

MCHooks == { [ id |-> "1", about |-> "push" ], [ id |-> "2", about |-> "deleted" ],
             [ id |-> "3", about |-> "repository deleted" ] }

\* What acts side by side goes by the same two names in every service, the rows
\* and the persons by two others: exchanging either pair changes no behaviour.
Interchangeable == Permutations(SecretClients) \union Permutations(Tenants)

ServicesInit ==
  /\ part \in Parts
  /\ MembershipInit /\ AuditInit /\ QuotaInit /\ SubInit /\ LedgerInit /\ SecretInit
  /\ RevalidationInit /\ PreviewInit /\ StreamInit /\ DraftInit /\ ExceptionInit /\ GitInit /\ DomainInit
  \* One start for those that do not act.
  /\ part # "quotas" => planLimit = 1
  /\ part # "revalidation" => ~protected
  /\ part # "previews" => ~forkedPr
  /\ part # "events" => events = << "state" >>

ServicesNext ==
  /\ UNCHANGED part
  /\ IF part = "members"      THEN MembershipNext   ELSE UNCHANGED membershipVars
  /\ IF part = "audit"        THEN AuditNext        ELSE UNCHANGED auditVars
  /\ IF part = "quotas"       THEN QuotaNext        ELSE UNCHANGED quotaVars
  /\ IF part = "plans"        THEN SubNext          ELSE UNCHANGED subVars
  /\ IF part = "usage"        THEN LedgerNext       ELSE UNCHANGED ledgerVars
  /\ IF part = "secrets"      THEN SecretNext       ELSE UNCHANGED secretVars
  /\ IF part = "revalidation" THEN RevalidationNext ELSE UNCHANGED revalidationVars
  /\ IF part = "previews"     THEN PreviewNext      ELSE UNCHANGED previewVars
  /\ IF part = "events"       THEN StreamNext       ELSE UNCHANGED streamVars
  /\ IF part = "drafts"       THEN DraftNext        ELSE UNCHANGED draftVars
  /\ IF part = "exceptions"   THEN ExceptionNext    ELSE UNCHANGED exceptionVars
  /\ IF part = "git"          THEN GitNext          ELSE UNCHANGED gitVars
  /\ IF part = "domains"      THEN DomainNext       ELSE UNCHANGED domainVars

servicesVars == << part, membershipVars, auditVars, quotaVars, subVars, ledgerVars,
                   secretVars, revalidationVars, previewVars, streamVars, draftVars, exceptionVars,
                   gitVars, domainVars >>

ServicesSpec == ServicesInit /\ [][ServicesNext]_servicesVars

\* The types of the tables, of what is in flight and of what is remembered.
ServicesTypeOK ==
  CASE part = "members"      -> MembershipTypeOK
    [] part = "audit"        -> AuditTypeOK
    [] part = "quotas"       -> QuotaTypeOK
    [] part = "plans"        -> SubTypeOK
    [] part = "usage"        -> LedgerTypeOK
    [] part = "secrets"      -> SecretTypeOK
    [] part = "revalidation" -> RevalidationTypeOK
    [] part = "previews"     -> PreviewTypeOK
    [] part = "events"       -> StreamTypeOK
    [] part = "drafts"       -> DraftTypeOK
    [] part = "exceptions"   -> ExceptionTypeOK
    [] part = "git"          -> GitTypeOK
    [] part = "domains"      -> DomainTypeOK

=============================================================================

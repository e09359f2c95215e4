------------------------------- MODULE Domains -------------------------------
(***************************************************************************)
(* Custom domains: organizations that claim one hostname.                  *)
(*                                                                         *)
(* A claim is verified by its challenge's token before the challenge       *)
(* expires, activated with a route, and removed.  The transactions read    *)
(* the row without locking it and their updates name only its id, so that  *)
(* what was read may have changed when they write.  Two partial unique     *)
(* indexes leave a hostname one domain and one route that are not removed. *)
(***************************************************************************)
EXTENDS Integers, FiniteSets, Functions

CONSTANTS Claims,          \* rows of custom_domains for the hostname, one per organization
          DomainRequests   \* requests under way at once

VARIABLES domains,       \* the rows
          challenges,    \* domain_verification_challenges: absent, open or expired
          routes,        \* platform_routes for the hostname, by the claim they are for
          domainCalls,   \* what each request read and does next
          proven         \* history: claims whose token was presented in time

domainVars == <<domains, challenges, routes, domainCalls, proven>>

DomainStatuses == {"unclaimed", "pending_verification", "verified", "activating",
                   "certificate_pending", "active", "removed"}
IdleDomainCall == [claim |-> "none", next |-> "none", routed |-> FALSE]

DomainInit ==
    /\ domains = [d \in Claims |-> [status |-> "unclaimed", routed |-> FALSE]]
    /\ challenges = [d \in Claims |-> "absent"]
    /\ routes = [d \in Claims |-> "absent"]
    /\ domainCalls = [r \in DomainRequests |-> IdleDomainCall]
    /\ proven = {}

LiveClaim(d) == domains[d].status \notin {"unclaimed", "removed"}

\* domains_live_hostname_idx and routes_live_hostname_idx: what a write may do
HostFree(d) == \A e \in Claims \ {d} : ~LiveClaim(e)
RouteFree == \A e \in Claims : routes[e] # "live"

\* the update of a row by id, whatever its status has become
SetStatus(d, status) == domains' = [domains EXCEPT ![d].status = status]

BeginDomain(r, d, next) ==
    /\ domainCalls[r] = IdleDomainCall /\ LiveClaim(d)
    /\ domainCalls' = [domainCalls EXCEPT ![r] =
           [claim |-> d, next |-> next, routed |-> domains[d].routed]]

ThenDo(r, next) == domainCalls' = [domainCalls EXCEPT ![r].next = next]
EndDomainCall(r) == domainCalls' = [domainCalls EXCEPT ![r] = IdleDomainCall]

-----------------------------------------------------------------------------
RequestDomain(d) ==
    /\ domains[d].status = "unclaimed" /\ HostFree(d)
    /\ SetStatus(d, "pending_verification")
    /\ challenges' = [challenges EXCEPT ![d] = "open"]
    /\ UNCHANGED <<routes, domainCalls, proven>>

ChallengeExpires(d) ==
    /\ challenges[d] = "open"
    /\ challenges' = [challenges EXCEPT ![d] = "expired"]
    /\ UNCHANGED <<domains, routes, domainCalls, proven>>

\* verifyDomain: the reads, then, with the right token, the writes
ReadChallenge(r, d) ==
    /\ challenges[d] = "open"
    /\ BeginDomain(r, d, "verify")
    /\ UNCHANGED <<domains, challenges, routes, proven>>

VerifyDomain(r) ==
    LET d == domainCalls[r].claim
    IN /\ domainCalls[r].next = "verify"
       /\ \/ HostFree(d) /\ SetStatus(d, "verified") /\ proven' = proven \cup {d}
          \/ UNCHANGED <<domains, proven>>      \* wrong token, or the index refuses
       /\ EndDomainCall(r)
       /\ UNCHANGED <<challenges, routes>>

\* Mutant: any claim that is not removed.
ActivatableUnproven(d) == LiveClaim(d)

\* activateDomain reads the domain and its route ...
Activatable(d) == domains[d].status = "verified"

ReadVerified(r, d) ==
    /\ Activatable(d)
    /\ BeginDomain(r, d, "activate")
    /\ UNCHANGED <<domains, challenges, routes, proven>>

\* ... and inserts the route unless it was there
ActivateDomain(r) ==
    LET d == domainCalls[r].claim
    IN /\ domainCalls[r].next = "activate"
       /\ IF HostFree(d) /\ (routes[d] = "live" \/ RouteFree)
          THEN /\ routes' = [routes EXCEPT ![d] = "live"]
               /\ domains' = [domains EXCEPT ![d] = [status |-> "activating", routed |-> TRUE]]
               /\ ThenDo(r, "update route")
          ELSE EndDomainCall(r) /\ UNCHANGED <<domains, routes>>
       /\ UNCHANGED <<challenges, proven>>

\* the route was applied: updateRoute writes its state by its id, also when it was
\* removed meanwhile, which makes it live again unless the index refuses
UpdateRoute(r) ==
    LET d == domainCalls[r].claim
    IN /\ domainCalls[r].next = "update route"
       /\ IF routes[d] = "live" \/ RouteFree
          THEN routes' = [routes EXCEPT ![d] = "live"] /\ ThenDo(r, "look again")
          ELSE EndDomainCall(r) /\ UNCHANGED routes
       /\ UNCHANGED <<domains, challenges, proven>>

\* setDomainStatus looks at the row, then writes
LookAgain(r) ==
    /\ domainCalls[r].next = "look again"
    /\ IF LiveClaim(domainCalls[r].claim) THEN ThenDo(r, "report") ELSE EndDomainCall(r)
    /\ UNCHANGED <<domains, challenges, routes, proven>>

ReportCertificate(r) ==
    LET d == domainCalls[r].claim
    IN /\ domainCalls[r].next = "report"
       /\ IF HostFree(d)
          THEN \E s \in {"active", "certificate_pending"} : SetStatus(d, s)
          ELSE UNCHANGED domains
       /\ EndDomainCall(r)
       /\ UNCHANGED <<challenges, routes, proven>>

\* DELETE: the route the domain was read with is removed from the cluster and
\* marked, then removeDomain reads the row again ...
ReadDomain(r, d) == BeginDomain(r, d, "remove") /\ UNCHANGED <<domains, challenges, routes, proven>>

RemoveRoute(r) ==
    LET d == domainCalls[r].claim
    IN /\ domainCalls[r].next = "remove"
       /\ routes' = IF domainCalls[r].routed THEN [routes EXCEPT ![d] = "removed"] ELSE routes
       /\ IF LiveClaim(d)
          THEN domainCalls' = [domainCalls EXCEPT ![r].next = "erase",
                                                  ![r].routed = domains[d].routed]
          ELSE EndDomainCall(r)
       /\ UNCHANGED <<domains, challenges, proven>>

\* ... and writes: challenge, route, domain
RemoveDomain(r) ==
    LET d == domainCalls[r].claim
    IN /\ domainCalls[r].next = "erase"
       /\ challenges' = [challenges EXCEPT ![d] = "absent"]
       /\ routes' = IF domainCalls[r].routed THEN [routes EXCEPT ![d] = "removed"] ELSE routes
       /\ domains' = [domains EXCEPT ![d] = [status |-> "removed", routed |-> FALSE]]
       /\ EndDomainCall(r)
       /\ UNCHANGED proven

DomainNext ==
    \/ \E d \in Claims : RequestDomain(d) \/ ChallengeExpires(d)
    \/ \E r \in DomainRequests, d \in Claims :
         ReadChallenge(r, d) \/ ReadVerified(r, d) \/ ReadDomain(r, d)
    \/ \E r \in DomainRequests : \/ VerifyDomain(r) \/ ActivateDomain(r) \/ UpdateRoute(r)
                                 \/ LookAgain(r) \/ ReportCertificate(r) \/ RemoveRoute(r) \/ RemoveDomain(r)

DomainSpec == DomainInit /\ [][DomainNext]_domainVars

-----------------------------------------------------------------------------
DomainTypeOK ==
    /\ domains \in [Claims -> [status : DomainStatuses, routed : BOOLEAN]]
    /\ challenges \in [Claims -> {"absent", "open", "expired"}]
    /\ routes \in [Claims -> {"absent", "live", "removed"}]
    /\ domainCalls \in [DomainRequests -> [claim : Claims \cup {"none"}, routed : BOOLEAN,
            next : {"none", "verify", "activate", "update route", "look again", "report",
                    "remove", "erase"}]]
    /\ proven \subseteq Claims

\* A hostname has one owner and one route at most, also when a late write brings
\* a removed claim back to life.
OneOwner ==
    /\ \A d, e \in Claims : LiveClaim(d) /\ LiveClaim(e) => d = e
    /\ \A d, e \in Claims : routes[d] = "live" /\ routes[e] = "live" => d = e

\* No claim is verified, activated or active that never presented its token in
\* time, whatever requests of the same claim overlap.
ActiveWasProven ==
    \A d \in Claims :
      domains[d].status \in {"verified", "activating", "certificate_pending", "active"} =>
        d \in proven
=============================================================================

--------------------------- MODULE GitConnections ---------------------------
(***************************************************************************)
(* The installation of the GitHub App and the repositories connected       *)
(* through it, or entered by hand, as organizations claim and disconnect   *)
(* them and as GitHub's webhooks tell of them.                             *)
(*                                                                         *)
(* GitHub delivers a webhook in any order and may repeat it; several       *)
(* handlers look the rows up, record the delivery under a unique id and    *)
(* act on the rows they had looked up.  The requests of an organization    *)
(* call GitHub between their check of a row and their write.               *)
(***************************************************************************)
EXTENDS Integers, FiniteSets, Functions

CONSTANTS Tenants,       \* organizations
          Hooks,         \* deliveries: [id |-> .., about |-> ..]
          HookHandlers,  \* webhook requests served at once
          GitRequests    \* requests of organizations served at once

ASSUME GitAssumption == "none" \notin Tenants

VARIABLES remote,        \* the installation as GitHub has it
          installation,  \* git_provider_installations: the row of its id
          repository,    \* repository_references: the row of one repository, linked
                         \* if it has an installation_id
          sent,          \* deliveries GitHub has made or will repeat
          hookIds,       \* git_webhook_deliveries
          handlers,      \* what each webhook request has looked up: the organizations
                         \* of the installation's and of the repository's row
          git,           \* what each request of an organization does next
          gitEvents,     \* git_events: the delivery, the organization and both rows
          acted          \* history: how often a delivery was acted on

gitVars == <<remote, installation, repository, sent, hookIds, handlers, git,
             gitEvents, acted>>

InstallationStates == {"active", "suspended", "revoked", "disconnected"}
NoInstallation == [org |-> "none", state |-> "none"]
NoRepository == [org |-> "none", status |-> "none", linked |-> FALSE]
NoHook == [id |-> "none", about |-> "none"]
IdleHook == [hook |-> NoHook, inst |-> "none", ref |-> "none", next |-> "none"]
IdleGitRequest == [org |-> "none", next |-> "none"]

GitInit ==
    /\ remote = "installed" /\ sent = {} /\ hookIds = {} /\ gitEvents = {}
    /\ installation = NoInstallation /\ repository = NoRepository
    /\ handlers = [h \in HookHandlers |-> IdleHook]
    /\ git = [g \in GitRequests |-> IdleGitRequest]
    /\ acted = [k \in Hooks |-> 0]

-----------------------------------------------------------------------------
(* GitHub.                                                                 *)

RemoteAfter(about) ==
    CASE about = "suspend" -> "suspended"
      [] about = "unsuspend" -> "installed"
      [] about = "deleted" -> "gone"
      [] OTHER -> remote

Emit(k) ==
    /\ k \notin sent /\ remote # "gone"
    /\ k.about = "suspend" => remote = "installed"
    /\ k.about = "unsuspend" => remote = "suspended"
    /\ k.about = "deleted" => remote = "installed"
    /\ remote' = RemoteAfter(k.about)
    /\ sent' = sent \cup {k}
    /\ UNCHANGED <<installation, repository, hookIds, handlers, git, gitEvents, acted>>

-----------------------------------------------------------------------------
(* handle(): look up, record, act.  A delivery may be made again.          *)

\* findRepositoryByProviderId only finds an active repository
LookUp(h, k) ==
    /\ handlers[h] = IdleHook /\ k \in sent
    /\ handlers' = [handlers EXCEPT ![h] =
           [hook |-> k, inst |-> installation.org,
            ref |-> IF repository.status = "active" THEN repository.org ELSE "none",
            next |-> "record"]]
    /\ UNCHANGED <<remote, installation, repository, sent, hookIds, git, gitEvents, acted>>

StateAfter(about) ==
    CASE about = "suspend" -> "suspended" [] about = "deleted" -> "revoked"
      [] OTHER -> "active"

Duplicate(k) == k.id \in hookIds

\* recordWebhookDelivery: the insert of an id that is there fails and ends the request
RecordDelivery(h) ==
    LET k == handlers[h].hook
    IN /\ handlers[h].next = "record"
       /\ IF Duplicate(k)
          THEN handlers' = [handlers EXCEPT ![h] = IdleHook] /\ UNCHANGED hookIds
          ELSE /\ hookIds' = hookIds \cup {k.id}
               /\ handlers' = [handlers EXCEPT ![h].next = "act"]
       /\ UNCHANGED <<remote, installation, repository, sent, git, gitEvents, acted>>

\* setInstallationStateByProvider, updateProviderRepository, recordGitEvent
ActOnHook(h) ==
    LET q == handlers[h]
        about == q.hook.about
    IN /\ q.next = "act"
       /\ installation' = IF about \in {"suspend", "unsuspend", "deleted"}
                             /\ installation # NoInstallation
                          THEN [installation EXCEPT !.state = StateAfter(about)]
                          ELSE installation
       /\ repository' = IF about = "repository deleted" /\ q.ref # "none"
                       THEN [repository EXCEPT !.status = "disconnected"] ELSE repository
       /\ gitEvents' = IF about = "push" /\ q.ref # "none" /\ q.ref = q.inst
                       THEN gitEvents \cup {[hook |-> q.hook.id, org |-> q.ref]}
                       ELSE gitEvents
       /\ acted' = [acted EXCEPT ![q.hook] = @ + 1]
       /\ handlers' = [handlers EXCEPT ![h] = IdleHook]
       /\ UNCHANGED <<remote, sent, hookIds, git>>

-----------------------------------------------------------------------------
(* Requests of organizations.                                              *)

BeginGit(g, o, next) ==
    /\ git[g] = IdleGitRequest
    /\ git' = [git EXCEPT ![g] = [org |-> o, next |-> next]]
    /\ UNCHANGED <<remote, installation, repository, sent, hookIds, handlers, gitEvents, acted>>

EndGit(g) == git' = [git EXCEPT ![g] = IdleGitRequest]

\* the callback of the installation: GitHub knows it and it is not suspended
Callback(g, o) == remote = "installed" /\ BeginGit(g, o, "claim")

\* Mutant: the upsert has no condition.
ClaimableByAny(o) == TRUE

\* createInstallation: the row of another organization is left alone
Claimable(o) == installation.org \in {"none", o}

ClaimInstallation(g) ==
    /\ git[g].next = "claim"
    /\ installation' = IF Claimable(git[g].org)
                       THEN [org |-> git[g].org, state |-> "active"] ELSE installation
    /\ EndGit(g)
    /\ UNCHANGED <<remote, repository, sent, hookIds, handlers, gitEvents, acted>>

\* requireInstallation
Available(o) == installation = [org |-> o, state |-> "active"]

\* connecting a repository: GitHub is asked for it after the first check
ConnectRepository(g, o) == Available(o) /\ remote = "installed" /\ BeginGit(g, o, "insert")

\* connectProviderRepository and disconnectInstallation look again, then write
Recheck(g) ==
    /\ git[g].next \in {"insert", "disconnect"}
    /\ IF Available(git[g].org)
       THEN git' = [git EXCEPT ![g].next = IF @ = "insert" THEN "write" ELSE "both rows"]
       ELSE EndGit(g)
    /\ UNCHANGED <<remote, installation, repository, sent, hookIds, handlers, gitEvents, acted>>

\* Mutant: the insert takes over a row that was disconnected.
Reconnectable == repository.status # "active"

\* a repository that was ever connected has a row, and the insert fails
Unconnected == repository = NoRepository

InsertReference(g) ==
    /\ git[g].next = "write"
    /\ repository' = IF Unconnected
                    THEN [org |-> git[g].org, status |-> "active", linked |-> TRUE] ELSE repository
    /\ EndGit(g)
    /\ UNCHANGED <<remote, installation, sent, hookIds, handlers, gitEvents, acted>>

\* createRepositoryReference: an organization enters the repository by its
\* number, without an installation and without a question to GitHub
CreateReference(o) ==
    /\ Unconnected
    /\ repository' = [org |-> o, status |-> "active", linked |-> FALSE]
    /\ UNCHANGED <<remote, installation, sent, hookIds, handlers, git, gitEvents, acted>>

DisconnectRepository(o) ==
    /\ repository.org = o /\ repository.status = "active"
    /\ repository' = [repository EXCEPT !.status = "disconnected"]
    /\ UNCHANGED <<remote, installation, sent, hookIds, handlers, git, gitEvents, acted>>

\* disconnecting the installation: GitHub first, then both tables together; of
\* the repositories those of the installation and the organization
Disconnect(g, o) == Available(o) /\ BeginGit(g, o, "uninstall")

Uninstall(g) ==
    /\ git[g].next = "uninstall"
    /\ IF remote = "gone" THEN EndGit(g) ELSE git' = [git EXCEPT ![g].next = "disconnect"]
    /\ remote' = "gone"
    /\ sent' = IF remote = "gone" THEN sent
               ELSE sent \cup {k \in Hooks : k.about = "deleted"}
    /\ UNCHANGED <<installation, repository, hookIds, handlers, gitEvents, acted>>

DisconnectRows(g) ==
    /\ git[g].next = "both rows"
    /\ installation' = [installation EXCEPT !.state = "disconnected"]
    /\ repository' = IF repository.linked /\ repository.org = git[g].org
                    THEN [repository EXCEPT !.status = "disconnected"] ELSE repository
    /\ EndGit(g)
    /\ UNCHANGED <<remote, sent, hookIds, handlers, gitEvents, acted>>

\* a process that dies leaves its requests unfinished
RequestDies(g) ==
    /\ git[g] # IdleGitRequest /\ EndGit(g)
    /\ UNCHANGED <<remote, installation, repository, sent, hookIds, handlers, gitEvents, acted>>

HookHandlerDies(h) ==
    /\ handlers[h] # IdleHook
    /\ handlers' = [handlers EXCEPT ![h] = IdleHook]
    /\ UNCHANGED <<remote, installation, repository, sent, hookIds, git, gitEvents, acted>>

GitNext ==
    \/ \E k \in Hooks : Emit(k) \/ \E h \in HookHandlers : LookUp(h, k)
    \/ \E h \in HookHandlers : RecordDelivery(h) \/ ActOnHook(h) \/ HookHandlerDies(h)
    \/ \E o \in Tenants : CreateReference(o) \/ DisconnectRepository(o)
    \/ \E o \in Tenants, g \in GitRequests :
         Callback(g, o) \/ ConnectRepository(g, o) \/ Disconnect(g, o)
    \/ \E g \in GitRequests : \/ ClaimInstallation(g) \/ Recheck(g) \/ InsertReference(g)
                              \/ Uninstall(g) \/ DisconnectRows(g) \/ RequestDies(g)

GitSpec == GitInit /\ [][GitNext]_gitVars

-----------------------------------------------------------------------------
GitTypeOK ==
    LET Installed == [org : Tenants, state : InstallationStates] \cup {NoInstallation}
        Referenced == [org : Tenants, status : {"active", "disconnected"}, linked : BOOLEAN]
                      \cup {NoRepository}
    IN /\ remote \in {"installed", "suspended", "gone"} /\ sent \subseteq Hooks
       /\ installation \in Installed /\ repository \in Referenced
       /\ hookIds \subseteq {k.id : k \in Hooks}
       /\ handlers \in [HookHandlers -> [hook : Hooks \cup {NoHook}, inst : Tenants \cup {"none"},
                                         ref : Tenants \cup {"none"}, next : {"none", "record", "act"}]]
       /\ git \in [GitRequests -> [org : Tenants \cup {"none"},
                    next : {"none", "claim", "insert", "write", "uninstall", "disconnect", "both rows"}]]
       /\ gitEvents \subseteq [hook : {k.id : k \in Hooks}, org : Tenants]
       /\ acted \in [Hooks -> Nat]

\* A repository connected through the installation belongs to its organization,
\* whoever claims the installation while webhooks are handled, and no event is
\* recorded unless the row, entered by hand or not, and the installation agree on
\* the organization (createInstallation, connectProviderRepository, webhooks.js).
\* A row that was entered by hand may be of any organization.
TenantsApart ==
    /\ repository.linked => repository.org = installation.org
    /\ \A e \in gitEvents : e.org = installation.org /\ e.org = repository.org

\* A delivery is acted on once at most, however often and to however many
\* handlers GitHub delivers it (recordWebhookDelivery).
ActedOnce == \A k \in Hooks : acted[k] <= 1

\* What was disconnected stays so: no late or repeated webhook and no request
\* under way gives the platform the repository back.
DisconnectedForGood == [][repository.status = "disconnected" => repository' = repository]_gitVars
=============================================================================

---------------------------- MODULE TenantProofs ----------------------------
(***************************************************************************)
(* What belongs to one organization and no other: the installation of the  *)
(* GitHub App with its repository, a hostname, an exception that somebody  *)
(* else has to approve, and the previews of a pull request.                *)
(***************************************************************************)
EXTENDS GitConnections, Domains, PolicyExceptions, Previews, SequenceTheorems, TLAPS

-----------------------------------------------------------------------------
(***************************************************************************)
(* GitHub. The organization of the installation never changes once there   *)
(* is one, so whatever a request or a handler has read of it stays true.   *)
(***************************************************************************)
Installed  == [ org : Tenants, state : InstallationStates ] \union { NoInstallation }
Referenced ==
  [ org : Tenants, status : { "active", "disconnected" }, linked : BOOLEAN ] \union { NoRepository }

HookTx == [ hook : Hooks \union { NoHook }, inst : Tenants \union { "none" },
            ref : Tenants \union { "none" }, next : { "none", "record", "act" } ]
GitTx  == [ org : Tenants \union { "none" },
            next : { "none", "claim", "insert", "write", "uninstall", "disconnect", "both rows" } ]

\* What a request and a handler know.
GitKnows(q) ==
  /\ q.next # "none" => q.org \in Tenants
  /\ q.next \in { "insert", "write", "uninstall", "disconnect", "both rows" } => q.org = installation.org

HookKnows(q) ==
  /\ q.next # "none" => q.hook \in Hooks
  /\ q.inst # "none" => q.inst = installation.org
  /\ q.ref # "none" => q.ref = repository.org

GitRows ==
  /\ installation \in Installed /\ repository \in Referenced
  /\ gitEvents \subseteq [ hook : { k.id : k \in Hooks }, org : Tenants ]
  /\ TenantsApart

GitInv ==
  /\ GitRows
  /\ handlers \in [ HookHandlers -> HookTx ] /\ \A h \in HookHandlers : HookKnows(handlers[h])
  /\ git \in [ GitRequests -> GitTx ] /\ \A g \in GitRequests : GitKnows(git[g])

\* The rows keep their organization: what a step does to them.
OrgsKept ==
  /\ installation # NoInstallation => installation'.org = installation.org
  /\ installation' \in Installed
  /\ repository # NoRepository => /\ repository'.org = repository.org
                                  /\ repository'.linked = repository.linked
  /\ repository' \in Referenced

LEMMA Nobody ==
  /\ NoInstallation \in Installed /\ NoInstallation.org = "none"
  /\ NoRepository \in Referenced /\ NoRepository.org = "none" /\ "none" \notin Tenants
  /\ \A i \in Installed : i = NoInstallation <=> i.org = "none"
  /\ \A i \in Installed : i # NoInstallation => i.org \in Tenants /\ i.state \in InstallationStates
  /\ \A r \in Referenced : r = NoRepository <=> r.org = "none"
  /\ \A r \in Referenced : r # NoRepository => r.org \in Tenants /\ r.status \in { "active", "disconnected" }
  /\ IdleHook \in HookTx /\ IdleHook.next = "none" /\ IdleHook.inst = "none"
  /\ IdleHook.ref = "none"
  /\ IdleGitRequest \in GitTx /\ IdleGitRequest.next = "none"
<1>1. /\ NoInstallation \in Installed /\ NoInstallation.org = "none"
      /\ NoRepository \in Referenced /\ NoRepository.org = "none" /\ "none" \notin Tenants
  BY GitAssumption DEF Installed, Referenced, NoInstallation, NoRepository
<1>2. \A i \in Installed : i # NoInstallation => i.org \in Tenants /\ i.state \in InstallationStates
  BY DEF Installed
<1>3. \A r \in Referenced : r # NoRepository => r.org \in Tenants /\ r.status \in { "active", "disconnected" }
  BY DEF Referenced
<1>4. /\ IdleHook \in HookTx /\ IdleHook.next = "none" /\ IdleHook.inst = "none"
      /\ IdleHook.ref = "none"
  BY <1>1 DEF IdleHook, HookTx
<1>5. IdleGitRequest \in GitTx /\ IdleGitRequest.next = "none"
  BY DEF IdleGitRequest, GitTx
<1> QED
  BY <1>1, <1>2, <1>3, <1>4, <1>5

\* A handler or a request that starts, goes on or ends.
LEMMA HookChanges ==
  ASSUME GitInv, OrgsKept, NEW h \in HookHandlers, NEW q \in HookTx, HookKnows(q)',
         handlers' = [ handlers EXCEPT ![h] = q ]
  PROVE  handlers' \in [ HookHandlers -> HookTx ] /\ \A b \in HookHandlers : HookKnows(handlers[b])'
<1>1. /\ handlers' \in [ HookHandlers -> HookTx ] /\ handlers'[h] = q
      /\ \A b \in HookHandlers \ { h } : handlers'[b] = handlers[b]
  BY DEF GitInv
<1>2. ASSUME NEW b \in HookHandlers, b # h PROVE HookKnows(handlers[b])'
  <2>1. HookKnows(handlers[b]) /\ handlers'[b] = handlers[b] /\ handlers[b] \in HookTx
    BY <1>1, <1>2 DEF GitInv
  <2> QED
    BY <2>1, Nobody DEF HookKnows, OrgsKept, GitInv, GitRows, HookTx
<1> QED
  BY <1>1, <1>2

LEMMA HooksWait ==
  ASSUME GitInv, OrgsKept, handlers' = handlers
  PROVE  handlers' \in [ HookHandlers -> HookTx ] /\ \A b \in HookHandlers : HookKnows(handlers[b])'
<1>1. ASSUME NEW b \in HookHandlers PROVE HookKnows(handlers[b])'
  <2>1. HookKnows(handlers[b]) /\ handlers[b] \in HookTx
    BY DEF GitInv
  <2> QED
    BY <2>1, Nobody DEF HookKnows, OrgsKept, GitInv, GitRows, HookTx
<1> QED
  BY <1>1 DEF GitInv

LEMMA RequestChanges ==
  ASSUME GitInv, OrgsKept, NEW g \in GitRequests, NEW q \in GitTx, GitKnows(q)',
         git' = [ git EXCEPT ![g] = q ]
  PROVE  git' \in [ GitRequests -> GitTx ] /\ \A b \in GitRequests : GitKnows(git[b])'
<1>1. /\ git' \in [ GitRequests -> GitTx ] /\ git'[g] = q
      /\ \A b \in GitRequests \ { g } : git'[b] = git[b]
  BY DEF GitInv
<1>2. ASSUME NEW b \in GitRequests, b # g PROVE GitKnows(git[b])'
  <2>1. GitKnows(git[b]) /\ git'[b] = git[b]
    BY <1>1, <1>2 DEF GitInv
  <2> QED
    BY <2>1, Nobody DEF GitKnows, OrgsKept, GitInv, GitRows
<1> QED
  BY <1>1, <1>2

LEMMA RequestsWait ==
  ASSUME GitInv, OrgsKept, git' = git
  PROVE  git' \in [ GitRequests -> GitTx ] /\ \A b \in GitRequests : GitKnows(git[b])'
<1>1. ASSUME NEW b \in GitRequests PROVE GitKnows(git[b])'
  <2>1. GitKnows(git[b])
    BY DEF GitInv
  <2> QED
    BY <2>1, Nobody DEF GitKnows, OrgsKept, GitInv, GitRows
<1> QED
  BY <1>1 DEF GitInv

\* The rows with another state or status.
LEMMA RowsWritten ==
  /\ \A i \in Installed : i # NoInstallation =>
       \A s \in InstallationStates :
         [ i EXCEPT !.state = s ] \in Installed /\ [ i EXCEPT !.state = s ].org = i.org
  /\ \A r \in Referenced : r # NoRepository =>
       /\ [ r EXCEPT !.status = "disconnected" ] \in Referenced
       /\ [ r EXCEPT !.status = "disconnected" ].org = r.org
       /\ [ r EXCEPT !.status = "disconnected" ].linked = r.linked
  /\ \A r \in Referenced : r.status = "disconnected" => [ r EXCEPT !.status = "disconnected" ] = r
<1>1. ASSUME NEW i \in Installed, i # NoInstallation, NEW s \in InstallationStates
      PROVE  [ i EXCEPT !.state = s ] \in Installed /\ [ i EXCEPT !.state = s ].org = i.org
  <2>1. i \in [ org : Tenants, state : InstallationStates ]
    BY <1>1 DEF Installed
  <2> HIDE DEF InstallationStates
  <2> QED BY <2>1 DEF Installed
<1>2. ASSUME NEW r \in Referenced, r # NoRepository
      PROVE  /\ [ r EXCEPT !.status = "disconnected" ] \in Referenced
             /\ [ r EXCEPT !.status = "disconnected" ].org = r.org
             /\ [ r EXCEPT !.status = "disconnected" ].linked = r.linked
  <2>1. r \in [ org : Tenants, status : { "active", "disconnected" }, linked : BOOLEAN ]
    BY <1>2 DEF Referenced
  <2> QED BY <2>1 DEF Referenced
<1>3. ASSUME NEW r \in Referenced, r.status = "disconnected"
      PROVE  [ r EXCEPT !.status = "disconnected" ] = r
  <2>1. r \in [ org : Tenants, status : { "active", "disconnected" }, linked : BOOLEAN ]
    BY <1>3 DEF Referenced, NoRepository
  <2> QED BY <1>3, <2>1
<1> QED
  BY <1>1, <1>2, <1>3

\* What the rows are after a step: a new event is of the organization of both
\* rows, a repository that is newly linked of the installation's.
LEMMA RowsApart ==
  ASSUME GitInv, OrgsKept,
         gitEvents' \subseteq [ hook : { k.id : k \in Hooks }, org : Tenants ],
         \A e \in gitEvents' : e \in gitEvents \/ (e.org = repository.org /\ e.org = installation.org),
         repository'.linked => repository # NoRepository \/ repository'.org = installation'.org
  PROVE  GitRows'
<1>1. ASSUME NEW e \in gitEvents' PROVE e.org = installation'.org /\ e.org = repository'.org
  <2>1. e.org \in Tenants /\ e.org = installation.org /\ e.org = repository.org
    BY <1>1 DEF GitInv, GitRows, TenantsApart
  <2>2. installation # NoInstallation /\ repository # NoRepository
    BY <2>1, Nobody
  <2> QED
    BY <2>1, <2>2 DEF OrgsKept
<1>2. repository'.linked => repository'.org = installation'.org
  <2>1. CASE repository # NoRepository /\ repository'.linked
    <3>1. repository.linked /\ repository.org \in Tenants
      BY <2>1, Nobody DEF GitInv, GitRows, OrgsKept
    <3>2. repository.org = installation.org
      BY <3>1 DEF GitInv, GitRows, TenantsApart
    <3>3. installation # NoInstallation
      BY <3>1, <3>2, Nobody
    <3> QED BY <2>1, <3>2, <3>3 DEF OrgsKept
  <2> QED BY <2>1
<1> QED
  BY <1>1, <1>2 DEF GitRows, TenantsApart, OrgsKept

\* A repository that was disconnected.
Stays == repository.status = "disconnected" => repository' = repository

LEMMA RowsWait ==
  ASSUME GitInv, UNCHANGED << installation, repository, gitEvents >>
  PROVE  OrgsKept /\ GitRows' /\ Stays
<1>1. OrgsKept /\ Stays
  BY DEF GitInv, GitRows, OrgsKept, Stays
<1>2. repository.linked => repository # NoRepository
  BY DEF NoRepository
<1> QED
  BY <1>1, <1>2, RowsApart DEF GitInv, GitRows

LEMMA ClaimRows ==
  ASSUME GitInv, NEW g \in GitRequests, ClaimInstallation(g)
  PROVE  OrgsKept /\ GitRows' /\ Stays
<1>1. /\ repository' = repository /\ gitEvents' = gitEvents /\ git[g].org \in Tenants
      /\ installation' = IF Claimable(git[g].org)
                         THEN [ org |-> git[g].org, state |-> "active" ] ELSE installation
  BY DEF ClaimInstallation, GitInv, GitKnows
<1>2. [ org |-> git[g].org, state |-> "active" ] \in Installed
  BY <1>1 DEF Installed, InstallationStates
<1>3. OrgsKept
  BY <1>1, <1>2, Nobody DEF OrgsKept, Claimable, GitInv, GitRows
<1>4. repository.linked => repository # NoRepository
  BY DEF NoRepository
<1> QED
  BY <1>1, <1>3, <1>4, RowsApart DEF GitInv, GitRows, Stays

LEMMA InsertRows ==
  ASSUME GitInv, NEW g \in GitRequests, InsertReference(g)
  PROVE  OrgsKept /\ GitRows' /\ Stays
<1>1. /\ installation' = installation /\ gitEvents' = gitEvents
      /\ git[g].org \in Tenants /\ git[g].org = installation.org
      /\ repository' = IF Unconnected
                       THEN [ org |-> git[g].org, status |-> "active", linked |-> TRUE ] ELSE repository
  BY DEF InsertReference, GitInv, GitKnows
<1>2. [ org |-> git[g].org, status |-> "active", linked |-> TRUE ] \in Referenced
  BY <1>1 DEF Referenced
<1>5. repository'.linked => repository # NoRepository \/ repository'.org = installation'.org
  BY <1>1 DEF Unconnected
<1>3. OrgsKept
  BY <1>1, <1>2 DEF OrgsKept, Unconnected, GitInv, GitRows
<1>4. Stays
  BY <1>1 DEF Stays, Unconnected, NoRepository
<1> QED
  BY <1>1, <1>3, <1>4, <1>5, RowsApart DEF GitInv, GitRows

\* A row that is entered by hand has no installation and no event.
LEMMA CreateRows ==
  ASSUME GitInv, NEW o \in Tenants, CreateReference(o)
  PROVE  OrgsKept /\ GitRows' /\ Stays
<1>1. /\ installation' = installation /\ gitEvents' = gitEvents /\ repository = NoRepository
      /\ repository' = [ org |-> o, status |-> "active", linked |-> FALSE ]
  BY DEF CreateReference, Unconnected
<1>2. repository' \in Referenced /\ ~ repository'.linked
  BY <1>1 DEF Referenced
<1>3. OrgsKept /\ Stays
  BY <1>1, <1>2 DEF OrgsKept, Stays, NoRepository, GitInv, GitRows
<1> QED
  BY <1>1, <1>2, <1>3, RowsApart DEF GitInv, GitRows

LEMMA ActRows ==
  ASSUME GitInv, NEW h \in HookHandlers, ActOnHook(h)
  PROVE  OrgsKept /\ GitRows' /\ Stays
<1> DEFINE q == handlers[h]
           about == q.hook.about
<1>1. /\ installation' = IF about \in { "suspend", "unsuspend", "deleted" } /\ installation # NoInstallation
                         THEN [ installation EXCEPT !.state = StateAfter(about) ] ELSE installation
      /\ repository' = IF about = "repository deleted" /\ q.ref # "none"
                       THEN [ repository EXCEPT !.status = "disconnected" ] ELSE repository
      /\ gitEvents' = IF about = "push" /\ q.ref # "none" /\ q.ref = q.inst
                      THEN gitEvents \union { [ hook |-> q.hook.id, org |-> q.ref ] } ELSE gitEvents
      /\ q.next = "act"
  BY DEF ActOnHook
<1>2. HookKnows(q) /\ q \in HookTx /\ installation \in Installed /\ repository \in Referenced
  BY DEF GitInv, GitRows
<1>3. /\ q.hook \in Hooks /\ (q.ref # "none" => q.ref = repository.org /\ q.ref \in Tenants)
      /\ q.inst # "none" => q.inst = installation.org
  BY <1>1, <1>2, Nobody DEF HookKnows, HookTx
<1>4. StateAfter(about) \in InstallationStates
  BY DEF StateAfter, InstallationStates
<1> HIDE DEF q, about
<1>5. q.ref # "none" => repository # NoRepository
  BY <1>3, Nobody
<1>6. OrgsKept /\ Stays /\ (repository = NoRepository => repository' = repository)
  <2>0. PICK s \in InstallationStates : s = StateAfter(about)
    BY <1>4
  <2>1. \/ installation' = installation
        \/ installation # NoInstallation /\ installation' = [ installation EXCEPT !.state = s ]
    BY <1>1, <2>0
  <2>2. \/ repository' = repository
        \/ repository # NoRepository /\ repository' = [ repository EXCEPT !.status = "disconnected" ]
    BY <1>1, <1>5
  <2>3. installation' \in Installed /\ (installation # NoInstallation => installation'.org = installation.org)
    <3>1. PICK i \in Installed : i = installation
      BY <1>2
    <3>2. \/ installation' = i
          \/ i # NoInstallation /\ installation' = [ i EXCEPT !.state = s ]
      BY <2>1, <3>1
    <3>3. i # NoInstallation => [ i EXCEPT !.state = s ] \in Installed /\ [ i EXCEPT !.state = s ].org = i.org
      BY RowsWritten
    <3>4. CASE installation' = i
      BY <3>1, <3>4
    <3>5. CASE i # NoInstallation /\ installation' = [ i EXCEPT !.state = s ]
      BY <3>1, <3>3, <3>5
    <3> QED BY <3>2, <3>4, <3>5
  <2>4. /\ repository' \in Referenced
        /\ repository # NoRepository => /\ repository'.org = repository.org
                                        /\ repository'.linked = repository.linked
    BY <1>2, <2>2, RowsWritten
  <2>5. Stays
    BY <1>2, <2>2, RowsWritten DEF Stays
  <2> QED BY <2>2, <2>3, <2>4, <2>5 DEF OrgsKept
<1>9. repository'.linked => repository # NoRepository
  BY <1>6 DEF NoRepository
<1>7. CASE about = "push" /\ q.ref # "none" /\ q.ref = q.inst
  <2>1. PICK new : new = [ hook |-> q.hook.id, org |-> q.ref ]
    OBVIOUS
  <2>2. new \in [ hook : { k.id : k \in Hooks }, org : Tenants ]
        /\ new.org = repository.org /\ new.org = installation.org
    BY <1>3, <1>7, <2>1
  <2>3. gitEvents' \subseteq gitEvents \union { new }
    BY <1>1, <2>1
  <2> QED BY <1>6, <1>9, <2>2, <2>3, RowsApart DEF GitInv, GitRows
<1>8. CASE ~(about = "push" /\ q.ref # "none" /\ q.ref = q.inst)
  BY <1>1, <1>6, <1>8, <1>9, RowsApart DEF GitInv, GitRows
<1> QED
  BY <1>6, <1>7, <1>8

LEMMA DisconnectRepositoryRows ==
  ASSUME GitInv, NEW o \in Tenants, DisconnectRepository(o)
  PROVE  OrgsKept /\ GitRows' /\ Stays
<1>1. /\ installation' = installation /\ gitEvents' = gitEvents
      /\ repository' = [ repository EXCEPT !.status = "disconnected" ]
      /\ repository \in Referenced /\ repository # NoRepository /\ installation \in Installed
  BY Nobody DEF DisconnectRepository, GitInv, GitRows
<1>2. OrgsKept /\ Stays
  BY <1>1, RowsWritten DEF OrgsKept, Stays
<1> QED
  BY <1>1, <1>2, RowsApart DEF GitInv, GitRows

LEMMA DisconnectBothRows ==
  ASSUME GitInv, NEW g \in GitRequests, DisconnectRows(g)
  PROVE  OrgsKept /\ GitRows' /\ Stays
<1>1. /\ installation' = [ installation EXCEPT !.state = "disconnected" ] /\ gitEvents' = gitEvents
      /\ repository' = IF repository.linked /\ repository.org = git[g].org
                       THEN [ repository EXCEPT !.status = "disconnected" ] ELSE repository
      /\ git[g].org \in Tenants /\ git[g].org = installation.org
  BY DEF DisconnectRows, GitInv, GitKnows
<1>2. repository \in Referenced /\ installation \in Installed /\ installation # NoInstallation
  BY <1>1, Nobody DEF GitInv, GitRows
<1>4. repository = NoRepository => repository' = repository
  BY <1>1 DEF NoRepository
<1>3. OrgsKept /\ Stays
  <2>1. "disconnected" \in InstallationStates
    BY DEF InstallationStates
  <2> QED BY <1>1, <1>2, <1>4, <2>1, RowsWritten DEF OrgsKept, Stays
<1>5. repository'.linked => repository # NoRepository
  BY <1>4 DEF NoRepository
<1> QED
  BY <1>1, <1>2, <1>3, <1>5, RowsApart DEF GitInv, GitRows

\* A handler reads the rows that there are.
LEMMA LookUpKnows ==
  ASSUME GitInv, NEW h \in HookHandlers, NEW k \in Hooks, LookUp(h, k)
  PROVE  handlers' \in [ HookHandlers -> HookTx ] /\ \A b \in HookHandlers : HookKnows(handlers[b])'
<1> DEFINE ref == IF repository.status = "active" THEN repository.org ELSE "none"
           q   == [ hook |-> k, inst |-> installation.org, ref |-> ref, next |-> "record" ]
<1>1. /\ installation.org \in Tenants \union { "none" } /\ ref \in Tenants \union { "none" }
      /\ UNCHANGED << installation, repository, gitEvents >>
      /\ handlers' = [ handlers EXCEPT ![h] = q ]
  BY Nobody DEF GitInv, GitRows, LookUp
<1>2. ref # "none" => ref = repository.org
  OBVIOUS
<1> HIDE DEF ref
<1>3. PICK p : p = q
  OBVIOUS
<1>4. p \in HookTx /\ p.hook = k /\ p.inst = installation.org /\ p.ref = ref
  BY <1>1, <1>3 DEF HookTx
<1>5. HookKnows(p)'
  BY <1>1, <1>2, <1>4 DEF HookKnows
<1>6. handlers' = [ handlers EXCEPT ![h] = p ]
  BY <1>1, <1>3
<1>7. OrgsKept
  BY <1>1, RowsWait
<1> QED
  BY <1>4, <1>5, <1>6, <1>7, HookChanges

\* A request or a handler goes on with what it knows.
GoesOn(q, next) == [ q EXCEPT !.next = next ]

LEMMA HookGoesOn ==
  ASSUME NEW q \in HookTx, HookKnows(q), q.next # "none",
         UNCHANGED << installation, repository >>
  PROVE  GoesOn(q, "act") \in HookTx /\ HookKnows(GoesOn(q, "act"))'
<1>1. /\ GoesOn(q, "act") \in HookTx
      /\ GoesOn(q, "act").hook = q.hook /\ GoesOn(q, "act").inst = q.inst /\ GoesOn(q, "act").ref = q.ref
  BY DEF HookTx, GoesOn
<1> HIDE DEF GoesOn
<1> QED
  BY <1>1 DEF HookKnows

LEMMA RequestGoesOn ==
  ASSUME NEW q \in GitTx, GitKnows(q), q.next # "none", q.org = installation.org,
         UNCHANGED << installation, repository >>,
         NEW next \in { "write", "both rows", "disconnect" }
  PROVE  GoesOn(q, next) \in GitTx /\ GitKnows(GoesOn(q, next))'
<1>1. GoesOn(q, next) \in GitTx /\ GoesOn(q, next).org = q.org
  BY DEF GitTx, GoesOn
<1> HIDE DEF GoesOn
<1> QED
  BY <1>1 DEF GitKnows

LEMMA HookSteps ==
  ASSUME GitInv, NEW h \in HookHandlers, RecordDelivery(h) \/ ActOnHook(h) \/ HookHandlerDies(h)
  PROVE  GitInv' /\ Stays
<1>0. HookKnows(IdleHook)'
  BY Nobody DEF HookKnows
<1>1. CASE RecordDelivery(h)
  <2>1. UNCHANGED << installation, repository, gitEvents, git >>
    BY <1>1 DEF RecordDelivery
  <2>2. OrgsKept /\ GitRows' /\ Stays
    BY <2>1, RowsWait
  <2>3. handlers[h] \in HookTx /\ HookKnows(handlers[h]) /\ handlers[h].next # "none"
    BY <1>1 DEF RecordDelivery, GitInv
  <2>4. PICK q \in HookTx : q = handlers[h]
    BY <2>3
  <2>5. \/ handlers' = [ handlers EXCEPT ![h] = IdleHook ]
        \/ handlers' = [ handlers EXCEPT ![h].next = "act" ]
    BY <1>1 DEF RecordDelivery
  <2>6. [ handlers EXCEPT ![h].next = "act" ] = [ handlers EXCEPT ![h] = GoesOn(q, "act") ]
    BY <2>4 DEF GoesOn, GitInv
  <2>7. PICK n : n = GoesOn(q, "act")
    OBVIOUS
  <2>8. HookKnows(q)
    BY <2>3, <2>4
  <2>9. n \in HookTx /\ HookKnows(n)'
    BY <2>1, <2>3, <2>4, <2>7, <2>8, HookGoesOn
  <2>10. PICK m \in { IdleHook, n } : handlers' = [ handlers EXCEPT ![h] = m ]
    BY <2>5, <2>6, <2>7
  <2>11. m \in HookTx /\ HookKnows(m)'
    BY <1>0, <2>9, <2>10, Nobody
  <2>12. handlers' \in [ HookHandlers -> HookTx ] /\ \A b \in HookHandlers : HookKnows(handlers[b])'
    BY <2>2, <2>10, <2>11, HookChanges
  <2> QED BY <2>1, <2>2, <2>12, RequestsWait DEF GitInv
<1>2. CASE ActOnHook(h)
  <2>1. OrgsKept /\ GitRows' /\ Stays /\ git' = git /\ handlers' = [ handlers EXCEPT ![h] = IdleHook ]
    BY <1>2, ActRows DEF ActOnHook
  <2> QED BY <1>0, <2>1, Nobody, HookChanges, RequestsWait DEF GitInv
<1>3. CASE HookHandlerDies(h)
  <2>1. /\ UNCHANGED << installation, repository, gitEvents, git >>
        /\ handlers' = [ handlers EXCEPT ![h] = IdleHook ]
    BY <1>3 DEF HookHandlerDies
  <2> QED BY <1>0, <2>1, Nobody, RowsWait, HookChanges, RequestsWait DEF GitInv
<1> QED
  BY <1>1, <1>2, <1>3

\* What a request does next is all that changes.
LEMMA RequestSteps ==
  ASSUME GitInv, NEW g \in GitRequests,
         UNCHANGED << installation, repository, gitEvents, handlers >>,
         NEW q \in GitTx, GitKnows(q)', git' = [ git EXCEPT ![g] = q ]
  PROVE  GitInv' /\ Stays
<1>1. OrgsKept /\ GitRows' /\ Stays
  BY RowsWait
<1> QED
  BY <1>1, RequestChanges, HooksWait DEF GitInv

LEMMA BeginSteps ==
  ASSUME GitInv, NEW g \in GitRequests, NEW o \in Tenants,
         Callback(g, o) \/ ConnectRepository(g, o) \/ Disconnect(g, o)
  PROVE  GitInv' /\ Stays
<1>1. PICK next \in { "claim", "insert", "uninstall" } :
        BeginGit(g, o, next) /\ (next # "claim" => installation.org = o)
  BY DEF Callback, ConnectRepository, Disconnect, Available
<1>2. PICK q : q = [ org |-> o, next |-> next ]
  OBVIOUS
<1>3. q \in GitTx /\ q.org = o /\ q.next = next
  BY <1>1, <1>2 DEF GitTx
<1>4. /\ UNCHANGED << installation, repository, gitEvents, handlers >>
      /\ git' = [ git EXCEPT ![g] = q ]
  BY <1>1, <1>2 DEF BeginGit
<1>5. GitKnows(q)'
  BY <1>1, <1>3, <1>4 DEF GitKnows
<1> QED
  BY <1>3, <1>4, <1>5, RequestSteps

\* A request goes on with its organization, or ends.
LEMMA GoesOnOrEnds ==
  ASSUME GitInv, NEW g \in GitRequests,
         UNCHANGED << installation, repository, gitEvents, handlers >>,
         NEW next \in { "write", "both rows", "disconnect" },
         \/ EndGit(g)
         \/ /\ git[g].next # "none" /\ git[g].org = installation.org
            /\ git' = [ git EXCEPT ![g] = GoesOn(git[g], next) ]
  PROVE  GitInv' /\ Stays
<1>1. PICK q \in GitTx : q = git[g]
  BY DEF GitInv
<1>2. GitKnows(q)
  BY <1>1 DEF GitInv
<1>3. GitKnows(IdleGitRequest)'
  BY Nobody DEF GitKnows
<1>4. CASE EndGit(g)
  <2>1. PICK n \in GitTx : n = IdleGitRequest
    BY Nobody
  <2>2. GitKnows(n)'
    BY <2>1, Nobody DEF GitKnows
  <2>3. git' = [ git EXCEPT ![g] = n ]
    BY <1>4, <2>1 DEF EndGit
  <2> QED BY <2>2, <2>3, RequestSteps
<1>5. CASE /\ git[g].next # "none" /\ git[g].org = installation.org
           /\ git' = [ git EXCEPT ![g] = GoesOn(git[g], next) ]
  <2>1. PICK n : n = GoesOn(q, next)
    OBVIOUS
  <2>2. n \in GitTx /\ GitKnows(n)'
    BY <1>1, <1>2, <1>5, <2>1, RequestGoesOn
  <2>3. git' = [ git EXCEPT ![g] = n ]
    BY <1>1, <1>5, <2>1
  <2> QED BY <2>2, <2>3, RequestSteps
<1> QED
  BY <1>4, <1>5

LEMMA RequestActs ==
  ASSUME GitInv, NEW g \in GitRequests,
         Recheck(g) \/ Uninstall(g) \/ RequestDies(g)
  PROVE  GitInv' /\ Stays
<1>1. CASE Recheck(g)
  <2>1. PICK next \in { "write", "both rows" } :
          next = IF git[g].next = "insert" THEN "write" ELSE "both rows"
    OBVIOUS
  <2>2. \/ EndGit(g)
        \/ Available(git[g].org) /\ git' = [ git EXCEPT ![g].next = next ]
    <3>1. CASE git[g].next = "insert"
      <4>1. next = "write"
        BY <2>1, <3>1
      <4>2. \/ EndGit(g)
            \/ Available(git[g].org) /\ git' = [ git EXCEPT ![g].next = "write" ]
        BY <1>1, <3>1, Zenon DEF Recheck
      <4> QED BY <4>1, <4>2
    <3>2. CASE git[g].next # "insert"
      <4>1. next = "both rows"
        BY <2>1, <3>2
      <4>2. \/ EndGit(g)
            \/ Available(git[g].org) /\ git' = [ git EXCEPT ![g].next = "both rows" ]
        BY <1>1, <3>2, Zenon DEF Recheck
      <4> QED BY <4>1, <4>2
    <3> QED BY <3>1, <3>2
  <2>3. [ git EXCEPT ![g].next = next ] = [ git EXCEPT ![g] = GoesOn(git[g], next) ]
    BY DEF GoesOn, GitInv
  <2>4. Available(git[g].org) => git[g].org = installation.org
    <3>1. ASSUME NEW o, Available(o) PROVE o = installation.org
      BY <3>1 DEF Available
    <3> QED BY <3>1
  <2>5. git[g].next # "none" /\ UNCHANGED << installation, repository, gitEvents, handlers >>
    BY <1>1 DEF Recheck
  <2> QED BY <2>2, <2>3, <2>4, <2>5, GoesOnOrEnds
<1>2. CASE Uninstall(g)
  <2>1. [ git EXCEPT ![g].next = "disconnect" ] = [ git EXCEPT ![g] = GoesOn(git[g], "disconnect") ]
    BY DEF GoesOn, GitInv
  <2>2. /\ EndGit(g) \/ git' = [ git EXCEPT ![g].next = "disconnect" ]
        /\ git[g].next = "uninstall" /\ UNCHANGED << installation, repository, gitEvents, handlers >>
    BY <1>2 DEF Uninstall
  <2>3. git[g].org = installation.org
    BY <2>2 DEF GitInv, GitKnows
  <2> QED BY <2>1, <2>2, <2>3, GoesOnOrEnds
<1>3. CASE RequestDies(g)
  BY <1>3, GoesOnOrEnds DEF RequestDies
<1> QED
  BY <1>1, <1>2, <1>3

\* A request that writes a row ends.
LEMMA RequestWrites ==
  ASSUME GitInv, NEW g \in GitRequests,
         ClaimInstallation(g) \/ InsertReference(g) \/ DisconnectRows(g)
  PROVE  GitInv' /\ Stays
<1>1. OrgsKept /\ GitRows' /\ Stays
  BY ClaimRows, InsertRows, DisconnectBothRows
<1>2. handlers' = handlers /\ EndGit(g)
  BY DEF ClaimInstallation, InsertReference, DisconnectRows
<1>3. PICK n \in GitTx : n = IdleGitRequest
  BY Nobody
<1>4. GitKnows(n)'
  BY <1>3, Nobody DEF GitKnows
<1>5. git' = [ git EXCEPT ![g] = n ]
  BY <1>2, <1>3 DEF EndGit
<1> QED
  BY <1>1, <1>2, <1>4, <1>5, RequestChanges, HooksWait DEF GitInv

\* The invariant is inductive.
LEMMA GitStarts == GitInit => GitInv
<1> SUFFICES ASSUME GitInit PROVE GitInv
  OBVIOUS
<1>1. GitRows
  <2>1. ~ NoRepository.linked
    BY DEF NoRepository
  <2> QED BY <2>1, Nobody DEF GitInit, GitRows, TenantsApart
<1>2. handlers \in [ HookHandlers -> HookTx ] /\ \A h \in HookHandlers : HookKnows(handlers[h])
  BY Nobody DEF GitInit, HookKnows
<1>3. git \in [ GitRequests -> GitTx ] /\ \A g \in GitRequests : GitKnows(git[g])
  BY Nobody DEF GitInit, GitKnows
<1> QED
  BY <1>1, <1>2, <1>3 DEF GitInv

LEMMA GitSteps ==
  ASSUME GitInv, [GitNext]_gitVars
  PROVE  GitInv' /\ Stays
<1>1. ASSUME NEW k \in Hooks, Emit(k) PROVE GitInv' /\ Stays
  BY <1>1, RowsWait, HooksWait, RequestsWait DEF Emit, GitInv
<1>2. ASSUME NEW k \in Hooks, NEW h \in HookHandlers, LookUp(h, k) PROVE GitInv' /\ Stays
  <2>1. OrgsKept /\ GitRows' /\ Stays /\ git' = git
    BY <1>2, RowsWait DEF LookUp
  <2> QED BY <1>2, <2>1, LookUpKnows, RequestsWait DEF GitInv
<1>3. ASSUME NEW o \in Tenants, DisconnectRepository(o) PROVE GitInv' /\ Stays
  <2>1. OrgsKept /\ GitRows' /\ Stays /\ git' = git /\ handlers' = handlers
    BY <1>3, DisconnectRepositoryRows DEF DisconnectRepository
  <2> QED BY <2>1, HooksWait, RequestsWait DEF GitInv
<1>4. CASE UNCHANGED gitVars
  BY <1>4, RowsWait, HooksWait, RequestsWait DEF gitVars, GitInv
<1>5. ASSUME NEW o \in Tenants, CreateReference(o) PROVE GitInv' /\ Stays
  <2>1. OrgsKept /\ GitRows' /\ Stays /\ git' = git /\ handlers' = handlers
    BY <1>5, CreateRows DEF CreateReference
  <2> QED BY <2>1, HooksWait, RequestsWait DEF GitInv
<1> QED
  BY <1>1, <1>2, <1>3, <1>4, <1>5, HookSteps, BeginSteps, RequestActs, RequestWrites DEF GitNext

\* A repository connected through the installation is of its organization, and so
\* is every event, with the row's, whatever row was entered by hand, for any number
\* of organizations, requests, handlers and deliveries.
THEOREM TenantsKeptApart == GitSpec => []TenantsApart
<1>1. GitInv /\ [GitNext]_gitVars => GitInv'
  BY GitSteps
<1>2. GitInv => TenantsApart
  BY DEF GitInv, GitRows
<1> QED
  BY <1>1, <1>2, GitStarts, PTL DEF GitSpec

\* No webhook and no request gives back a repository that was disconnected.
THEOREM StaysDisconnected == GitSpec => DisconnectedForGood
<1>1. GitInv /\ [GitNext]_gitVars => GitInv'
  BY GitSteps
<1>2. GitInv /\ [GitNext]_gitVars => [repository.status = "disconnected" => repository' = repository]_gitVars
  BY GitSteps DEF Stays
<1> QED
  BY <1>1, <1>2, GitStarts, PTL DEF GitSpec, DisconnectedForGood

-----------------------------------------------------------------------------
(***************************************************************************)
(* A delivery is acted on once: the unique id lets one handler through,    *)
(* and a handler that acts is the only one with that delivery.             *)
(***************************************************************************)
Acting(q) == q.next = "act"

ActedInv ==
  /\ acted \in [ Hooks -> { 0, 1 } ]
  /\ \A k \in Hooks : acted[k] = 1 => Duplicate(k)
  /\ \A h \in HookHandlers : Acting(handlers[h]) => Duplicate(handlers[h].hook) /\ acted[handlers[h].hook] = 0
  /\ \A h, b \in HookHandlers :
       Acting(handlers[h]) /\ Acting(handlers[b]) /\ h # b => handlers[h].hook # handlers[b].hook

\* A handler that does not act after a step, or did already.
LEMMA OthersAct ==
  ASSUME GitInv, ActedInv, NEW h \in HookHandlers, NEW q \in HookTx, ~ Acting(q),
         handlers' = [ handlers EXCEPT ![h] = q ], UNCHANGED << hookIds, acted >>
  PROVE  ActedInv'
<1>1. /\ handlers'[h] = q
      /\ \A b \in HookHandlers \ { h } : handlers'[b] = handlers[b]
  BY DEF GitInv
<1> QED
  BY <1>1 DEF ActedInv, Acting, Duplicate

LEMMA RecordActs ==
  ASSUME GitInv, ActedInv, NEW h \in HookHandlers, RecordDelivery(h), GitInv'
  PROVE  ActedInv'
<1>1. PICK k \in Hooks : k = handlers[h].hook
  BY DEF RecordDelivery, GitInv, HookKnows
<1>2. CASE handlers' = [ handlers EXCEPT ![h] = IdleHook ] /\ hookIds' = hookIds
  BY <1>2, Nobody, OthersAct DEF RecordDelivery, Acting
<1>3. CASE /\ handlers' = [ handlers EXCEPT ![h].next = "act" ] /\ ~ Duplicate(k)
           /\ hookIds' = hookIds \union { k.id }
  <2>1. acted' = acted
    BY DEF RecordDelivery
  <2>2. \A b \in HookHandlers \ { h } : handlers'[b] = handlers[b]
    BY <1>3 DEF GitInv
  <2>3. handlers'[h].hook = k
    BY <1>1, <1>3 DEF GitInv, HookTx
  <2>4. \A b \in HookHandlers \ { h } : Acting(handlers[b]) => handlers[b].hook # k
    BY <1>3 DEF ActedInv
  <2>5. acted[k] = 0
    BY <1>3 DEF ActedInv
  <2>6. hookIds \subseteq hookIds' /\ k.id \in hookIds'
    BY <1>3
  <2>7. \A j \in Hooks : acted'[j] = 1 => j.id \in hookIds'
    BY <2>1, <2>6 DEF ActedInv, Duplicate
  <2>8. ASSUME NEW b \in HookHandlers, handlers'[b].next = "act"
        PROVE  handlers'[b].hook.id \in hookIds' /\ acted'[handlers'[b].hook] = 0
    <3>1. CASE b = h
      BY <2>1, <2>3, <2>5, <2>6, <3>1
    <3>2. CASE b # h
      BY <2>1, <2>2, <2>6, <2>8, <3>2 DEF ActedInv, Acting, Duplicate
    <3> QED BY <3>1, <3>2
  <2>9. ASSUME NEW b \in HookHandlers, NEW c \in HookHandlers, b # c,
               handlers'[b].next = "act", handlers'[c].next = "act"
        PROVE  handlers'[b].hook # handlers'[c].hook
    <3>1. CASE b = h
      BY <2>2, <2>3, <2>4, <2>9, <3>1 DEF Acting
    <3>2. CASE c = h
      BY <2>2, <2>3, <2>4, <2>9, <3>2 DEF Acting
    <3>3. CASE b # h /\ c # h
      BY <2>2, <2>9, <3>3 DEF ActedInv, Acting
    <3> QED BY <3>1, <3>2, <3>3
  <2>10. acted' \in [ Hooks -> { 0, 1 } ]
    BY <2>1 DEF ActedInv
  <2> QED BY <2>7, <2>8, <2>9, <2>10 DEF ActedInv, Acting, Duplicate
<1> QED
  BY <1>1, <1>2, <1>3 DEF RecordDelivery

LEMMA ActOnceSteps ==
  ASSUME GitInv, ActedInv, NEW h \in HookHandlers, ActOnHook(h)
  PROVE  ActedInv'
<1>1. PICK k \in Hooks : k = handlers[h].hook
  BY DEF ActOnHook, GitInv, HookKnows
<1>2. /\ Acting(handlers[h]) /\ acted[k] = 0 /\ Duplicate(k)
      /\ \A b \in HookHandlers \ { h } : Acting(handlers[b]) => handlers[b].hook # k
      /\ \A b \in HookHandlers : Acting(handlers[b]) => handlers[b].hook \in Hooks
  BY <1>1 DEF ActOnHook, ActedInv, Acting, GitInv, HookKnows
<1>3. acted' = [ acted EXCEPT ![k] = acted[k] + 1 ] /\ hookIds' = hookIds
  BY <1>1 DEF ActOnHook
<1>4. acted' \in [ Hooks -> { 0, 1 } ] /\ acted'[k] = 1 /\ \A j \in Hooks \ { k } : acted'[j] = acted[j]
  BY <1>2, <1>3 DEF ActedInv
<1>5. /\ \A b \in HookHandlers \ { h } : handlers'[b] = handlers[b]
      /\ handlers'[h] = IdleHook
  BY DEF ActOnHook, GitInv
<1>6. ~ Acting(handlers'[h])
  BY <1>5, Nobody DEF Acting
<1>7. \A j \in Hooks : acted'[j] = 1 => j.id \in hookIds'
  BY <1>2, <1>3, <1>4 DEF ActedInv, Duplicate
<1>8. ASSUME NEW b \in HookHandlers, Acting(handlers'[b])
      PROVE  handlers'[b].hook.id \in hookIds' /\ acted'[handlers'[b].hook] = 0
  BY <1>2, <1>3, <1>4, <1>5, <1>6, <1>8 DEF ActedInv, Duplicate
<1>9. ASSUME NEW b \in HookHandlers, NEW c \in HookHandlers, b # c,
             Acting(handlers'[b]), Acting(handlers'[c])
      PROVE  handlers'[b].hook # handlers'[c].hook
  BY <1>5, <1>6, <1>9 DEF ActedInv
<1> QED
  BY <1>4, <1>7, <1>8, <1>9 DEF ActedInv, Acting, Duplicate

\* What ActedInv says of the counts.
ActedKept == acted \in [ Hooks -> { 0, 1 } ]

LEMMA ActedInvKept == GitSpec => []ActedInv
<1>1. GitInit => ActedInv
  BY Nobody DEF GitInit, ActedInv, Acting
<1>2. ASSUME GitInv, GitInv', ActedInv, [GitNext]_gitVars PROVE ActedInv'
  <2>1. CASE UNCHANGED << hookIds, handlers, acted >>
    BY <1>2, <2>1 DEF ActedInv, Acting, Duplicate
  <2>2. ASSUME NEW k \in Hooks, NEW h \in HookHandlers, LookUp(h, k) PROVE ActedInv'
    <3>1. PICK q : q = [ hook |-> k, inst |-> installation.org,
                         ref |-> IF repository.status = "active" THEN repository.org ELSE "none",
                         next |-> "record" ]
      OBVIOUS
    <3>2. handlers' = [ handlers EXCEPT ![h] = q ] /\ UNCHANGED << hookIds, acted >>
      BY <2>2, <3>1 DEF LookUp
    <3>3. q \in HookTx /\ ~ Acting(q)
      BY <1>2, <3>1, Nobody DEF GitInv, GitRows, HookTx, Acting
    <3> QED BY <1>2, <3>2, <3>3, OthersAct
  <2>3. ASSUME NEW h \in HookHandlers, HookHandlerDies(h) PROVE ActedInv'
    BY <1>2, <2>3, Nobody, OthersAct DEF HookHandlerDies, Acting
  <2> QED
    BY <1>2, <2>1, <2>2, <2>3, RecordActs, ActOnceSteps
    DEF GitNext, gitVars, Emit, CreateReference, DisconnectRepository, Callback, ConnectRepository, Disconnect,
        BeginGit, ClaimInstallation, Recheck, InsertReference, Uninstall, DisconnectRows, RequestDies
<1>3. GitInv /\ [GitNext]_gitVars => GitInv'
  BY GitSteps
<1> QED
  BY <1>1, <1>2, <1>3, GitStarts, PTL DEF GitSpec

LEMMA ActedTyped == GitSpec => []ActedKept
<1>1. ActedInv => ActedKept
  BY DEF ActedInv, ActedKept
<1> QED
  BY <1>1, ActedInvKept, PTL

\* No delivery is acted on twice, for any number of deliveries and handlers.
THEOREM DeliveriesActOnce == GitSpec => []ActedOnce
<1>1. ActedInv => ActedOnce
  BY DEF ActedInv, ActedOnce
<1> QED
  BY <1>1, ActedInvKept, PTL

\* What GitHub has of the installation, and the deliveries it makes.
DeliveriesTyped ==
  /\ remote \in { "installed", "suspended", "gone" } /\ sent \subseteq Hooks
  /\ hookIds \subseteq { k.id : k \in Hooks }

LEMMA DeliveriesStep ==
  ASSUME GitInv, DeliveriesTyped, [GitNext]_gitVars
  PROVE  DeliveriesTyped'
<1>1. CASE UNCHANGED << remote, sent, hookIds >>
  BY <1>1 DEF DeliveriesTyped
<1>2. ASSUME NEW k \in Hooks, Emit(k) PROVE DeliveriesTyped'
  BY <1>2 DEF Emit, RemoteAfter, DeliveriesTyped
<1>3. ASSUME NEW h \in HookHandlers, RecordDelivery(h) PROVE DeliveriesTyped'
  <2>1. PICK k \in Hooks : k = handlers[h].hook
    BY <1>3 DEF RecordDelivery, GitInv, HookKnows
  <2>2. hookIds' = hookIds \/ hookIds' = hookIds \union { k.id }
    BY <1>3, <2>1 DEF RecordDelivery
  <2> QED BY <1>3, <2>2 DEF RecordDelivery, DeliveriesTyped
<1>4. ASSUME NEW g \in GitRequests, Uninstall(g) PROVE DeliveriesTyped'
  BY <1>4 DEF Uninstall, DeliveriesTyped
<1> QED
  BY <1>1, <1>2, <1>3, <1>4
  DEF GitNext, gitVars, LookUp, ActOnHook, HookHandlerDies, CreateReference, DisconnectRepository, Callback,
      ConnectRepository, Disconnect, BeginGit, ClaimInstallation, Recheck, InsertReference,
      DisconnectRows, RequestDies

\* The tables of the Git integration and what is in flight keep their types, for
\* any number of organizations, deliveries, handlers and requests.
THEOREM GitTyped == GitSpec => []GitTypeOK
<1>1. GitInit => DeliveriesTyped
  BY DEF GitInit, DeliveriesTyped
<1>2. GitInv /\ DeliveriesTyped /\ [GitNext]_gitVars => DeliveriesTyped'
  BY DeliveriesStep
<1>3. ActedKept /\ GitInv /\ DeliveriesTyped => GitTypeOK
  <2> SUFFICES ASSUME ActedKept, GitInv, DeliveriesTyped PROVE GitTypeOK
    OBVIOUS
  <2>1. acted \in [ Hooks -> Nat ]
    BY DEF ActedKept
  <2> QED
    BY <2>1 DEF GitInv, GitRows, DeliveriesTyped, GitTypeOK, Installed, Referenced, HookTx, GitTx
<1>4. GitInv /\ [GitNext]_gitVars => GitInv'
  BY GitSteps
<1> QED
  BY <1>1, <1>2, <1>3, <1>4, GitStarts, ActedTyped, PTL DEF GitSpec

-----------------------------------------------------------------------------
(***************************************************************************)
(* Domains. A request that may make a claim active has read it verified,   *)
(* and what was proven once stays so, whatever is written meanwhile; the   *)
(* indexes refuse a second live row.                                       *)
(***************************************************************************)
DomainRow == [ status : DomainStatuses, routed : BOOLEAN ]
DomainTx  == [ claim : Claims \union { "none" }, routed : BOOLEAN,
               next : { "none", "verify", "activate", "update route", "look again", "report",
                        "remove", "erase" } ]

ClaimKnown(q) == q.next # "none" => q.claim \in Claims
ProofKnown(q) == q.next \in { "activate", "update route", "look again", "report" } => q.claim \in proven

DomainInv ==
  /\ domains \in [ Claims -> DomainRow ] /\ DOMAIN routes = Claims /\ proven \subseteq Claims
  /\ domainCalls \in [ DomainRequests -> DomainTx ]
  /\ \A r \in DomainRequests : ClaimKnown(domainCalls[r]) /\ ProofKnown(domainCalls[r])
  /\ ActiveWasProven
  /\ OneOwner

\* What a step writes into the row of one claim.
LEMMA RowWritten ==
  ASSUME DomainInv, NEW d \in Claims, NEW x \in DomainRow, domains' = [ domains EXCEPT ![d] = x ],
         HostFree(d) \/ x.status = "removed",
         proven' \subseteq Claims, proven \subseteq proven',
         x.status \in { "verified", "activating", "certificate_pending", "active" } => d \in proven'
  PROVE  /\ domains' \in [ Claims -> DomainRow ] /\ ActiveWasProven'
         /\ \A e, f \in Claims : LiveClaim(e)' /\ LiveClaim(f)' => e = f
<1>1. /\ domains' \in [ Claims -> DomainRow ] /\ domains'[d] = x
      /\ \A e \in Claims \ { d } : domains'[e] = domains[e]
  BY DEF DomainInv
<1>2. ASSUME NEW e \in Claims, domains'[e].status \in { "verified", "activating", "certificate_pending", "active" }
      PROVE  e \in proven'
  <2>1. CASE e = d
    BY <1>1, <1>2, <2>1
  <2>2. CASE e # d
    BY <1>1, <1>2, <2>2 DEF DomainInv, ActiveWasProven
  <2> QED BY <2>1, <2>2
<1>3. ASSUME NEW e \in Claims, NEW f \in Claims, LiveClaim(e)', LiveClaim(f)' PROVE e = f
  BY <1>1, <1>3 DEF DomainInv, OneOwner, LiveClaim, HostFree
<1> QED
  BY <1>1, <1>2, <1>3 DEF ActiveWasProven

\* A request that starts, goes on or ends.
LEMMA CallsKnow ==
  ASSUME DomainInv, NEW r \in DomainRequests, NEW q \in DomainTx, ClaimKnown(q), ProofKnown(q),
         domainCalls' = [ domainCalls EXCEPT ![r] = q ], proven \subseteq proven'
  PROVE  /\ domainCalls' \in [ DomainRequests -> DomainTx ]
         /\ \A b \in DomainRequests : ClaimKnown(domainCalls'[b]) /\ ProofKnown(domainCalls[b])'
<1>1. /\ domainCalls' \in [ DomainRequests -> DomainTx ] /\ domainCalls'[r] = q
      /\ \A b \in DomainRequests \ { r } : domainCalls'[b] = domainCalls[b]
  BY DEF DomainInv
<1>2. ASSUME NEW b \in DomainRequests PROVE ClaimKnown(domainCalls'[b]) /\ ProofKnown(domainCalls[b])'
  <2>1. CASE b = r
    BY <1>1, <2>1 DEF ProofKnown
  <2>2. CASE b # r
    BY <1>1, <2>2 DEF DomainInv, ProofKnown, ClaimKnown
  <2> QED BY <2>1, <2>2
<1> QED
  BY <1>1, <1>2

LEMMA IdleKnows == IdleDomainCall \in DomainTx /\ ClaimKnown(IdleDomainCall) /\ ProofKnown(IdleDomainCall)
BY DEF IdleDomainCall, DomainTx, ClaimKnown, ProofKnown

\* What a request reads of a claim that is there.
LEMMA BeginKnows ==
  ASSUME DomainInv, NEW r \in DomainRequests, NEW d \in Claims, NEW next \in { "verify", "activate", "remove" },
         BeginDomain(r, d, next), next = "activate" => Activatable(d),
         UNCHANGED << domains, challenges, routes, proven >>
  PROVE  DomainInv'
<1>1. PICK q : q = [ claim |-> d, next |-> next, routed |-> domains[d].routed ]
  OBVIOUS
<1>2. domains[d] \in DomainRow
  BY DEF DomainInv
<1>3. q \in DomainTx /\ q.claim = d /\ q.next = next
  BY <1>1, <1>2 DEF DomainTx, DomainRow
<1>4. next = "activate" => d \in proven
  BY DEF DomainInv, ActiveWasProven, Activatable
<1>5. ClaimKnown(q) /\ ProofKnown(q)
  BY <1>3, <1>4 DEF ClaimKnown, ProofKnown
<1>6. domainCalls' = [ domainCalls EXCEPT ![r] = q ]
  BY <1>1 DEF BeginDomain
<1> QED
  BY <1>3, <1>5, <1>6, CallsKnow DEF DomainInv, ActiveWasProven, OneOwner, LiveClaim

\* A call that ends after its writes.
LEMMA EndKnows ==
  ASSUME DomainInv, NEW r \in DomainRequests, EndDomainCall(r), proven \subseteq proven'
  PROVE  /\ domainCalls' \in [ DomainRequests -> DomainTx ]
         /\ \A b \in DomainRequests : ClaimKnown(domainCalls'[b]) /\ ProofKnown(domainCalls[b])'
<1>1. PICK q : q = IdleDomainCall
  OBVIOUS
<1>2. q \in DomainTx /\ ClaimKnown(q) /\ ProofKnown(q) /\ domainCalls' = [ domainCalls EXCEPT ![r] = q ]
  BY <1>1, IdleKnows DEF EndDomainCall
<1> QED
  BY <1>2, CallsKnow

\* A call that goes on: only once its claim is proven does it go on to a report.
LEMMA ThenKnows ==
  ASSUME DomainInv, NEW r \in DomainRequests, NEW next \in { "update route", "look again", "report" },
         domainCalls[r].next \in { "activate", "update route", "look again" }, ThenDo(r, next), UNCHANGED proven
  PROVE  /\ domainCalls' \in [ DomainRequests -> DomainTx ]
         /\ \A b \in DomainRequests : ClaimKnown(domainCalls'[b]) /\ ProofKnown(domainCalls[b])'
<1>1. PICK p \in DomainTx : p = domainCalls[r]
  BY DEF DomainInv
<1>2. PICK q : q = [ p EXCEPT !.next = next ]
  OBVIOUS
<1>3. q \in DomainTx /\ q.claim = p.claim /\ q.next = next
  BY <1>1, <1>2 DEF DomainTx
<1>4. p.claim \in Claims /\ p.claim \in proven
  BY <1>1 DEF DomainInv, ClaimKnown, ProofKnown
<1>5. ClaimKnown(q) /\ ProofKnown(q)
  BY <1>3, <1>4 DEF ClaimKnown, ProofKnown
<1>6. domainCalls' = [ domainCalls EXCEPT ![r] = q ]
  BY <1>1, <1>2 DEF ThenDo, DomainInv
<1> QED
  BY <1>3, <1>5, <1>6, CallsKnow

\* The update of a status alone.
LEMMA StatusWritten ==
  ASSUME DomainInv, NEW d \in Claims, NEW s \in DomainStatuses, SetStatus(d, s), HostFree(d),
         proven' \subseteq Claims, proven \subseteq proven',
         s \in { "verified", "activating", "certificate_pending", "active" } => d \in proven'
  PROVE  /\ domains' \in [ Claims -> DomainRow ] /\ ActiveWasProven'
         /\ \A e, f \in Claims : LiveClaim(e)' /\ LiveClaim(f)' => e = f
<1>1. PICK y \in DomainRow : y = domains[d]
  BY DEF DomainInv
<1>2. PICK x : x = [ y EXCEPT !.status = s ]
  OBVIOUS
<1> HIDE DEF DomainStatuses
<1>3. x \in DomainRow /\ x.status = s
  BY <1>1, <1>2 DEF DomainRow
<1>4. domains' = [ domains EXCEPT ![d] = x ]
  BY <1>1, <1>2 DEF SetStatus, DomainInv
<1> QED
  BY <1>3, <1>4, RowWritten

LEMMA RequestStep ==
  ASSUME DomainInv, NEW d \in Claims, RequestDomain(d)
  PROVE  DomainInv'
<1>1. "pending_verification" \in DomainStatuses
  BY DEF DomainStatuses
<1>2. /\ domains' \in [ Claims -> DomainRow ] /\ ActiveWasProven'
      /\ \A e, f \in Claims : LiveClaim(e)' /\ LiveClaim(f)' => e = f
  BY <1>1, StatusWritten DEF RequestDomain, DomainInv
<1> QED
  BY <1>2 DEF RequestDomain, DomainInv, OneOwner, ClaimKnown, ProofKnown

LEMMA VerifyStep ==
  ASSUME DomainInv, NEW r \in DomainRequests, VerifyDomain(r)
  PROVE  DomainInv'
<1>1. PICK d \in Claims : d = domainCalls[r].claim
  BY DEF DomainInv, VerifyDomain, ClaimKnown
<1>2. EndDomainCall(r) /\ routes' = routes
  BY DEF VerifyDomain
<1>3. \/ HostFree(d) /\ SetStatus(d, "verified") /\ proven' = proven \union { d }
      \/ UNCHANGED << domains, proven >>
  BY <1>1 DEF VerifyDomain
<1>4. proven \subseteq proven' /\ proven' \subseteq Claims
  BY <1>3 DEF DomainInv
<1>5. /\ domains' \in [ Claims -> DomainRow ] /\ ActiveWasProven'
      /\ \A e, f \in Claims : LiveClaim(e)' /\ LiveClaim(f)' => e = f
  <2>1. "verified" \in DomainStatuses
    BY DEF DomainStatuses
  <2>2. CASE HostFree(d) /\ SetStatus(d, "verified") /\ proven' = proven \union { d }
    BY <1>4, <2>1, <2>2, StatusWritten
  <2>3. CASE UNCHANGED << domains, proven >>
    BY <2>3 DEF DomainInv, ActiveWasProven, OneOwner, LiveClaim
  <2> QED BY <1>3, <2>2, <2>3
<1> QED
  BY <1>2, <1>4, <1>5, EndKnows DEF DomainInv, OneOwner

LEMMA ActivateStep ==
  ASSUME DomainInv, NEW r \in DomainRequests, ActivateDomain(r)
  PROVE  DomainInv'
<1>1. PICK d \in Claims : d = domainCalls[r].claim /\ d \in proven
  BY DEF DomainInv, ActivateDomain, ClaimKnown, ProofKnown
<1>2. CASE ~ (HostFree(d) /\ (routes[d] = "live" \/ RouteFree))
  <2>1. EndDomainCall(r) /\ UNCHANGED << domains, routes, proven >>
    BY <1>1, <1>2 DEF ActivateDomain
  <2> QED BY <2>1, EndKnows DEF DomainInv, OneOwner, ActiveWasProven, LiveClaim
<1>3. CASE HostFree(d) /\ (routes[d] = "live" \/ RouteFree)
  <2>1. /\ routes' = [ routes EXCEPT ![d] = "live" ] /\ proven' = proven
        /\ domains' = [ domains EXCEPT ![d] = [ status |-> "activating", routed |-> TRUE ] ]
        /\ ThenDo(r, "update route") /\ domainCalls[r].next = "activate"
    BY <1>1, <1>3 DEF ActivateDomain
  <2>2. PICK x : x = [ status |-> "activating", routed |-> TRUE ]
    OBVIOUS
  <2>3. x \in DomainRow
    BY <2>2 DEF DomainRow, DomainStatuses
  <2>4. /\ domains' \in [ Claims -> DomainRow ] /\ ActiveWasProven'
        /\ \A e, f \in Claims : LiveClaim(e)' /\ LiveClaim(f)' => e = f
    BY <1>1, <1>3, <2>1, <2>2, <2>3, RowWritten DEF DomainInv
  <2>5. \A e, f \in Claims : routes'[e] = "live" /\ routes'[f] = "live" => e = f
    BY <1>3, <2>1 DEF DomainInv, OneOwner, RouteFree
  <2>6. DOMAIN routes' = Claims
    BY <2>1 DEF DomainInv
  <2> QED BY <2>1, <2>4, <2>5, <2>6, ThenKnows DEF DomainInv, OneOwner
<1> QED
  BY <1>2, <1>3

LEMMA UpdateRouteStep ==
  ASSUME DomainInv, NEW r \in DomainRequests, UpdateRoute(r)
  PROVE  DomainInv'
<1>1. PICK d \in Claims : d = domainCalls[r].claim
  BY DEF DomainInv, UpdateRoute, ClaimKnown
<1>2. UNCHANGED << domains, proven >> /\ domainCalls[r].next = "update route"
  BY DEF UpdateRoute
<1>3. /\ EndDomainCall(r) \/ ThenDo(r, "look again")
      /\ \/ routes' = routes
         \/ (routes[d] = "live" \/ RouteFree) /\ routes' = [ routes EXCEPT ![d] = "live" ]
  BY <1>1 DEF UpdateRoute
<1>4. /\ DOMAIN routes' = Claims
      /\ \A e, f \in Claims : routes'[e] = "live" /\ routes'[f] = "live" => e = f
  BY <1>3 DEF DomainInv, OneOwner, RouteFree
<1>5. /\ domainCalls' \in [ DomainRequests -> DomainTx ]
      /\ \A b \in DomainRequests : ClaimKnown(domainCalls'[b]) /\ ProofKnown(domainCalls[b])'
  BY <1>2, <1>3, EndKnows, ThenKnows
<1> QED
  BY <1>2, <1>4, <1>5 DEF DomainInv, OneOwner, ActiveWasProven, LiveClaim

LEMMA ReportStep ==
  ASSUME DomainInv, NEW r \in DomainRequests, ReportCertificate(r)
  PROVE  DomainInv'
<1>1. PICK d \in Claims : d = domainCalls[r].claim /\ d \in proven
  BY DEF DomainInv, ReportCertificate, ClaimKnown, ProofKnown
<1>2. EndDomainCall(r) /\ UNCHANGED << routes, proven >>
  BY DEF ReportCertificate
<1>3. /\ domains' \in [ Claims -> DomainRow ] /\ ActiveWasProven'
      /\ \A e, f \in Claims : LiveClaim(e)' /\ LiveClaim(f)' => e = f
  <2>1. CASE HostFree(d)
    <3>1. PICK s \in { "active", "certificate_pending" } : SetStatus(d, s)
      BY <1>1, <2>1 DEF ReportCertificate
    <3>2. s \in DomainStatuses
      BY DEF DomainStatuses
    <3> QED BY <1>1, <1>2, <2>1, <3>1, <3>2, StatusWritten DEF DomainInv
  <2>2. CASE ~ HostFree(d)
    <3>1. domains' = domains
      BY <1>1, <2>2 DEF ReportCertificate
    <3> QED BY <1>2, <3>1 DEF DomainInv, OneOwner, ActiveWasProven, LiveClaim
  <2> QED BY <2>1, <2>2
<1> QED
  BY <1>2, <1>3, EndKnows DEF DomainInv, OneOwner

\* A route that is marked removed leaves no two live.
LEMMA RouteRemoved ==
  ASSUME DomainInv, NEW r \in DomainRequests, NEW d,
         routes' = IF domainCalls[r].routed THEN [ routes EXCEPT ![d] = "removed" ] ELSE routes
  PROVE  /\ DOMAIN routes' = Claims
         /\ \A e, f \in Claims : routes'[e] = "live" /\ routes'[f] = "live" => e = f
BY DEF DomainInv, OneOwner

LEMMA RemoveSteps ==
  ASSUME DomainInv, NEW r \in DomainRequests, RemoveRoute(r) \/ RemoveDomain(r)
  PROVE  DomainInv'
<1>1. PICK d \in Claims : d = domainCalls[r].claim
  BY DEF DomainInv, RemoveRoute, RemoveDomain, ClaimKnown
<1>2. CASE RemoveDomain(r)
  <2>1. /\ DOMAIN routes' = Claims
        /\ \A e, f \in Claims : routes'[e] = "live" /\ routes'[f] = "live" => e = f
    BY <1>2, RouteRemoved DEF RemoveDomain
  <2>2. PICK x : x = [ status |-> "removed", routed |-> FALSE ]
    OBVIOUS
  <2>3. x \in DomainRow
    BY <2>2 DEF DomainRow, DomainStatuses
  <2>4. domains' = [ domains EXCEPT ![d] = x ] /\ EndDomainCall(r) /\ proven' = proven
    BY <1>1, <1>2, <2>2 DEF RemoveDomain
  <2>5. /\ domains' \in [ Claims -> DomainRow ] /\ ActiveWasProven'
        /\ \A e, f \in Claims : LiveClaim(e)' /\ LiveClaim(f)' => e = f
    BY <2>2, <2>3, <2>4, RowWritten DEF DomainInv
  <2> QED BY <2>1, <2>4, <2>5, EndKnows DEF DomainInv, OneOwner
<1>3. CASE RemoveRoute(r)
  <2>1. /\ DOMAIN routes' = Claims
        /\ \A e, f \in Claims : routes'[e] = "live" /\ routes'[f] = "live" => e = f
    BY <1>3, RouteRemoved DEF RemoveRoute
  <2>2. UNCHANGED << domains, proven >>
    BY <1>3 DEF RemoveRoute
  <2>3. PICK p \in DomainTx : p = domainCalls[r]
    BY DEF DomainInv
  <2>4. PICK q : q = [ p EXCEPT !.next = "erase", !.routed = domains[d].routed ]
    OBVIOUS
  <2>5. q \in DomainTx /\ q.claim = d /\ q.next = "erase"
    <3>1. domains[d].routed \in BOOLEAN
      BY DEF DomainInv, DomainRow
    <3> QED BY <1>1, <2>3, <2>4, <3>1 DEF DomainTx
  <2>6. ClaimKnown(q) /\ ProofKnown(q)
    BY <2>5 DEF ClaimKnown, ProofKnown
  <2>7. \/ EndDomainCall(r)
        \/ domainCalls' = [ domainCalls EXCEPT ![r].next = "erase", ![r].routed = domains[d].routed ]
    BY <1>1, <1>3 DEF RemoveRoute
  <2>8. [ domainCalls EXCEPT ![r].next = "erase", ![r].routed = domains[d].routed ] = [ domainCalls EXCEPT ![r] = q ]
    BY <2>3, <2>4 DEF DomainInv
  <2>9. /\ domainCalls' \in [ DomainRequests -> DomainTx ]
        /\ \A b \in DomainRequests : ClaimKnown(domainCalls'[b]) /\ ProofKnown(domainCalls[b])'
    BY <2>2, <2>5, <2>6, <2>7, <2>8, EndKnows, CallsKnow
  <2> QED BY <2>1, <2>2, <2>9 DEF DomainInv, OneOwner, ActiveWasProven, LiveClaim
<1> QED
  BY <1>2, <1>3

LEMMA DomainStarts == DomainInit => DomainInv
<1> SUFFICES ASSUME DomainInit PROVE DomainInv
  OBVIOUS
<1>1. domains \in [ Claims -> DomainRow ]
  BY DEF DomainInit, DomainRow, DomainStatuses
<1>2. /\ domainCalls \in [ DomainRequests -> DomainTx ]
      /\ \A r \in DomainRequests : ClaimKnown(domainCalls[r]) /\ ProofKnown(domainCalls[r])
  BY IdleKnows DEF DomainInit
<1> QED
  BY <1>1, <1>2 DEF DomainInit, DomainInv, ActiveWasProven, OneOwner, LiveClaim

LEMMA DomainSteps == DomainInv /\ [DomainNext]_domainVars => DomainInv'
<1> SUFFICES ASSUME DomainInv, [DomainNext]_domainVars PROVE DomainInv'
  OBVIOUS
<1>1. CASE UNCHANGED << domains, routes, domainCalls, proven >>
  BY <1>1 DEF DomainInv, ActiveWasProven, OneOwner, LiveClaim, ClaimKnown, ProofKnown
<1>2. ASSUME NEW r \in DomainRequests, NEW d \in Claims,
             ReadChallenge(r, d) \/ ReadVerified(r, d) \/ ReadDomain(r, d)
      PROVE  DomainInv'
  BY <1>2, BeginKnows DEF ReadChallenge, ReadVerified, ReadDomain
<1>3. ASSUME NEW r \in DomainRequests, LookAgain(r) PROVE DomainInv'
  BY <1>3, ThenKnows, EndKnows
  DEF LookAgain, DomainInv, ActiveWasProven, OneOwner, LiveClaim
<1> QED
  BY <1>1, <1>2, <1>3, RequestStep, VerifyStep, ActivateStep, UpdateRouteStep, ReportStep,
      RemoveSteps
  DEF DomainNext, domainVars, ChallengeExpires

\* Only a claim that was proven is active, and a hostname has one claim and one
\* route, for any number of claims and overlapping requests.
THEOREM DomainsProven == DomainSpec => []ActiveWasProven
<1>1. DomainInv => ActiveWasProven
  BY DEF DomainInv
<1> QED
  BY <1>1, DomainStarts, DomainSteps, PTL DEF DomainSpec

THEOREM HostnamesOwned == DomainSpec => []OneOwner
<1>1. DomainInv => OneOwner
  BY DEF DomainInv
<1> QED
  BY <1>1, DomainStarts, DomainSteps, PTL DEF DomainSpec

\* The challenge and the route of every claim.
RoutesTyped ==
  /\ challenges \in [ Claims -> { "absent", "open", "expired" } ]
  /\ routes \in [ Claims -> { "absent", "live", "removed" } ]

LEMMA RoutesStep == RoutesTyped /\ [DomainNext]_domainVars => RoutesTyped'
<1> SUFFICES ASSUME RoutesTyped, [DomainNext]_domainVars PROVE RoutesTyped'
  OBVIOUS
<1>1. CASE UNCHANGED << challenges, routes >>
  BY <1>1 DEF RoutesTyped
<1>2. ASSUME NEW d \in Claims, RequestDomain(d) \/ ChallengeExpires(d) PROVE RoutesTyped'
  BY <1>2 DEF RequestDomain, ChallengeExpires, RoutesTyped
<1>3. ASSUME NEW r \in DomainRequests, ActivateDomain(r) \/ UpdateRoute(r) \/ RemoveRoute(r) \/ RemoveDomain(r)
      PROVE  RoutesTyped'
  BY <1>3 DEF ActivateDomain, UpdateRoute, RemoveRoute, RemoveDomain, RoutesTyped
<1> QED
  BY <1>1, <1>2, <1>3
  DEF DomainNext, domainVars, ReadChallenge, ReadVerified, ReadDomain, VerifyDomain, LookAgain,
      ReportCertificate

\* The rows of the domains, their challenges and routes and the requests under way
\* keep their types, for any number of claims and overlapping requests.
THEOREM DomainsTyped == DomainSpec => []DomainTypeOK
<1>1. DomainInit => RoutesTyped
  BY DEF DomainInit, RoutesTyped
<1>2. DomainInv /\ RoutesTyped => DomainTypeOK
  BY DEF DomainInv, RoutesTyped, DomainTypeOK, DomainRow, DomainTx
<1> QED
  BY <1>1, <1>2, RoutesStep, DomainStarts, DomainSteps, PTL DEF DomainSpec

-----------------------------------------------------------------------------
(***************************************************************************)
(* Policy exceptions. A call knows a row that was the row at its version,  *)
(* so that what it saves over that version is one step of the row's life;  *)
(* and a row that is approved or active was approved by somebody else and, *)
(* when active, after its window began.                                    *)
(***************************************************************************)
Row == [ status : ExceptionStatuses, requester : Members, approver : Members \union { "none" },
         window : Windows, version : Nat ]

ExceptionSound(x, t) ==
  /\ x.status = "pending" => x.approver = "none"
  /\ x.status \in { "approved", "active" } => x.approver \notin { "none", x.requester }
  /\ x.status = "active" => x.window[1] <= t

CallTx == [ kind : { "none", "approve", "revoke", "applies" }, by : Members \union { "none" },
            read : Row \union { NoException } ]

CallKnows(q) ==
  q.kind # "none" =>
    /\ q.by \in Members /\ q.read \in Row /\ ExceptionSound(q.read, instant)
    /\ q.read.version <= exception.version
    /\ q.read.version = exception.version => q.read = exception

ExceptionInv ==
  /\ instant \in Nat
  /\ exception = NoException \/ (exception \in Row /\ ExceptionSound(exception, instant))
  /\ calls \in [ ExceptionCalls -> CallTx ] /\ \A c \in ExceptionCalls : CallKnows(calls[c])
  /\ emitted \in [ { "expired", "approved", "revoked" } -> Nat ]
  /\ InForce
  /\ ReportedOnce

\* One step of the life of a row.
NextOf(x, y, t) ==
  /\ y \in Row /\ ExceptionSound(y, t) /\ y.requester = x.requester /\ y.window = x.window
  /\ y # x => /\ y.version > x.version /\ x.status \notin EndedStatuses
              /\ y.status \in { "approved", "active", "expired", "revoked" }
              /\ y.approver = x.approver \/ (x.approver = "none" /\ y.approver # "none")

LEMMA RefreshedRow ==
  ASSUME NEW x \in Row, NEW t \in Nat, ExceptionSound(x, t)
  PROVE  /\ NextOf(x, Refreshed(x, t), t) /\ Refreshed(x, t).approver = x.approver
         /\ Refreshed(x, t).version >= x.version
         /\ Refreshed(x, t).status = "active" => x.window[1] <= t /\ t < x.window[2]
         /\ Refreshed(x, t).status = "pending" => x.status = "pending"
         /\ Refreshed(x, t).status \in EndedStatuses \/ x.status \notin EndedStatuses
<1>1. x.window[1] \in Nat /\ x.window[2] \in Nat /\ x.version \in Nat
  BY ExceptionAssumption DEF Row
<1>2. PICK s : s = StatusAt(x, t)
  OBVIOUS
<1>3. /\ s \in ExceptionStatuses
      /\ s # x.status => x.status \in { "approved", "active" } /\ s \in { "active", "expired" }
      /\ s = "active" => x.status \in { "approved", "active" } /\ t < x.window[2]
      /\ s = "active" => x.window[1] <= t
  BY <1>1, <1>2 DEF StatusAt, Row, ExceptionStatuses, ExceptionSound
<1>4. CASE s = x.status
  <2>1. Refreshed(x, t) = x
    BY <1>2, <1>4 DEF Refreshed
  <2> QED BY <1>1, <1>3, <1>4, <2>1 DEF NextOf
<1>5. CASE s # x.status
  <2>0. PICK v \in Nat : v = x.version + 1
    BY <1>1
  <2>1. PICK y : y = [ x EXCEPT !.status = s, !.version = v ]
    OBVIOUS
  <2>2. Refreshed(x, t) = y
    BY <1>2, <1>5, <2>0, <2>1 DEF Refreshed
  <2>3. /\ y \in Row /\ y.status = s /\ y.version = v /\ y.requester = x.requester
        /\ y.window = x.window /\ y.approver = x.approver
    BY <1>3, <2>1 DEF Row
  <2>4. ExceptionSound(y, t)
    BY <1>3, <1>5, <2>3 DEF ExceptionSound
  <2> QED BY <1>1, <1>3, <1>5, <2>0, <2>2, <2>3, <2>4 DEF NextOf, EndedStatuses
<1> QED
  BY <1>4, <1>5

LEMMA ApprovedRow ==
  ASSUME NEW x \in Row, NEW t \in Nat, ExceptionSound(x, t), NEW m \in Members, MayApprove(m, x)
  PROVE  /\ Approve(m, x, t) \in Row /\ ExceptionSound(Approve(m, x, t), t)
         /\ Approve(m, x, t).requester = x.requester /\ Approve(m, x, t).window = x.window
         /\ Approve(m, x, t).version > x.version /\ Approve(m, x, t).approver = m
         /\ Approve(m, x, t).status \in { "approved", "active" }
<1>1. x.window[1] \in Nat /\ x.version \in Nat
  BY ExceptionAssumption DEF Row
<1>2. PICK s \in { "approved", "active" } : s = IF t < x.window[1] THEN "approved" ELSE "active"
  OBVIOUS
<1>3. PICK v \in Nat : v = x.version + 1
  BY <1>1
<1>4. PICK y : y = [ x EXCEPT !.status = s, !.approver = m, !.version = v ]
  OBVIOUS
<1>5. Approve(m, x, t) = y
  BY <1>3, <1>2, <1>4 DEF Approve
<1>6. s \in ExceptionStatuses
  BY DEF ExceptionStatuses
<1>7. /\ y \in Row /\ y.status = s /\ y.version = v /\ y.requester = x.requester
      /\ y.window = x.window /\ y.approver = m
  BY <1>4, <1>6 DEF Row
<1>8. ExceptionSound(y, t)
  BY <1>1, <1>2, <1>7, ExceptionAssumption DEF ExceptionSound, MayApprove
<1> QED
  BY <1>3, <1>1, <1>5, <1>7, <1>8

LEMMA RevokedRow ==
  ASSUME NEW x \in Row, NEW t \in Nat
  PROVE  /\ Revoke(x) \in Row /\ ExceptionSound(Revoke(x), t) /\ Revoke(x).requester = x.requester
         /\ Revoke(x).window = x.window /\ Revoke(x).approver = x.approver
         /\ Revoke(x).version > x.version /\ Revoke(x).status = "revoked"
<1>1. x.version \in Nat /\ "revoked" \in ExceptionStatuses
  BY DEF Row, ExceptionStatuses
<1>2. PICK v \in Nat : v = x.version + 1
  BY <1>1
<1>3. PICK y : y = [ x EXCEPT !.status = "revoked", !.version = v ]
  OBVIOUS
<1>4. /\ y \in Row /\ y.status = "revoked" /\ y.version = v /\ y.requester = x.requester
      /\ y.window = x.window /\ y.approver = x.approver
  BY <1>1, <1>3 DEF Row
<1>5. Revoke(x) = y
  BY <1>2, <1>3 DEF Revoke
<1> QED
  BY <1>1, <1>2, <1>4, <1>5 DEF ExceptionSound

LEMMA OutcomeRow ==
  ASSUME NEW q, q.kind # "none", q.by \in Members, q.read \in Row, NEW t \in Nat, ExceptionSound(q.read, t)
  PROVE  /\ NextOf(q.read, Outcome(q, t), t)
         /\ q.kind \notin { "approve", "revoke" } /\ Outcome(q, t).status = "active" =>
              Outcome(q, t).window[1] <= t /\ t < Outcome(q, t).window[2]
<1>1. PICK x \in Row : x = q.read
  OBVIOUS
<1>2. PICK now : now = Refreshed(x, t)
  OBVIOUS
<1>3. ExceptionSound(x, t)
  BY <1>1
<1>4. /\ NextOf(x, now, t) /\ now.approver = x.approver /\ now.version >= x.version
      /\ now.status = "active" => x.window[1] <= t /\ t < x.window[2]
      /\ now.status = "pending" => x.status = "pending"
      /\ now.status \in EndedStatuses \/ x.status \notin EndedStatuses
  BY <1>2, <1>3, RefreshedRow
<1>5. now \in Row /\ ExceptionSound(now, t) /\ now.requester = x.requester /\ now.window = x.window
      /\ x.version \in Nat /\ now.version \in Nat
  BY <1>4 DEF NextOf, Row
<1>6. NextOf(x, x, t)
  BY <1>3 DEF NextOf
<1>7. CASE q.kind = "approve"
  <2>1. CASE MayApprove(q.by, now)
    <3>1. PICK m \in Members : m = q.by
      OBVIOUS
    <3>2. PICK a : a = Approve(m, now, t)
      OBVIOUS
    <3>3. /\ a \in Row /\ ExceptionSound(a, t) /\ a.requester = now.requester /\ a.window = now.window
          /\ a.version > now.version /\ a.approver = m /\ a.status \in { "approved", "active" }
      BY <1>5, <2>1, <3>1, <3>2, ApprovedRow
    <3>4. PICK y : y = Refreshed(a, t)
      OBVIOUS
    <3>5. /\ NextOf(a, y, t) /\ y.approver = m /\ y.version >= a.version
      BY <3>3, <3>4, RefreshedRow
    <3>6. y \in Row /\ ExceptionSound(y, t) /\ y.requester = x.requester /\ y.window = x.window
          /\ y.version \in Nat /\ a.version \in Nat
      BY <1>5, <3>3, <3>5 DEF NextOf, Row
    <3>7. y.status \in { "approved", "active", "expired", "revoked" }
      BY <3>3, <3>5 DEF NextOf
    <3>8. y.version > x.version
      BY <1>4, <1>5, <3>3, <3>5, <3>6
    <3>9. x.status = "pending" /\ x.approver = "none" /\ y.approver # "none"
      BY <1>3, <1>4, <2>1, <3>5, ExceptionAssumption DEF MayApprove, ExceptionSound
    <3>10. NextOf(x, y, t)
      BY <3>6, <3>7, <3>8, <3>9 DEF NextOf, EndedStatuses
    <3>11. Outcome(q, t) = y
      BY <1>1, <1>2, <1>7, <2>1, <3>1, <3>2, <3>4 DEF Outcome
    <3> QED BY <1>1, <1>7, <3>10, <3>11
  <2>2. CASE ~ MayApprove(q.by, now)
    <3>1. Outcome(q, t) = x
      BY <1>1, <1>2, <1>7, <2>2 DEF Outcome
    <3> QED BY <1>1, <1>6, <1>7, <3>1
  <2> QED BY <2>1, <2>2
<1>8. CASE q.kind = "revoke"
  <2>1. CASE MayRevoke(now)
    <3>1. PICK y : y = Revoke(now)
      OBVIOUS
    <3>2. /\ y \in Row /\ ExceptionSound(y, t) /\ y.requester = now.requester /\ y.window = now.window
          /\ y.approver = now.approver /\ y.version > now.version /\ y.status = "revoked"
      BY <1>5, <3>1, RevokedRow
    <3>3. y.version \in Nat
      BY <3>2 DEF Row
    <3>4. x.status \notin EndedStatuses
      BY <1>4, <2>1 DEF MayRevoke
    <3>5. NextOf(x, y, t)
      BY <1>4, <1>5, <3>2, <3>3, <3>4 DEF NextOf
    <3>6. Outcome(q, t) = y
      BY <1>1, <1>2, <1>8, <2>1, <3>1 DEF Outcome
    <3> QED BY <1>1, <1>8, <3>5, <3>6
  <2>2. CASE ~ MayRevoke(now)
    <3>1. Outcome(q, t) = x
      BY <1>1, <1>2, <1>8, <2>2 DEF Outcome
    <3> QED BY <1>1, <1>6, <1>8, <3>1
  <2> QED BY <2>1, <2>2
<1>9. CASE q.kind \notin { "approve", "revoke" }
  <2>1. Outcome(q, t) = now
    BY <1>1, <1>2, <1>9 DEF Outcome
  <2> QED BY <1>1, <1>4, <1>5, <2>1
<1> QED
  BY <1>7, <1>8, <1>9

\* The row that a commit replaces is the one the call had read.
LEMMA CallCommits ==
  ASSUME ExceptionInv, NEW c \in ExceptionCalls, NEW x \in Row, exception = x, calls[c].read = x,
         NEW y, y # x, NextOf(x, y, instant), CommitException(c, y)
  PROVE  /\ ReportedOnce' /\ emitted' \in [ { "expired", "approved", "revoked" } -> Nat ]
         /\ exception' = y
<1>1. /\ exception' = y
      /\ emitted' = [ a \in { "expired", "approved", "revoked" } |->
                        emitted[a] + IF a \in Reports(x, y) THEN 1 ELSE 0 ]
  BY DEF CommitException, ExceptionInv
<1>2. /\ emitted["expired"] = IF x.status = "expired" THEN 1 ELSE 0
      /\ emitted["revoked"] = IF x.status = "revoked" THEN 1 ELSE 0
      /\ emitted["approved"] = IF x.approver # "none" THEN 1 ELSE 0
  BY DEF ExceptionInv, ReportedOnce
<1>3. /\ x.status \notin { "expired", "revoked" }
      /\ y.status \in { "approved", "active", "expired", "revoked" }
      /\ y.approver = x.approver \/ (x.approver = "none" /\ y.approver # "none")
  BY DEF NextOf, EndedStatuses
<1>4. emitted'["expired"] = IF y.status = "expired" THEN 1 ELSE 0
  BY <1>1, <1>2, <1>3 DEF Reports
<1>5. emitted'["revoked"] = IF y.status = "revoked" THEN 1 ELSE 0
  BY <1>1, <1>2, <1>3 DEF Reports
<1>6. emitted'["approved"] = IF y.approver # "none" THEN 1 ELSE 0
  BY <1>1, <1>2, <1>3 DEF Reports
<1>7. emitted' \in [ { "expired", "approved", "revoked" } -> Nat ]
  BY <1>1 DEF ExceptionInv
<1> QED
  BY <1>1, <1>4, <1>5, <1>6, <1>7 DEF ReportedOnce

\* What a call has read stays a version of the row.
LEMMA CallsWait ==
  ASSUME ExceptionInv, instant' \in Nat, instant' >= instant,
         \/ exception' = exception
         \/ exception \in Row /\ exception' \in Row /\ exception'.version > exception.version,
         NEW c \in ExceptionCalls
  PROVE  CallKnows(calls[c])' \/ calls'[c] # calls[c]
<1> SUFFICES ASSUME calls'[c] = calls[c], calls[c].kind # "none" PROVE CallKnows(calls[c])'
  BY DEF CallKnows
<1>1. PICK q : q = calls[c]
  OBVIOUS
<1>2. /\ q.by \in Members /\ q.read \in Row /\ ExceptionSound(q.read, instant)
      /\ q.read.version <= exception.version
      /\ q.read.version = exception.version => q.read = exception
  BY <1>1 DEF ExceptionInv, CallKnows
<1>3. q.read.version \in Nat /\ q.read.window[1] \in Nat /\ instant \in Nat
  BY <1>2, ExceptionAssumption DEF Row, ExceptionInv
<1>4. ExceptionSound(q.read, instant')
  BY <1>2, <1>3 DEF ExceptionSound
<1>5. q.read.version <= exception'.version /\ (q.read.version = exception'.version => q.read = exception')
  <2>1. CASE exception' = exception
    BY <1>2, <2>1
  <2>2. CASE exception \in Row /\ exception' \in Row /\ exception'.version > exception.version
    <3>1. exception.version \in Nat /\ exception'.version \in Nat
      BY <2>2 DEF Row
    <3> QED BY <1>2, <1>3, <2>2, <3>1
  <2> QED BY <2>1, <2>2
<1> QED
  BY <1>1, <1>2, <1>4, <1>5 DEF CallKnows

LEMMA IdleCallKnows == IdleCall \in CallTx /\ IdleCall.kind = "none"
BY DEF IdleCall, CallTx

LEMMA CallEnds ==
  ASSUME ExceptionInv, NEW c \in ExceptionCalls, EndCall(c)
  PROVE  ExceptionInv'
<1>1. PICK q \in CallTx : q = calls[c]
  BY DEF ExceptionInv
<1>2. PICK y : y = Outcome(q, instant)
  OBVIOUS
<1>3. /\ q.kind # "none" /\ q.by \in Members /\ q.read \in Row /\ ExceptionSound(q.read, instant)
      /\ q.read.version <= exception.version
      /\ q.read.version = exception.version => q.read = exception
      /\ instant \in Nat /\ instant' = instant
  BY <1>1 DEF EndCall, ExceptionInv, CallKnows
<1>4. /\ NextOf(q.read, y, instant)
      /\ q.kind \notin { "approve", "revoke" } /\ y.status = "active" =>
           y.window[1] <= instant /\ instant < y.window[2]
  BY <1>2, <1>3, OutcomeRow
\* the row
<1>5. /\ ReportedOnce' /\ emitted' \in [ { "expired", "approved", "revoked" } -> Nat ]
      /\ exception' = NoException \/ (exception' \in Row /\ ExceptionSound(exception', instant))
      /\ \/ exception' = exception
         \/ exception \in Row /\ exception' \in Row /\ exception'.version > exception.version
  <2>1. CASE y # q.read /\ SaveException(c)
    <3>1. PICK x \in Row : x = q.read
      BY <1>3
    <3>2. exception = x /\ calls[c].read = x /\ y # x /\ NextOf(x, y, instant)
      BY <1>1, <1>3, <1>4, <2>1, <3>1 DEF SaveException
    <3>3. CommitException(c, y)
      BY <1>1, <1>2, <2>1 DEF EndCall
    <3>4. /\ ReportedOnce' /\ emitted' \in [ { "expired", "approved", "revoked" } -> Nat ]
          /\ exception' = y
      BY <3>2, <3>3, CallCommits
    <3> QED BY <3>2, <3>4 DEF NextOf
  <2>2. CASE ~ (y # q.read /\ SaveException(c))
    <3>1. UNCHANGED << exception, emitted >>
      BY <1>1, <1>2, <2>2 DEF EndCall
    <3> QED BY <3>1 DEF ExceptionInv, ReportedOnce
  <2> QED BY <2>1, <2>2
\* the answer
<1>6. InForce'
  <2>1. granted' \subseteq granted
        \/ (/\ q.kind = "applies" /\ y.status = "active"
            /\ granted' = granted \union { [ on |-> y, at |-> instant ] })
    BY <1>1, <1>2 DEF EndCall
  <2>2. CASE granted' \subseteq granted
    BY <2>2 DEF ExceptionInv, InForce
  <2>3. CASE /\ q.kind = "applies" /\ y.status = "active"
             /\ granted' = granted \union { [ on |-> y, at |-> instant ] }
    <3>1. PICK e : e = [ on |-> y, at |-> instant ]
      OBVIOUS
    <3>2. e.on = y /\ e.at = instant
      BY <3>1
    <3>3. y.approver \notin { "none", y.requester } /\ y.window[1] <= instant /\ instant < y.window[2]
      BY <1>4, <2>3 DEF NextOf, ExceptionSound
    <3>4. granted' = granted \union { e }
      BY <2>3, <3>1
    <3> QED BY <3>2, <3>3, <3>4 DEF ExceptionInv, InForce
  <2> QED BY <2>1, <2>2, <2>3
\* the calls
<1>7. /\ calls'[c] = IdleCall /\ \A b \in ExceptionCalls \ { c } : calls'[b] = calls[b]
      /\ calls' \in [ ExceptionCalls -> CallTx ]
  BY IdleCallKnows DEF EndCall, ExceptionInv
<1>8. ASSUME NEW b \in ExceptionCalls PROVE CallKnows(calls[b])'
  <2>1. CASE b = c
    BY <1>7, <2>1, IdleCallKnows DEF CallKnows
  <2>2. CASE b # c
    BY <1>3, <1>5, <1>7, <2>2, CallsWait
  <2> QED BY <2>1, <2>2
<1> QED
  BY <1>3, <1>5, <1>6, <1>7, <1>8 DEF ExceptionInv

LEMMA ReadStep ==
  ASSUME ExceptionInv, NEW c \in ExceptionCalls, NEW m \in Members,
         NEW kind \in { "approve", "revoke", "applies" }, ReadException(c, kind, m)
  PROVE  ExceptionInv'
<1>1. PICK q : q = [ kind |-> kind, by |-> m, read |-> exception ]
  OBVIOUS
<1>2. /\ exception \in Row /\ ExceptionSound(exception, instant) /\ UNCHANGED << exception, instant, emitted, granted >>
      /\ calls' = [ calls EXCEPT ![c] = q ]
  BY <1>1 DEF ReadException, ExceptionInv
<1>3. q \in CallTx /\ q.by = m /\ q.read = exception /\ q.kind = kind
  BY <1>1, <1>2 DEF CallTx
<1>4. exception.version \in Nat /\ instant \in Nat
  BY <1>2 DEF Row, ExceptionInv
<1>5. CallKnows(q)'
  BY <1>2, <1>3, <1>4 DEF CallKnows
<1>6. /\ calls'[c] = q /\ \A b \in ExceptionCalls \ { c } : calls'[b] = calls[b]
      /\ calls' \in [ ExceptionCalls -> CallTx ]
  BY <1>2, <1>3 DEF ExceptionInv
<1>7. ASSUME NEW b \in ExceptionCalls PROVE CallKnows(calls[b])'
  <2>1. CASE b = c
    BY <1>5, <1>6, <2>1 DEF CallKnows
  <2>2. CASE b # c
    BY <1>2, <1>4, <1>6, <2>2, CallsWait
  <2> QED BY <2>1, <2>2
<1> QED
  BY <1>2, <1>6, <1>7 DEF ExceptionInv, InForce, ReportedOnce

LEMMA RequestedStep ==
  ASSUME ExceptionInv, NEW m \in Members, NEW w \in Windows, RequestException(m, w)
  PROVE  ExceptionInv'
<1>1. PICK y : y = [ status |-> "pending", requester |-> m, approver |-> "none", window |-> w, version |-> 1 ]
  OBVIOUS
<1>2. /\ exception = NoException /\ exception' = y /\ UNCHANGED << calls, instant, emitted, granted >>
  BY <1>1 DEF RequestException
<1>3. y \in Row /\ y.status = "pending" /\ y.approver = "none"
  BY <1>1 DEF Row, ExceptionStatuses
<1>4. ExceptionSound(y, instant')
  BY <1>3 DEF ExceptionSound
<1>5. NoException.version = 0 /\ NoException.status = "none" /\ NoException.approver = "none" /\ NoException \notin Row
  BY DEF NoException, Row, ExceptionStatuses
<1>6. ASSUME NEW b \in ExceptionCalls PROVE calls[b].kind = "none"
  <2>1. SUFFICES ASSUME calls[b].kind # "none" PROVE FALSE
    OBVIOUS
  <2>2. PICK x \in Row : x = calls[b].read /\ x.version <= 0 /\ (x.version = 0 => x = NoException)
    BY <1>2, <1>5, <2>1 DEF ExceptionInv, CallKnows
  <2>3. x.version \in Nat
    BY DEF Row
  <2> QED BY <1>5, <2>2, <2>3
<1>7. \A b \in ExceptionCalls : CallKnows(calls[b])'
  BY <1>2, <1>6 DEF CallKnows
<1>8. ReportedOnce'
  BY <1>2, <1>3, <1>5 DEF ExceptionInv, ReportedOnce
<1> QED
  BY <1>2, <1>3, <1>4, <1>7, <1>8 DEF ExceptionInv, InForce

LEMMA TimeStep ==
  ASSUME ExceptionInv, TimePasses
  PROVE  ExceptionInv'
<1>1. instant \in Nat /\ instant' = instant + 1 /\ UNCHANGED << exception, calls, emitted, granted >>
  BY DEF TimePasses, ExceptionInv
<1>2. \A b \in ExceptionCalls : CallKnows(calls[b])'
  BY <1>1, CallsWait
<1>3. exception' = NoException \/ (exception' \in Row /\ ExceptionSound(exception', instant'))
  <2>1. CASE exception \in Row /\ ExceptionSound(exception, instant)
    <3>1. exception.window[1] \in Nat
      BY <2>1, ExceptionAssumption DEF Row
    <3> QED BY <1>1, <2>1, <3>1 DEF ExceptionSound
  <2> QED BY <1>1, <2>1 DEF ExceptionInv
<1> QED
  BY <1>1, <1>2, <1>3 DEF ExceptionInv, InForce, ReportedOnce

LEMMA ExceptionStarts == ExceptionInit => ExceptionInv
<1> SUFFICES ASSUME ExceptionInit PROVE ExceptionInv
  OBVIOUS
<1>1. calls \in [ ExceptionCalls -> CallTx ] /\ \A c \in ExceptionCalls : CallKnows(calls[c])
  BY IdleCallKnows DEF ExceptionInit, CallKnows
<1>2. ReportedOnce
  BY DEF ExceptionInit, ReportedOnce, NoException
<1> QED
  BY <1>1, <1>2 DEF ExceptionInit, ExceptionInv, InForce

LEMMA ExceptionSteps == ExceptionInv /\ [ExceptionNext]_exceptionVars => ExceptionInv'
<1> SUFFICES ASSUME ExceptionInv, [ExceptionNext]_exceptionVars PROVE ExceptionInv'
  OBVIOUS
<1>1. CASE UNCHANGED exceptionVars
  BY <1>1 DEF exceptionVars, ExceptionInv, InForce, ReportedOnce, CallKnows
<1> QED
  BY <1>1, TimeStep, RequestedStep, ReadStep, CallEnds DEF ExceptionNext

\* An exception answers only in its window and with somebody else's approval,
\* for any members, windows and number of overlapping calls.
THEOREM ExceptionsInForce == ExceptionSpec => []InForce
<1>1. ExceptionInv => InForce
  BY DEF ExceptionInv
<1> QED
  BY <1>1, ExceptionStarts, ExceptionSteps, PTL DEF ExceptionSpec

\* An approval, a revocation and an expiry are reported once each, for any
\* number of calls that notice them together.
THEOREM ExceptionsReported == ExceptionSpec => []ReportedOnce
<1>1. ExceptionInv => ReportedOnce
  BY DEF ExceptionInv
<1> QED
  BY <1>1, ExceptionStarts, ExceptionSteps, PTL DEF ExceptionSpec

\* The clock, and the answers that calls of applies() were given.
AnswersTyped ==
  /\ instant \in 0 .. MaxExceptionTime
  /\ granted \subseteq [ on : Row \union { NoException }, at : 0 .. MaxExceptionTime ]

LEMMA AnswersStep == ExceptionInv /\ AnswersTyped /\ [ExceptionNext]_exceptionVars => AnswersTyped'
<1> SUFFICES ASSUME ExceptionInv, AnswersTyped, [ExceptionNext]_exceptionVars PROVE AnswersTyped'
  OBVIOUS
<1>1. CASE UNCHANGED << instant, granted >>
  BY <1>1 DEF AnswersTyped
<1>2. CASE TimePasses
  BY <1>2, ExceptionAssumption DEF TimePasses, AnswersTyped
<1>3. ASSUME NEW c \in ExceptionCalls, EndCall(c) PROVE AnswersTyped'
  <2>1. PICK q : q = calls[c]
    OBVIOUS
  <2>2. PICK y : y = Outcome(q, instant)
    OBVIOUS
  <2>3. /\ q.kind # "none" /\ instant' = instant
        /\ granted' \subseteq granted \/ granted' = granted \union { [ on |-> y, at |-> instant ] }
    BY <1>3, <2>1, <2>2 DEF EndCall
  <2>4. q.by \in Members /\ q.read \in Row /\ ExceptionSound(q.read, instant) /\ instant \in Nat
    BY <2>1, <2>3 DEF ExceptionInv, CallKnows
  <2>5. y \in Row
    BY <2>2, <2>3, <2>4, OutcomeRow DEF NextOf
  <2>6. [ on |-> y, at |-> instant ] \in [ on : Row \union { NoException }, at : 0 .. MaxExceptionTime ]
    BY <2>5 DEF AnswersTyped
  <2> QED
    BY <2>3, <2>6 DEF AnswersTyped
<1> QED
  BY <1>1, <1>2, <1>3 DEF ExceptionNext, exceptionVars, RequestException, ReadException

\* The row of the exception, the calls, the reports and the answers keep their
\* types, for any members, windows and number of overlapping calls.
THEOREM ExceptionsTyped == ExceptionSpec => []ExceptionTypeOK
<1>1. ExceptionInit => AnswersTyped
  BY ExceptionAssumption DEF ExceptionInit, AnswersTyped
<1>2. ExceptionInv /\ AnswersTyped => ExceptionTypeOK
  BY DEF ExceptionInv, AnswersTyped, ExceptionTypeOK, Row, CallTx
<1> QED
  BY <1>1, <1>2, AnswersStep, ExceptionStarts, ExceptionSteps, PTL DEF ExceptionSpec

-----------------------------------------------------------------------------
(***************************************************************************)
(* Previews. One preview of the pull request is live, so every transaction *)
(* that looks for the live one finds the same. A key names one deployment  *)
(* and at most one revision, both of the commit and the trust that belong  *)
(* to the key; a row that is closing has a job that is not completed.      *)
(***************************************************************************)
PreviewKeys    == DOMAIN PrEvents \union ManualKeys
PreviewCommits == PrCommits \union { PrEvents[e].commit : e \in DOMAIN PrEvents }
DeploymentRow  == [ key : PreviewKeys, commit : PreviewCommits, untrusted : BOOLEAN,
                    ready : BOOLEAN ]
RevisionRow    == [ preview : Nat, commit : PreviewCommits, key : PreviewKeys,
                    deployment : PreviewKeys, untrusted : BOOLEAN,
                    status : { "pending", "ready" } ]
PreviewRow     == [ status : { "building", "ready", "closing", "removed" },
                    active : SUBSET RevisionRow,
                    job : { "none", "pending", "retry", "completed", "failed" },
                    expired : BOOLEAN ]
HandlerState   == [ step : { "idle", "event", "deploy", "close", "verify" },
                    key : DOMAIN PrEvents \union { "none" }, current : Nat,
                    revision : { { } } ]
CleanerState   == [ step : { "idle", "clean" }, preview : Nat ]

PreviewTyped ==
  /\ forkedPr \in BOOLEAN
  /\ previewDeployments \subseteq DeploymentRow /\ revisions \subseteq RevisionRow
  /\ previews \in Seq(PreviewRow)
  /\ handler \in [ PrHandlers -> HandlerState ] /\ cleaner \in [ Cleaners -> CleanerState ]
  /\ \A h \in PrHandlers : handler[h].step \in { "event", "deploy" }
                           => handler[h].key \in DOMAIN PrEvents

\* The trust that a key's deployment and revision have, and the commit of an event.
OfKey(x) ==
  /\ x.untrusted = (x.key \in DOMAIN PrEvents /\ forkedPr)
  /\ x.key \in DOMAIN PrEvents => x.commit = PrEvents[x.key].commit

KeyedInv ==
  /\ \A d \in previewDeployments : OfKey(d)
  /\ \A d, e \in previewDeployments : d.key = e.key => d = e
  /\ \A r \in revisions : OfKey(r) /\ r.deployment = r.key
  /\ \A r \in revisions : \E d \in previewDeployments : d.key = r.key
  /\ \A r, s \in revisions : r.key = s.key => r = s
  /\ \A r, s \in revisions : r.preview = s.preview /\ r.commit = s.commit => r = s

RowSound(row) ==
  /\ row.status = "closing" => row.job \in { "pending", "retry", "failed" }
  /\ row.status = "removed" => row.job # "none"

PreviewRowsInv ==
  /\ OneLive(previews)
  /\ \A p \in DOMAIN previews : RowSound(previews[p])

PreviewInv == PreviewTyped /\ KeyedInv /\ PreviewRowsInv

LEMMA PreviewStarts == PreviewInit => PreviewInv
<1> SUFFICES ASSUME PreviewInit PROVE PreviewInv
  OBVIOUS
<1>a. /\ forkedPr \in BOOLEAN /\ previewDeployments = {} /\ revisions = {} /\ previews = << >>
      /\ handler = [ h \in PrHandlers |-> IdleHandler ]
      /\ cleaner = [ c \in Cleaners |-> IdleCleaner ]
  BY DEF PreviewInit
<1>1. IdleHandler \in HandlerState /\ IdleCleaner \in CleanerState /\ IdleHandler.step = "idle"
  BY DEF IdleHandler, IdleCleaner, HandlerState, CleanerState
<1>2. << >> \in Seq(PreviewRow) /\ DOMAIN << >> = {}
  BY EmptySeq
<1>3. PreviewTyped
  BY <1>a, <1>1, <1>2 DEF PreviewTyped
<1>4. KeyedInv
  BY <1>a DEF KeyedInv
<1>5. PreviewRowsInv
  BY <1>a, <1>2 DEF PreviewRowsInv, OneLive
<1> QED
  BY <1>3, <1>4, <1>5 DEF PreviewInv

LEMMA LiveFound ==
  ASSUME PreviewInv
  PROVE  /\ EventPreview \in Nat
         /\ LivePreviews # {} => EventPreview \in LivePreviews
         /\ \A p, q \in LivePreviews : p = q
<1>a. DOMAIN previews \subseteq Nat /\ OneLive(previews)
  BY DEF PreviewInv, PreviewTyped, PreviewRowsInv
<1>1. \A p, q \in LivePreviews : p = q
  BY <1>a DEF LivePreviews, OneLive
<1>2. LivePreviews \subseteq Nat
  BY <1>a DEF LivePreviews
<1>3. CASE LivePreviews = {}
  BY <1>1, <1>3 DEF EventPreview
<1>4. CASE LivePreviews # {}
  <2>1. PICK p \in LivePreviews : TRUE
    BY <1>4
  <2>2. p \in Nat /\ \A q \in LivePreviews : p <= q
    BY <1>1, <1>2
  <2>3. EventPreview \in LivePreviews
    BY <1>4, <2>1, <2>2 DEF EventPreview
  <2> QED
    BY <1>1, <1>2, <2>3
<1> QED
  BY <1>3, <1>4

\* One row of a sequence of previews is another one.
LEMMA PreviewSet ==
  ASSUME NEW rows \in Seq(PreviewRow), NEW p, NEW row, p \in DOMAIN rows => row \in PreviewRow
  PROVE  /\ [ rows EXCEPT ![p] = row ] \in Seq(PreviewRow)
         /\ DOMAIN [ rows EXCEPT ![p] = row ] = DOMAIN rows
         /\ \A q \in DOMAIN rows : [ rows EXCEPT ![p] = row ][q] = IF q = p THEN row ELSE rows[q]
<1> DEFINE new == [ rows EXCEPT ![p] = row ]
<1>a. DOMAIN rows = 1..Len(rows)
  OBVIOUS
<1>1. CASE p \in DOMAIN rows
  <2>1. p \in 1..Len(rows) /\ row \in PreviewRow /\ DOMAIN rows = 1..Len(rows)
    BY <1>1
  <2>2. new \in Seq(PreviewRow)
    BY <2>1, ExceptSeq
  <2>3. DOMAIN new = DOMAIN rows /\ \A q \in DOMAIN rows : new[q] = IF q = p THEN row ELSE rows[q]
    OBVIOUS
  <2> QED
    BY <2>2, <2>3
<1>2. CASE p \notin DOMAIN rows
  <2>1. \A q \in DOMAIN rows : new[q] = rows[q]
    BY <1>2
  <2>2. DOMAIN new = DOMAIN rows
    OBVIOUS
  <2>3. new = rows
    <3>1. rows = [ q \in DOMAIN rows |-> rows[q] ]
      OBVIOUS
    <3>2. new = [ q \in DOMAIN rows |-> new[q] ]
      BY <2>2
    <3> HIDE DEF new
    <3> QED
      BY <2>1, <3>1, <3>2
  <2> QED
    BY <1>2, <2>3
<1> QED
  BY <1>1, <1>2

\* A row that is written with a check of the index, and one that is written
\* without it and is no more live than it was.
LEMMA PreviewWritten ==
  ASSUME PreviewInv, NEW p, NEW row,
         p \in DOMAIN previews => row \in PreviewRow /\ RowSound(row),
         \/ previews' = Write(p, row)
         \/ /\ previews' = [ previews EXCEPT ![p] = row ]
            /\ p \in DOMAIN previews => row.status \in { "removed", previews[p].status }
  PROVE  /\ previews' \in Seq(PreviewRow)
         /\ DOMAIN previews' = DOMAIN previews
         /\ PreviewRowsInv'
<1> DEFINE rows == [ previews EXCEPT ![p] = row ]
<1>a. previews \in Seq(PreviewRow) /\ PreviewRowsInv
  BY DEF PreviewInv, PreviewTyped
<1>b. /\ rows \in Seq(PreviewRow) /\ DOMAIN rows = DOMAIN previews
      /\ \A q \in DOMAIN previews : rows[q] = IF q = p THEN row ELSE previews[q]
  BY <1>a, PreviewSet
<1>1. \A q \in DOMAIN rows : RowSound(rows[q])
  BY <1>a, <1>b DEF PreviewRowsInv
<1>2. \/ previews' = previews
      \/ previews' = rows /\ OneLive(rows)
  <2>1. CASE previews' = Write(p, row)
    BY <2>1 DEF Write
  <2>2. CASE /\ previews' = [ previews EXCEPT ![p] = row ]
             /\ p \in DOMAIN previews => row.status \in { "removed", previews[p].status }
    BY <1>a, <1>b, <2>2 DEF PreviewRowsInv, OneLive
  <2> QED
    BY <2>1, <2>2
<1>3. PreviewRowsInv'
  BY <1>a, <1>1, <1>2 DEF PreviewRowsInv, OneLive, RowSound
<1>4. previews' \in Seq(PreviewRow) /\ DOMAIN previews' = DOMAIN previews
  BY <1>a, <1>b, <1>2
<1> QED
  BY <1>3, <1>4

LEMMA ScheduledSound ==
  ASSUME NEW row \in PreviewRow, RowSound(row)
  PROVE  Scheduled(row) \in PreviewRow /\ RowSound(Scheduled(row))
<1>1. CASE row.job = "completed"
  BY <1>1 DEF Scheduled
<1>2. CASE row.job # "completed"
  <2> DEFINE job == IF row.job = "none" THEN "pending" ELSE row.job
             new == [ row EXCEPT !.status = "closing", !.job = job ]
  <2>1. Scheduled(row) = new
    BY <1>2 DEF Scheduled, PreviewRow
  <2>2. job \in { "pending", "retry", "failed" }
    BY <1>2 DEF PreviewRow
  <2> HIDE DEF job
  <2>3. new \in PreviewRow /\ new.status = "closing" /\ new.job = job
    BY <2>2 DEF PreviewRow
  <2> HIDE DEF new
  <2> QED
    BY <2>1, <2>2, <2>3 DEF RowSound
<1> QED
  BY <1>1, <1>2

\* The deployment and the revision of a request are created in one transaction.
LEMMA RevisionCreated ==
  ASSUME PreviewInv, NEW key \in PreviewKeys, NEW commit \in PreviewCommits,
         NEW fork \in BOOLEAN, CreateRevision(key, commit, fork), UNCHANGED forkedPr,
         fork = (key \in DOMAIN PrEvents /\ forkedPr),
         key \in DOMAIN PrEvents => commit = PrEvents[key].commit
  PROVE  /\ previewDeployments' \subseteq DeploymentRow /\ revisions' \subseteq RevisionRow
         /\ previews' \in Seq(PreviewRow)
         /\ KeyedInv' /\ PreviewRowsInv'
<1> DEFINE d   == DeploymentOf(key, commit, fork)
           p   == TargetPreview
           rev == RevisionOf(p, key, commit, fork)
           row == [ Instance(p) EXCEPT !.active = rev, !.status = "building" ]
<1>a. /\ previewDeployments \subseteq DeploymentRow /\ revisions \subseteq RevisionRow
      /\ previews \in Seq(PreviewRow) /\ KeyedInv /\ PreviewRowsInv
  BY DEF PreviewInv, PreviewTyped
<1>b. d \in DeploymentRow /\ d.key = key /\ OfKey(d)
  BY DEF DeploymentOf, DeploymentRow, OfKey
<1>1. /\ previewDeployments' \subseteq DeploymentRow
      /\ \A e \in previewDeployments' : OfKey(e)
      /\ \A e, f \in previewDeployments' : e.key = f.key => e = f
      /\ previewDeployments \subseteq previewDeployments'
      /\ \E e \in previewDeployments' : e.key = key
  <2>1. previewDeployments' = WithDeployment(key, commit, fork)
    BY DEF CreateRevision
  <2> HIDE DEF d
  <2>2. CASE \E e \in previewDeployments : e.key = key
    <3>1. previewDeployments' = previewDeployments
      BY <2>1, <2>2 DEF WithDeployment
    <3> QED
      BY <1>a, <2>2, <3>1 DEF KeyedInv
  <2>3. CASE ~ \E e \in previewDeployments : e.key = key
    <3>1. previewDeployments' = previewDeployments \union { d }
      BY <2>1, <2>3 DEF WithDeployment, d
    <3> QED
      BY <1>a, <1>b, <2>3, <3>1 DEF KeyedInv
  <2> QED
    BY <2>2, <2>3
<1>2. CASE \E r \in revisions : r.key = key
  <2>1. UNCHANGED << previews, revisions >>
    BY <1>2 DEF CreateRevision
  <2>2. KeyedInv'
    BY <1>a, <1>1, <2>1 DEF KeyedInv, OfKey
  <2> QED
    BY <1>a, <1>1, <2>1, <2>2 DEF PreviewRowsInv, OneLive
<1>3. CASE ~ \E r \in revisions : r.key = key
  <2>a. /\ previews' = IF p \in DOMAIN previews THEN [ previews EXCEPT ![p] = row ]
                       ELSE Append(previews, row)
        /\ revisions' = revisions \union rev
    BY <1>3 DEF CreateRevision
  <2>b. p \in Nat
    <3>1. EventPreview \in Nat /\ Len(previews) + 1 \in Nat
      BY <1>a, LiveFound
    <3> QED
      BY <3>1 DEF TargetPreview
  <2>1. /\ rev \subseteq RevisionRow
        /\ \A r \in revisions', s \in revisions' :
             (r.key = s.key \/ (r.preview = s.preview /\ r.commit = s.commit)) => r = s
        /\ \A r \in rev : r \notin revisions => OfKey(r) /\ r.deployment = key /\ r.key = key
    <3> DEFINE same == { r \in revisions : r.preview = p /\ r.commit = commit }
               new  == [ preview |-> p, commit |-> commit, key |-> key, deployment |-> key,
                         untrusted |-> fork, status |-> "pending" ]
    <3>1. CASE same # {}
      <4>1. rev = same
        BY <3>1 DEF RevisionOf
      <4>2. same \subseteq revisions
        OBVIOUS
      <4> HIDE DEF rev, same
      <4>3. revisions' = revisions
        BY <2>a, <4>1, <4>2
      <4> QED
        BY <1>a, <4>1, <4>2, <4>3 DEF KeyedInv
    <3>2. CASE same = {}
      <4>1. rev = { new }
        BY <3>2 DEF RevisionOf
      <4>2. /\ new \in RevisionRow /\ new.key = key /\ new.deployment = key /\ OfKey(new)
            /\ new.preview = p /\ new.commit = commit
        BY <2>b DEF RevisionRow, OfKey
      <4>3. \A r \in revisions : ~(r.preview = p /\ r.commit = commit)
        BY <3>2
      <4> HIDE DEF rev, new, same, p
      <4> QED
        BY <1>a, <1>3, <2>a, <4>1, <4>2, <4>3 DEF KeyedInv
    <3> QED
      BY <3>1, <3>2
  <2> HIDE DEF rev
  <2>2. KeyedInv'
    <3>1. \A r \in revisions' : OfKey(r) /\ r.deployment = r.key
      BY <1>a, <2>1, <2>a DEF KeyedInv
    <3>2. \A r \in revisions' : \E e \in previewDeployments' : e.key = r.key
      BY <1>a, <1>1, <2>1, <2>a DEF KeyedInv
    <3>3. /\ \A r, s \in revisions' : r.key = s.key => r = s
          /\ \A r, s \in revisions' : r.preview = s.preview /\ r.commit = s.commit => r = s
      BY <2>1
    <3> QED
      BY <1>1, <3>1, <3>2, <3>3 DEF KeyedInv, OfKey
  <2>3. previews' \in Seq(PreviewRow) /\ PreviewRowsInv'
    <3>1. CASE LivePreviews # {}
      <4>1. p \in DOMAIN previews /\ p \in LivePreviews /\ \A q \in LivePreviews : q = p
        BY <3>1, LiveFound DEF TargetPreview, LivePreviews
      <4> HIDE DEF p
      <4>2. previews[p] \in PreviewRow /\ Instance(p) = previews[p]
        BY <1>a, <4>1 DEF Instance
      <4>3. row \in PreviewRow /\ row.status = "building"
        BY <2>1, <4>2 DEF PreviewRow
      <4> HIDE DEF row
      <4>4. previews' = [ previews EXCEPT ![p] = row ]
        BY <2>a, <4>1
      <4>5. /\ previews' \in Seq(PreviewRow) /\ DOMAIN previews' = DOMAIN previews
            /\ \A q \in DOMAIN previews : previews'[q] = IF q = p THEN row ELSE previews[q]
        BY <1>a, <4>3, <4>4, PreviewSet
      <4>6. OneLive(previews')
        BY <4>1, <4>5 DEF OneLive, LivePreviews
      <4>7. \A q \in DOMAIN previews' : RowSound(previews'[q])
        BY <1>a, <4>3, <4>5 DEF PreviewRowsInv, RowSound
      <4> QED
        BY <4>5, <4>6, <4>7 DEF PreviewRowsInv, OneLive, RowSound
    <3>2. CASE LivePreviews = {}
      <4>1. p = Len(previews) + 1 /\ p \notin DOMAIN previews
        BY <1>a, <3>2 DEF TargetPreview
      <4>2. row \in PreviewRow /\ row.status = "building"
        <5>1. Instance(p) \in PreviewRow
          BY <4>1 DEF Instance, PreviewRow
        <5> QED
          BY <2>1, <5>1 DEF PreviewRow
      <4> HIDE DEF row
      <4>3. previews' = Append(previews, row)
        BY <2>a, <4>1
      <4>4. /\ previews' \in Seq(PreviewRow) /\ Len(previews') = Len(previews) + 1
            /\ \A q \in DOMAIN previews : previews'[q] = previews[q]
            /\ previews'[Len(previews) + 1] = row
        BY <1>a, <4>2, <4>3, AppendProperties
      <4>5. \A q \in DOMAIN previews' : q \in DOMAIN previews \/ previews'[q] = row
        BY <1>a, <4>4
      <4>6. OneLive(previews')
        <5>1. \A q \in DOMAIN previews : previews[q].status = "removed"
          BY <3>2 DEF LivePreviews
        <5>2. \A q \in DOMAIN previews' : previews'[q].status # "removed"
                => q = Len(previews) + 1
          BY <1>a, <4>4, <5>1
        <5> QED
          BY <5>2 DEF OneLive
      <4>7. \A q \in DOMAIN previews' : RowSound(previews'[q])
        BY <1>a, <4>2, <4>4, <4>5 DEF PreviewRowsInv, RowSound
      <4> QED
        BY <4>4, <4>6, <4>7 DEF PreviewRowsInv, OneLive, RowSound
    <3> QED
      BY <3>1, <3>2
  <2>4. revisions' \subseteq RevisionRow
    BY <1>a, <2>1, <2>a
  <2> QED
    BY <1>1, <2>2, <2>3, <2>4
<1> QED
  BY <1>2, <1>3

\* What a request or a cleaner does by itself.
LEMMA OnlyHandler ==
  ASSUME PreviewInv,
         UNCHANGED << forkedPr, previewDeployments, previews, revisions >>,
         handler' \in [ PrHandlers -> HandlerState ], cleaner' \in [ Cleaners -> CleanerState ],
         \A h \in PrHandlers : handler'[h].step \in { "event", "deploy" }
                               => handler'[h].key \in DOMAIN PrEvents
  PROVE  PreviewInv'
<1>1. PreviewTyped'
  BY DEF PreviewInv, PreviewTyped
<1>2. KeyedInv' /\ PreviewRowsInv'
  BY DEF PreviewInv, KeyedInv, OfKey, PreviewRowsInv, OneLive, RowSound
<1> QED
  BY <1>1, <1>2 DEF PreviewInv

LEMMA HandlerTyped ==
  ASSUME PreviewInv, NEW h \in PrHandlers, NEW r \in HandlerState,
         handler' = [ handler EXCEPT ![h] = r ],
         r.step \in { "event", "deploy" } => r.key \in DOMAIN PrEvents
  PROVE  /\ handler' \in [ PrHandlers -> HandlerState ]
         /\ \A i \in PrHandlers : handler'[i].step \in { "event", "deploy" }
                                  => handler'[i].key \in DOMAIN PrEvents
  BY DEF PreviewInv, PreviewTyped

LEMMA IdleTyped ==
  /\ IdleHandler \in HandlerState /\ IdleHandler.step = "idle"
  /\ IdleCleaner \in CleanerState
  BY DEF IdleHandler, IdleCleaner, HandlerState, CleanerState

LEMMA HandlerSteps ==
  ASSUME PreviewInv, NEW h \in PrHandlers,
         \/ \E e \in DOMAIN PrEvents : ReceiveDelivery(h, e)
         \/ ReadEventPreview(h) \/ HandlerDies(h)
         \/ \E p \in DOMAIN previews : StartVerify(h, p)
  PROVE  PreviewInv'
<1>a. /\ handler \in [ PrHandlers -> HandlerState ] /\ cleaner \in [ Cleaners -> CleanerState ]
      /\ handler[h].step \in { "event", "deploy" } => handler[h].key \in DOMAIN PrEvents
      /\ DOMAIN previews \subseteq Nat
  BY DEF PreviewInv, PreviewTyped
<1>b. UNCHANGED << forkedPr, previewDeployments, previews, revisions, cleaner >>
  BY DEF ReceiveDelivery, ReadEventPreview, HandlerDies, StartVerify
<1>1. \E r \in HandlerState : /\ handler' = [ handler EXCEPT ![h] = r ]
                              /\ r.step \in { "event", "deploy" } => r.key \in DOMAIN PrEvents
  <2>1. ASSUME NEW e \in DOMAIN PrEvents, ReceiveDelivery(h, e)
        PROVE  \E r \in HandlerState :
                 /\ handler' = [ handler EXCEPT ![h] = r ]
                 /\ r.step \in { "event", "deploy" } => r.key \in DOMAIN PrEvents
    <3> DEFINE r == [ IdleHandler EXCEPT !.step = "event", !.key = e ]
    <3>1. r \in HandlerState /\ r.key = e
      BY IdleTyped DEF HandlerState
    <3>2. handler' = [ handler EXCEPT ![h] = r ]
      BY <2>1 DEF ReceiveDelivery
    <3> HIDE DEF r
    <3> QED
      BY <3>1, <3>2
  <2>2. CASE ReadEventPreview(h)
    <3> DEFINE q == handler[h]
               r == [ q EXCEPT !.step = PrEvents[q.key].action, !.current = EventPreview ]
    <3>1. q \in HandlerState /\ q.key \in DOMAIN PrEvents
      BY <1>a, <2>2 DEF ReadEventPreview
    <3>2. PrEvents[q.key].action \in { "deploy", "close" } /\ EventPreview \in Nat
      BY <3>1, LiveFound, PreviewAssumption
    <3>3. handler' = [ handler EXCEPT ![h] = r ]
      BY <1>a, <2>2 DEF ReadEventPreview
    <3> HIDE DEF q
    <3>4. r \in HandlerState /\ r.key = q.key
      BY <3>1, <3>2 DEF HandlerState
    <3> HIDE DEF r
    <3> QED
      BY <3>1, <3>3, <3>4
  <2>3. CASE HandlerDies(h)
    BY <2>3, IdleTyped DEF HandlerDies
  <2>4. ASSUME NEW p \in DOMAIN previews, StartVerify(h, p)
        PROVE  \E r \in HandlerState :
                 /\ handler' = [ handler EXCEPT ![h] = r ]
                 /\ r.step \in { "event", "deploy" } => r.key \in DOMAIN PrEvents
    <3> DEFINE r == [ IdleHandler EXCEPT !.step = "verify", !.current = p ]
    <3>1. r \in HandlerState /\ r.step = "verify"
      BY <1>a, IdleTyped DEF HandlerState
    <3>2. handler' = [ handler EXCEPT ![h] = r ]
      BY <2>4 DEF StartVerify
    <3> HIDE DEF r
    <3> QED
      BY <3>1, <3>2
  <2> QED
    BY <2>1, <2>2, <2>3, <2>4
<1> QED
  BY <1>1, <1>a, <1>b, HandlerTyped, OnlyHandler

LEMMA PreviewDeploys ==
  ASSUME PreviewInv,
         \/ \E h \in PrHandlers : Deploy(h)
         \/ \E k \in ManualKeys, commit \in PrCommits : CreateManual(k, commit)
  PROVE  PreviewInv'
<1>a. /\ handler \in [ PrHandlers -> HandlerState ] /\ cleaner \in [ Cleaners -> CleanerState ]
      /\ forkedPr \in BOOLEAN /\ PreviewTyped
  BY DEF PreviewInv, PreviewTyped
<1>1. ASSUME NEW h \in PrHandlers, Deploy(h)
      PROVE  PreviewInv'
  <2> DEFINE key == handler[h].key
             commit == PrEvents[key].commit
  <2>1. key \in DOMAIN PrEvents
    BY <1>a, <1>1 DEF Deploy, PreviewTyped
  <2>2. key \in PreviewKeys /\ commit \in PreviewCommits
    BY <2>1 DEF PreviewKeys, PreviewCommits
  <2>3. CreateRevision(key, commit, forkedPr) /\ UNCHANGED << forkedPr, cleaner >>
        /\ handler' = [ handler EXCEPT ![h] = IdleHandler ]
    BY <1>1 DEF Deploy
  <2> HIDE DEF key
  <2>4. /\ previewDeployments' \subseteq DeploymentRow /\ revisions' \subseteq RevisionRow
        /\ previews' \in Seq(PreviewRow) /\ KeyedInv' /\ PreviewRowsInv'
    BY <1>a, <2>1, <2>2, <2>3, RevisionCreated
  <2>5. PreviewTyped'
    BY <1>a, <2>3, <2>4, IdleTyped, HandlerTyped DEF PreviewTyped
  <2> QED
    BY <2>4, <2>5 DEF PreviewInv
<1>2. ASSUME NEW k \in ManualKeys, NEW commit \in PrCommits, CreateManual(k, commit)
      PROVE  PreviewInv'
  <2>1. k \notin DOMAIN PrEvents /\ k \in PreviewKeys /\ commit \in PreviewCommits
    BY PreviewAssumption DEF PreviewKeys, PreviewCommits
  <2>2. CreateRevision(k, commit, FALSE) /\ UNCHANGED << forkedPr, handler, cleaner >>
    BY <1>2 DEF CreateManual
  <2>3. /\ previewDeployments' \subseteq DeploymentRow /\ revisions' \subseteq RevisionRow
        /\ previews' \in Seq(PreviewRow) /\ KeyedInv' /\ PreviewRowsInv'
    BY <2>1, <2>2, RevisionCreated
  <2>4. PreviewTyped'
    BY <1>a, <2>2, <2>3 DEF PreviewTyped
  <2> QED
    BY <2>3, <2>4 DEF PreviewInv
<1> QED
  BY <1>1, <1>2

\* One row is written, and perhaps a request or a cleaner is done.
LEMMA OneRow ==
  ASSUME PreviewInv, UNCHANGED << forkedPr, previewDeployments, revisions >>,
         previews' \in Seq(PreviewRow), PreviewRowsInv',
         handler' = handler \/ \E h \in PrHandlers : handler' = [ handler EXCEPT ![h] = IdleHandler ],
         cleaner' = cleaner \/ \E c \in Cleaners : cleaner' = [ cleaner EXCEPT ![c] = IdleCleaner ]
  PROVE  PreviewInv'
<1>1. handler' \in [ PrHandlers -> HandlerState ]
      /\ \A i \in PrHandlers : handler'[i].step \in { "event", "deploy" }
                               => handler'[i].key \in DOMAIN PrEvents
  BY IdleTyped, HandlerTyped DEF PreviewInv, PreviewTyped
<1>2. cleaner' \in [ Cleaners -> CleanerState ]
  BY IdleTyped DEF PreviewInv, PreviewTyped
<1>3. PreviewTyped'
  BY <1>1, <1>2 DEF PreviewInv, PreviewTyped
<1>4. KeyedInv'
  BY DEF PreviewInv, KeyedInv, OfKey
<1> QED
  BY <1>3, <1>4 DEF PreviewInv

LEMMA Scheduling ==
  ASSUME PreviewInv,
         \/ \E h \in PrHandlers : Close(h)
         \/ \E p \in DOMAIN previews : DeletePreview(p) \/ ScheduleExpired(p)
  PROVE  PreviewInv'
<1>a. /\ previews \in Seq(PreviewRow) /\ PreviewRowsInv
      /\ \A p \in DOMAIN previews : previews[p] \in PreviewRow /\ RowSound(previews[p])
  BY DEF PreviewInv, PreviewTyped, PreviewRowsInv
<1>1. ASSUME NEW p, previews' = Write(p, Scheduled(previews[p]))
      PROVE  previews' \in Seq(PreviewRow) /\ PreviewRowsInv'
  <2>1. PICK row : row = Scheduled(previews[p])
    OBVIOUS
  <2>2. p \in DOMAIN previews => row \in PreviewRow /\ RowSound(row)
    BY <1>a, <2>1, ScheduledSound
  <2>3. previews' = Write(p, row)
    BY <1>1, <2>1
  <2> QED
    BY <2>2, <2>3, PreviewWritten
<1>2. ASSUME NEW h \in PrHandlers, Close(h)
      PROVE  PreviewInv'
  <2>1. previews' \in Seq(PreviewRow) /\ PreviewRowsInv'
    <3>1. CASE handler[h].current = 0
      <4>1. previews' = previews
        BY <1>2, <3>1 DEF Close
      <4> QED
        BY <1>a, <4>1 DEF PreviewRowsInv, OneLive, RowSound
    <3>2. CASE handler[h].current # 0
      <4>1. previews' = Write(handler[h].current, Scheduled(previews[handler[h].current]))
        BY <1>2, <3>2 DEF Close
      <4> QED
        BY <1>1, <4>1
    <3> QED
      BY <3>1, <3>2
  <2>2. /\ handler' = [ handler EXCEPT ![h] = IdleHandler ]
        /\ UNCHANGED << forkedPr, previewDeployments, revisions, cleaner >>
    BY <1>2 DEF Close
  <2> QED
    BY <2>1, <2>2, OneRow
<1>3. ASSUME NEW p \in DOMAIN previews, DeletePreview(p) \/ ScheduleExpired(p)
      PROVE  PreviewInv'
  <2>1. /\ previews' = Write(p, Scheduled(previews[p]))
        /\ UNCHANGED << forkedPr, previewDeployments, revisions, handler, cleaner >>
    BY <1>3 DEF DeletePreview, ScheduleExpired
  <2>2. previews' \in Seq(PreviewRow) /\ PreviewRowsInv'
    BY <1>1, <2>1
  <2> QED
    BY <2>1, <2>2, OneRow
<1> QED
  BY <1>2, <1>3

\* A preview expires; a cleanup ends or fails.
LEMMA RowEnds ==
  ASSUME PreviewInv,
         \/ \E p \in DOMAIN previews : ExpirePreview(p)
         \/ \E c \in Cleaners : CompleteCleanup(c) \/ FailCleanup(c)
  PROVE  PreviewInv'
<1>a. /\ previews \in Seq(PreviewRow)
      /\ \A p \in DOMAIN previews : previews[p] \in PreviewRow /\ RowSound(previews[p])
  BY DEF PreviewInv, PreviewTyped, PreviewRowsInv
<1>1. ASSUME NEW p \in DOMAIN previews, ExpirePreview(p)
      PROVE  PreviewInv'
  <2> DEFINE old == previews[p]
             row == [ old EXCEPT !.expired = TRUE ]
  <2>a. old \in PreviewRow /\ RowSound(old)
    BY <1>a
  <2>1. previews' = [ previews EXCEPT ![p] = row ]
    BY <1>1 DEF ExpirePreview
  <2> HIDE DEF old
  <2>2. row \in PreviewRow /\ RowSound(row) /\ row.status = old.status
    BY <2>a DEF PreviewRow, RowSound
  <2> HIDE DEF row
  <2>3. previews' \in Seq(PreviewRow) /\ PreviewRowsInv'
    BY <2>1, <2>2, PreviewWritten DEF old
  <2>4. UNCHANGED << forkedPr, previewDeployments, revisions, handler, cleaner >>
    BY <1>1 DEF ExpirePreview
  <2> QED
    BY <2>3, <2>4, OneRow
<1>2. ASSUME NEW c \in Cleaners, CompleteCleanup(c)
      PROVE  PreviewInv'
  <2> DEFINE p == cleaner[c].preview
             old == previews[p]
             row == [ old EXCEPT !.job = "completed", !.status = "removed" ]
  <2>1. previews' = [ previews EXCEPT ![p] = row ]
    BY <1>2 DEF CompleteCleanup, Completed
  <2>2. p \in DOMAIN previews => row \in PreviewRow /\ RowSound(row) /\ row.status = "removed"
    <3>1. p \in DOMAIN previews => old \in PreviewRow
      BY <1>a
    <3> HIDE DEF old
    <3> QED
      BY <3>1 DEF PreviewRow, RowSound
  <2> HIDE DEF row
  <2>3. previews' \in Seq(PreviewRow) /\ PreviewRowsInv'
    BY <2>1, <2>2, PreviewWritten
  <2>4. /\ UNCHANGED << forkedPr, previewDeployments, revisions, handler >>
        /\ cleaner' = [ cleaner EXCEPT ![c] = IdleCleaner ]
    BY <1>2 DEF CompleteCleanup
  <2> QED
    BY <2>3, <2>4, OneRow
<1>3. ASSUME NEW c \in Cleaners, FailCleanup(c)
      PROVE  PreviewInv'
  <2>1. PICK job \in { "retry", "failed" } :
               previews' = [ previews EXCEPT ![cleaner[c].preview].job = job ]
    BY <1>3 DEF FailCleanup
  <2> DEFINE p == cleaner[c].preview
             old == previews[p]
             row == [ old EXCEPT !.job = job ]
  <2>2. previews' = [ previews EXCEPT ![p] = row ]
    BY <2>1
  <2>3. p \in DOMAIN previews => row \in PreviewRow /\ RowSound(row) /\ row.status = old.status
    <3>1. p \in DOMAIN previews => old \in PreviewRow
      BY <1>a
    <3> HIDE DEF old
    <3> QED
      BY <3>1 DEF PreviewRow, RowSound
  <2> HIDE DEF row
  <2>4. previews' \in Seq(PreviewRow) /\ PreviewRowsInv'
    BY <2>2, <2>3, PreviewWritten
  <2>5. /\ UNCHANGED << forkedPr, previewDeployments, revisions, handler >>
        /\ cleaner' = [ cleaner EXCEPT ![c] = IdleCleaner ]
    BY <1>3 DEF FailCleanup
  <2> QED
    BY <2>4, <2>5, OneRow
<1> QED
  BY <1>1, <1>2, <1>3

\* The revision that is active is marked as ready, and so is its preview.
LEMMA ReadyMarked ==
  ASSUME PreviewInv, NEW h \in PrHandlers, MarkReady(h)
  PROVE  PreviewInv'
<1> DEFINE p   == handler[h].current
           old == previews[p]
           row == [ old EXCEPT !.status = "ready" ]
           act == { r \in revisions : \E a \in previews[p].active : r.preview = p /\ r.commit = a.commit }
<1>a. /\ previews \in Seq(PreviewRow) /\ revisions \subseteq RevisionRow /\ KeyedInv
      /\ \A q \in DOMAIN previews : previews[q] \in PreviewRow /\ RowSound(previews[q])
  BY DEF PreviewInv, PreviewTyped, PreviewRowsInv
<1>b. /\ previews' = Write(p, row)
      /\ revisions' \in { revisions, (revisions \ act) \union MarkedReady(act) }
      /\ handler' = [ handler EXCEPT ![h] = IdleHandler ]
      /\ UNCHANGED << forkedPr, previewDeployments, cleaner >>
  BY DEF MarkReady
<1>1. previews' \in Seq(PreviewRow) /\ PreviewRowsInv'
  <2>1. p \in DOMAIN previews => row \in PreviewRow /\ RowSound(row)
    <3>1. p \in DOMAIN previews => old \in PreviewRow
      BY <1>a
    <3> HIDE DEF old
    <3> QED
      BY <3>1 DEF PreviewRow, RowSound
  <2> HIDE DEF row
  <2> QED
    BY <1>b, <2>1, PreviewWritten
<1>2. \A r \in revisions' : \E s \in revisions :
         /\ r \in RevisionRow /\ r.preview = s.preview /\ r.commit = s.commit /\ r.key = s.key
         /\ r.deployment = s.deployment /\ r.untrusted = s.untrusted
         /\ r = s \/ (s \in act /\ r = [ s EXCEPT !.status = "ready" ])
  <2> SUFFICES ASSUME NEW r \in revisions'
      PROVE  \E s \in revisions :
               /\ r \in RevisionRow /\ r.preview = s.preview /\ r.commit = s.commit /\ r.key = s.key
               /\ r.deployment = s.deployment /\ r.untrusted = s.untrusted
               /\ r = s \/ (s \in act /\ r = [ s EXCEPT !.status = "ready" ])
    OBVIOUS
  <2>1. CASE r \in revisions
    BY <1>a, <2>1
  <2>2. CASE r \notin revisions
    <3>1. PICK s \in act : r = [ s EXCEPT !.status = "ready" ]
      BY <1>b, <2>2 DEF MarkedReady
    <3>2. s \in revisions /\ s \in RevisionRow
      BY <1>a
    <3>3. /\ r \in RevisionRow /\ r.preview = s.preview /\ r.commit = s.commit /\ r.key = s.key
          /\ r.deployment = s.deployment /\ r.untrusted = s.untrusted
      BY <3>1, <3>2 DEF RevisionRow
    <3> QED
      BY <3>1, <3>2, <3>3
  <2> QED
    BY <2>1, <2>2
<1>3. \A r \in revisions' : r \in act /\ revisions' # revisions => r \in MarkedReady(act)
  BY <1>b
<1>4. KeyedInv'
  <2>1. \A r \in revisions' : OfKey(r)' /\ r.deployment = r.key
    BY <1>a, <1>b, <1>2 DEF KeyedInv, OfKey
  <2>2. \A r \in revisions' : \E d \in previewDeployments' : d.key = r.key
    BY <1>a, <1>b, <1>2 DEF KeyedInv
  <2>3. ASSUME NEW r \in revisions', NEW s \in revisions',
               r.key = s.key \/ (r.preview = s.preview /\ r.commit = s.commit)
        PROVE  r = s
    <3>1. PICK a \in revisions :
               /\ r.preview = a.preview /\ r.commit = a.commit /\ r.key = a.key
               /\ r = a \/ (a \in act /\ r = [ a EXCEPT !.status = "ready" ])
      BY <1>2
    <3>2. PICK b \in revisions :
               /\ s.preview = b.preview /\ s.commit = b.commit /\ s.key = b.key
               /\ s = b \/ (b \in act /\ s = [ b EXCEPT !.status = "ready" ])
      BY <1>2
    <3>3. a = b
      BY <1>a, <2>3, <3>1, <3>2 DEF KeyedInv
    <3>4. CASE revisions' = revisions
      BY <1>a, <2>3, <3>4 DEF KeyedInv
    <3>5. CASE revisions' # revisions
      <4>1. a \in act => /\ r = [ a EXCEPT !.status = "ready" ]
                         /\ s = [ a EXCEPT !.status = "ready" ]
        <5> SUFFICES ASSUME a \in act
                     PROVE  /\ r = [ a EXCEPT !.status = "ready" ]
                            /\ s = [ a EXCEPT !.status = "ready" ]
          OBVIOUS
        <5>1. [ a EXCEPT !.status = "ready" ] \in MarkedReady(act)
          BY DEF MarkedReady
        <5>2. r = a => r = [ a EXCEPT !.status = "ready" ]
          <6> SUFFICES ASSUME r = a PROVE r = [ a EXCEPT !.status = "ready" ]
            OBVIOUS
          <6>1. PICK c \in act : r = [ c EXCEPT !.status = "ready" ]
            BY <1>3, <3>5 DEF MarkedReady
          <6>2. c \in RevisionRow /\ r.key = c.key /\ c \in revisions
            <7>1. c \in RevisionRow /\ c \in revisions
              BY <1>a
            <7> QED
              BY <6>1, <7>1 DEF RevisionRow
          <6>3. c = a
            BY <1>a, <6>2 DEF KeyedInv
          <6> QED
            BY <6>1, <6>3
        <5>3. s = a => s = [ a EXCEPT !.status = "ready" ]
          <6> SUFFICES ASSUME s = a PROVE s = [ a EXCEPT !.status = "ready" ]
            OBVIOUS
          <6>1. PICK c \in act : s = [ c EXCEPT !.status = "ready" ]
            BY <1>3, <3>5 DEF MarkedReady
          <6>2. c \in RevisionRow /\ s.key = c.key /\ c \in revisions
            <7>1. c \in RevisionRow /\ c \in revisions
              BY <1>a
            <7> QED
              BY <6>1, <7>1 DEF RevisionRow
          <6>3. c = a
            BY <1>a, <6>2 DEF KeyedInv
          <6> QED
            BY <6>1, <6>3
        <5> QED
          BY <3>1, <3>2, <3>3, <5>2, <5>3
      <4> QED
        BY <3>1, <3>2, <3>3, <4>1
    <3> QED
      BY <3>4, <3>5
  <2> QED
    BY <1>a, <1>b, <2>1, <2>2, <2>3 DEF KeyedInv, OfKey
<1>5. PreviewTyped'
  <2>1. revisions' \subseteq RevisionRow
    BY <1>2
  <2> QED
    BY <1>1, <1>b, <2>1, IdleTyped, HandlerTyped DEF PreviewInv, PreviewTyped
<1> QED
  BY <1>1, <1>4, <1>5 DEF PreviewInv

LEMMA DeploymentMoves ==
  ASSUME PreviewInv, NEW d \in previewDeployments, DeploymentReady(d)
  PROVE  PreviewInv'
<1> DEFINE e == [ d EXCEPT !.ready = TRUE ]
<1>a. d \in DeploymentRow /\ previewDeployments \subseteq DeploymentRow /\ KeyedInv
  BY DEF PreviewInv, PreviewTyped
<1>b. /\ previewDeployments' = (previewDeployments \ { d }) \union { e }
      /\ UNCHANGED << forkedPr, previews, revisions, handler, cleaner >>
  BY DEF DeploymentReady
<1>1. /\ e \in DeploymentRow /\ e.key = d.key /\ e.commit = d.commit /\ e.untrusted = d.untrusted
  BY <1>a DEF DeploymentRow
<1> HIDE DEF e
<1>2. PreviewTyped'
  BY <1>1, <1>a, <1>b DEF PreviewInv, PreviewTyped
<1>3. KeyedInv'
  <2>1. \A x \in previewDeployments' : OfKey(x)'
    BY <1>1, <1>a, <1>b DEF KeyedInv, OfKey
  <2>2. \A x, y \in previewDeployments' : x.key = y.key => x = y
    BY <1>1, <1>a, <1>b DEF KeyedInv
  <2>3. \A r \in revisions' : \E x \in previewDeployments' : x.key = r.key
    BY <1>1, <1>a, <1>b DEF KeyedInv
  <2> QED
    BY <1>a, <1>b, <2>1, <2>2, <2>3 DEF KeyedInv, OfKey
<1>4. PreviewRowsInv'
  BY <1>b DEF PreviewInv, PreviewRowsInv, OneLive, RowSound
<1> QED
  BY <1>2, <1>3, <1>4 DEF PreviewInv

LEMMA CleanerMoves ==
  ASSUME PreviewInv, NEW c \in Cleaners,
         CleanerDies(c) \/ \E p \in DOMAIN previews : TakeJob(c, p)
  PROVE  PreviewInv'
<1>a. DOMAIN previews \subseteq Nat /\ PreviewTyped
  BY DEF PreviewInv, PreviewTyped
<1>b. UNCHANGED << forkedPr, previewDeployments, previews, revisions, handler >>
  BY DEF CleanerDies, TakeJob
<1>1. cleaner' \in [ Cleaners -> CleanerState ]
  <2>1. CASE CleanerDies(c)
    BY <1>a, <2>1, IdleTyped DEF CleanerDies, PreviewTyped
  <2>2. ASSUME NEW p \in DOMAIN previews, TakeJob(c, p)
        PROVE  cleaner' \in [ Cleaners -> CleanerState ]
    <3>1. [ step |-> "clean", preview |-> p ] \in CleanerState
      BY <1>a DEF CleanerState
    <3> QED
      BY <1>a, <2>2, <3>1 DEF TakeJob, PreviewTyped
  <2> QED
    BY <2>1, <2>2
<1> QED
  BY <1>a, <1>b, <1>1, OnlyHandler DEF PreviewTyped

LEMMA PreviewSteps == PreviewInv /\ [PreviewNext]_previewVars => PreviewInv'
<1> SUFFICES ASSUME PreviewInv, [PreviewNext]_previewVars PROVE PreviewInv'
  OBVIOUS
<1>1. CASE UNCHANGED previewVars
  BY <1>1, OnlyHandler DEF previewVars, PreviewInv, PreviewTyped
<1> QED
  BY <1>1, HandlerSteps, PreviewDeploys, Scheduling, RowEnds, ReadyMarked, DeploymentMoves,
     CleanerMoves DEF PreviewNext

LEMMA PreviewInvKept == PreviewSpec => []PreviewInv
  BY PreviewStarts, PreviewSteps, PTL DEF PreviewSpec

\* Whatever order a pull request's events arrive in, how often they are repeated
\* and whatever users create beside them: a revision has a deployment of its own
\* trust, and of its own commit when the provider's event made it, and a key or
\* a commit of a preview has one revision.
THEOREM RevisionsAlwaysDeployed == PreviewSpec => []RevisionsDeployed
<1>1. PreviewInv => RevisionsDeployed
  <2> SUFFICES ASSUME PreviewInv PROVE RevisionsDeployed
    OBVIOUS
  <2>1. ASSUME NEW r \in revisions
        PROVE  \E d \in previewDeployments :
                 /\ d.key = r.deployment /\ d.untrusted = r.untrusted
                 /\ d.commit = r.commit \/ r.key \in ManualKeys
    <3>1. PICK d \in previewDeployments : d.key = r.key
      BY DEF PreviewInv, KeyedInv
    <3>2. OfKey(d) /\ OfKey(r) /\ r.deployment = r.key /\ r.key \in PreviewKeys
      BY DEF PreviewInv, KeyedInv, PreviewTyped, RevisionRow
    <3> QED
      BY <3>1, <3>2 DEF OfKey, PreviewKeys
  <2> QED
    BY <2>1 DEF PreviewInv, KeyedInv, RevisionsDeployed
<1> QED
  BY <1>1, PreviewInvKept, PTL

\* A preview that is closing has a job that is not completed, and one that is
\* removed had one, with any number of reconcilers at work on the same jobs.
THEOREM ClosingAlwaysHasJob == PreviewSpec => []ClosingHasJob
<1>1. PreviewInv => ClosingHasJob
  BY DEF PreviewInv, PreviewRowsInv, RowSound, ClosingHasJob
<1> QED
  BY <1>1, PreviewInvKept, PTL

\* A revision is one of a preview that is there, and a delivery that was recorded
\* is one that GitHub made.
RevisionsOwned ==
  /\ delivered \subseteq DOMAIN PrEvents
  /\ \A r \in revisions : r.preview \in DOMAIN previews

\* Writing a row adds no preview and removes none.
LEMMA WriteKeepsDomain ==
  ASSUME NEW p, NEW row
  PROVE  DOMAIN Write(p, row) = DOMAIN previews /\ DOMAIN [ previews EXCEPT ![p] = row ] = DOMAIN previews
BY DEF Write

\* The revision of a transaction is one of the preview that it writes.
LEMMA RevisionOwned ==
  ASSUME PreviewInv, RevisionsOwned, NEW key, NEW commit, NEW fork, CreateRevision(key, commit, fork),
         delivered' = delivered
  PROVE  RevisionsOwned'
<1> DEFINE p   == TargetPreview
           rev == RevisionOf(p, key, commit, fork)
           row == [ Instance(p) EXCEPT !.active = rev, !.status = "building" ]
<1>1. CASE UNCHANGED << previews, revisions >>
  BY <1>1 DEF RevisionsOwned
<1>2. CASE /\ previews' = IF p \in DOMAIN previews THEN [ previews EXCEPT ![p] = row ]
                          ELSE Append(previews, row)
           /\ revisions' = revisions \union rev
  <2>1. \A r \in rev : r.preview = p
    BY DEF RevisionOf
  <2>2. previews \in Seq(PreviewRow) /\ LivePreviews \subseteq DOMAIN previews
    BY DEF PreviewInv, PreviewTyped, LivePreviews
  <2>3. p \in DOMAIN previews \/ p = Len(previews) + 1
    BY <2>2, LiveFound DEF TargetPreview
  <2> HIDE DEF rev, p
  <2>4. CASE p \in DOMAIN previews
    <3>1. previews' = [ previews EXCEPT ![p] = row ]
      BY <1>2, <2>4
    <3>2. DOMAIN previews' = DOMAIN previews
      BY <3>1
    <3> QED
      BY <1>2, <2>1, <2>4, <3>2 DEF RevisionsOwned
  <2>5. CASE p \notin DOMAIN previews
    <3>1. previews' = Append(previews, row) /\ p = Len(previews) + 1
      BY <1>2, <2>3, <2>5
    <3> HIDE DEF row
    <3>2. DOMAIN previews' = 1 .. (Len(previews) + 1) /\ DOMAIN previews = 1 .. Len(previews) /\ Len(previews) \in Nat
      BY <2>2, <3>1
    <3>3. DOMAIN previews \subseteq DOMAIN previews' /\ p \in DOMAIN previews'
      BY <3>1, <3>2
    <3> QED
      BY <1>2, <2>1, <3>3 DEF RevisionsOwned
  <2> QED
    BY <2>4, <2>5
<1> QED
  BY <1>1, <1>2 DEF CreateRevision

LEMMA RevisionsStep == PreviewInv /\ RevisionsOwned /\ [PreviewNext]_previewVars => RevisionsOwned'
<1> SUFFICES ASSUME PreviewInv, RevisionsOwned, [PreviewNext]_previewVars PROVE RevisionsOwned'
  OBVIOUS
<1>1. ASSUME DOMAIN previews' = DOMAIN previews, UNCHANGED << delivered, revisions >> PROVE RevisionsOwned'
  BY <1>1 DEF RevisionsOwned
<1>2. ASSUME NEW h \in PrHandlers, NEW e \in DOMAIN PrEvents, ReceiveDelivery(h, e) PROVE RevisionsOwned'
  BY <1>2 DEF ReceiveDelivery, RevisionsOwned
<1>3. ASSUME NEW h \in PrHandlers, Deploy(h) PROVE RevisionsOwned'
  BY <1>3, RevisionOwned DEF Deploy
<1>4. ASSUME NEW k \in ManualKeys, NEW commit \in PrCommits, CreateManual(k, commit) PROVE RevisionsOwned'
  BY <1>4, RevisionOwned DEF CreateManual
<1>5. ASSUME NEW h \in PrHandlers, MarkReady(h) PROVE RevisionsOwned'
  <2>1. PICK act \in SUBSET revisions : revisions' \in { revisions, (revisions \ act) \union MarkedReady(act) }
    BY <1>5 DEF MarkReady
  <2>2. ASSUME NEW r \in MarkedReady(act) PROVE r.preview \in DOMAIN previews
    <3>1. PICK q \in act : r = [ q EXCEPT !.status = "ready" ]
      BY DEF MarkedReady
    <3>2. q \in RevisionRow
      BY DEF PreviewInv, PreviewTyped
    <3>3. r.preview = q.preview
      BY <3>1, <3>2 DEF RevisionRow
    <3> QED BY <3>3 DEF RevisionsOwned
  <2>3. DOMAIN previews' = DOMAIN previews /\ delivered' = delivered
    BY <1>5, WriteKeepsDomain DEF MarkReady
  <2> QED
    BY <2>1, <2>2, <2>3 DEF RevisionsOwned
<1>6. ASSUME NEW h \in PrHandlers, Close(h) PROVE RevisionsOwned'
  BY <1>1, <1>6, WriteKeepsDomain DEF Close
<1>7. ASSUME NEW p \in DOMAIN previews, DeletePreview(p) \/ ScheduleExpired(p) PROVE RevisionsOwned'
  BY <1>1, <1>7, WriteKeepsDomain DEF DeletePreview, ScheduleExpired
<1>8. ASSUME NEW p \in DOMAIN previews, ExpirePreview(p) PROVE RevisionsOwned'
  BY <1>1, <1>8 DEF ExpirePreview
<1>9. ASSUME NEW c \in Cleaners, CompleteCleanup(c) \/ FailCleanup(c) PROVE RevisionsOwned'
  BY <1>1, <1>9 DEF CompleteCleanup, FailCleanup
<1>10. CASE UNCHANGED << delivered, previews, revisions >>
  BY <1>1, <1>10
<1> QED
  BY <1>2, <1>3, <1>4, <1>5, <1>6, <1>7, <1>8, <1>9, <1>10
  DEF PreviewNext, previewVars, ReadEventPreview, HandlerDies, StartVerify, DeploymentReady, TakeJob,
      CleanerDies

\* The previews, their revisions and jobs, and what the requests and the reconciler
\* are at keep their types, for any events, keys, handlers and cleaners.
THEOREM PreviewsTyped == PreviewSpec => []PreviewTypeOK
<1>1. PreviewInit => RevisionsOwned
  BY DEF PreviewInit, RevisionsOwned
<1>2. PreviewInv /\ RevisionsOwned => PreviewTypeOK
  <2> SUFFICES ASSUME PreviewInv, RevisionsOwned PROVE PreviewTypeOK
    OBVIOUS
  <2>1. \A p \in DOMAIN previews : previews[p] \in PreviewRow
    BY DEF PreviewInv, PreviewTyped
  <2>2. \A r \in revisions : r.status \in { "pending", "ready" }
    BY DEF PreviewInv, PreviewTyped, RevisionRow
  <2>3. /\ \A h \in PrHandlers : handler[h].step \in { "idle", "event", "deploy", "close", "verify" }
        /\ \A c \in Cleaners : cleaner[c].step \in { "idle", "clean" }
    BY DEF PreviewInv, PreviewTyped, HandlerState, CleanerState
  <2> QED
    BY <2>1, <2>2, <2>3 DEF PreviewRow, RevisionsOwned, PreviewTypeOK
<1> QED
  BY <1>1, <1>2, RevisionsStep, PreviewInvKept, PTL DEF PreviewSpec

=============================================================================

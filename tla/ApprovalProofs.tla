--------------------------- MODULE ApprovalProofs ---------------------------
(***************************************************************************)
(* Proofs about the members of an organization and what they decide.       *)
(*                                                                         *)
(* An organization keeps an owner: the rows that a change has locked are   *)
(* its own, so an owner it has counted remains one until it commits.       *)
(***************************************************************************)
EXTENDS Approvals, FiniteSetTheorems, TLAPS


\* No row is locked twice.
LocksExclude ==
  \A b, c \in Changes : b # c => change[b].held \intersect change[c].held = {}

\* What a change knows at each of its phases.
Knows(c) ==
  /\ change[c].found \subseteq change[c].held \intersect ActiveOwners
  /\ change[c].phase = "target" => change[c].held = {} /\ change[c].found = {}
  /\ change[c].phase # "idle" => role[change[c].target] # "none"
  /\ change[c].phase \in { "owners", "update" } =>
       /\ change[c].target \in change[c].held
       /\ change[c].to = "removed" => active[change[c].target]
  /\ change[c].phase = "update" /\ LosesOwner(c) =>
       \E u \in change[c].found : u # change[c].target

OwnerInv ==
  /\ MembershipTypeOK
  /\ LocksExclude
  /\ \A c \in Changes : Knows(c)
  /\ LastOwner

-----------------------------------------------------------------------------
LEMMA NoChangeType == NoChange \in ChangeType
<1>1. Users # {}
  BY MembershipAssumption
<1>2. (CHOOSE u \in Users : TRUE) \in Users
  BY <1>1
<1> QED
  BY <1>2 DEF NoChange, ChangeType

LEMMA OwnerInit == MembershipInit => OwnerInv
<1> SUFFICES ASSUME MembershipInit PROVE OwnerInv
  OBVIOUS
<1>1. MembershipTypeOK
  BY NoChangeType DEF MembershipInit, MembershipTypeOK, ROLES
<1>2. ASSUME NEW c \in Changes PROVE Knows(c) /\ change[c].held = {}
  BY DEF MembershipInit, Knows, NoChange, ActiveOwners
<1>3. ActiveOwners # {}
  <2>1. PICK u \in Users : u \in Owners
    BY MembershipAssumption
  <2> QED
    BY <2>1 DEF MembershipInit, ActiveOwners
<1> QED
  BY <1>1, <1>2, <1>3 DEF OwnerInv, LocksExclude, LastOwner

\* Two owners found are one more than the target.
LEMMA OtherOwner ==
  ASSUME NEW S \in SUBSET Users, NEW t, Cardinality(S) > 1
  PROVE  \E u \in S : u # t
<1> SUFFICES ASSUME S \subseteq { t } PROVE FALSE
  OBVIOUS
<1>1. IsFiniteSet({ t }) /\ Cardinality({ t }) = 1
  BY FS_Singleton
<1>2. Cardinality(S) <= 1 /\ Cardinality(S) \in Nat
  BY <1>1, FS_Subset, FS_CardinalityType
<1> QED
  BY <1>2

\* A step that only moves c: what is left to show is about c.
LEMMA OnlyOne ==
  ASSUME OwnerInv, NEW c \in Changes, NEW r \in ChangeType,
         change' = [ change EXCEPT ![c] = r ],
         UNCHANGED << role, active, version >>,
         \A b \in Changes \ { c } : change[b].held \intersect r.held = {},
         Knows(c)'
  PROVE  OwnerInv'
<1>1. ASSUME NEW b \in Changes, b # c PROVE Knows(b)' /\ change'[b] = change[b]
  BY <1>1 DEF OwnerInv, Knows, LosesOwner, ActiveOwners, MembershipTypeOK
<1>2. change'[c] = r /\ MembershipTypeOK'
  BY DEF OwnerInv, MembershipTypeOK
<1>3. LocksExclude'
  BY <1>1, <1>2 DEF OwnerInv, LocksExclude
<1>4. LastOwner'
  BY DEF OwnerInv, LastOwner, ActiveOwners
<1> QED
  BY <1>1, <1>2, <1>3, <1>4 DEF OwnerInv

\* A change that ends, by its commit or without one, leaves no lock.
LEMMA Ending ==
  ASSUME OwnerInv, NEW c \in Changes, End(c), UNCHANGED << role, active, version >>
  PROVE  OwnerInv'
<1>1. change'[c] = NoChange
  BY DEF End, OwnerInv, MembershipTypeOK
<1>2. Knows(c)' /\ NoChange.held = {}
  BY <1>1 DEF Knows, NoChange
<1> QED
  BY <1>2, NoChangeType, OnlyOne DEF End

-----------------------------------------------------------------------------
\* The steps that a change takes before it writes.
LEMMA LockingStep ==
  ASSUME OwnerInv, NEW c \in Changes,
         \/ \E u \in Users, to \in GrantedRoles \union { "removed" } : BeginChange(c, u, to)
         \/ LockTarget(c) \/ LockOwner(c) \/ CountOwners(c) \/ Abort(c)
  PROVE  OwnerInv'
<1>a. /\ change[c] \in ChangeType /\ Knows(c) /\ MembershipTypeOK
      /\ \A b \in Changes \ { c } : change[b].held \intersect change[c].held = {}
  BY DEF OwnerInv, MembershipTypeOK, LocksExclude
<1>1. ASSUME NEW u \in Users, NEW to \in GrantedRoles \union { "removed" },
             BeginChange(c, u, to)
      PROVE  OwnerInv'
  <2> DEFINE r == [ NoChange EXCEPT !.phase = "target", !.target = u, !.to = to,
                                    !.expected = version[u] ]
  <2>1. r \in ChangeType /\ r.held = {}
    BY <1>a, NoChangeType DEF ChangeType, NoChange, MembershipTypeOK
  <2>2. change' = [ change EXCEPT ![c] = r ] /\ UNCHANGED << role, active, version >>
    BY <1>1 DEF BeginChange
  <2>3. change'[c] = r
    BY <1>a, <2>2 DEF MembershipTypeOK
  <2>4. r.phase = "target" /\ r.target = u /\ r.held = {} /\ r.found = {} /\ role[u] # "none"
    BY <1>1 DEF NoChange, BeginChange
  <2>5. Knows(c)'
    BY <2>2, <2>3, <2>4 DEF Knows
  <2> QED
    BY <2>1, <2>2, <2>5, OnlyOne
<1>2. CASE LockTarget(c)
  <2> DEFINE u == change[c].target
             r == [ change[c] EXCEPT
                      !.phase  = IF LosesOwner(c) THEN "owners" ELSE "update",
                      !.held   = { u },
                      !.unread = IF LosesOwner(c) THEN ActiveOwners ELSE {} ]
  <2>1. CASE change[c].to = "removed" /\ (~active[u] \/ version[u] # change[c].expected)
    BY <1>2, <2>1, Ending DEF LockTarget
  <2>2. CASE ~(change[c].to = "removed" /\ (~active[u] \/ version[u] # change[c].expected))
    <3>0. change' = [ change EXCEPT ![c] = r ] /\ (change[c].to = "removed" => active[u])
      BY <1>2, <2>2 DEF LockTarget
    <3>1. r \in ChangeType
      BY <1>a DEF ChangeType, ActiveOwners
    <3>2. /\ UNCHANGED << role, active, version >>
          /\ \A b \in Changes \ { c } : change[b].held \intersect r.held = {}
      BY <1>2, <1>a DEF LockTarget, Lockable, ChangeType
    <3>3. change'[c] = r
      BY <1>a, <3>0 DEF MembershipTypeOK
    <3>4. /\ r.held = { u } /\ r.target = u /\ r.to = change[c].to
          /\ r.found = {} /\ role[u] # "none"
          /\ r.phase = IF LosesOwner(c) THEN "owners" ELSE "update"
      BY <1>2, <1>a DEF ChangeType, Knows, LockTarget
    <3>5. LosesOwner(c)' = LosesOwner(c)
      BY <3>2, <3>3, <3>4 DEF LosesOwner
    <3>6. Knows(c)'
      <4> HIDE DEF r, u
      <4>1. change'[c].to = "removed" => active'[change'[c].target]
        BY <3>0, <3>2, <3>3, <3>4
      <4> QED
        BY <3>2, <3>3, <3>4, <3>5, <4>1 DEF Knows
    <3> QED
      BY <3>0, <3>1, <3>2, <3>6, OnlyOne
  <2> QED
    BY <2>1, <2>2
<1>3. CASE LockOwner(c)
  <2>1. PICK u \in change[c].unread :
          /\ Lockable(c, u)
          /\ change' = [ change EXCEPT ![c].unread = @ \ { u },
                                       ![c].held = @ \union { u },
                                       ![c].found = @ \union ({ u } \intersect ActiveOwners) ]
    BY <1>3 DEF LockOwner
  <2> DEFINE r == [ change[c] EXCEPT !.unread = @ \ { u }, !.held = @ \union { u },
                                     !.found = @ \union ({ u } \intersect ActiveOwners) ]
  <2>2. u \in Users /\ r \in ChangeType
    BY <1>a, <2>1 DEF ChangeType
  <2>3. change' = [ change EXCEPT ![c] = r ] /\ UNCHANGED << role, active, version >>
    <3>1. change' = [ change EXCEPT ![c] = r ]
      BY <2>1
    <3> QED
      BY <3>1, <1>3 DEF LockOwner
  <2>4. \A b \in Changes \ { c } : change[b].held \intersect r.held = {}
    BY <1>a, <2>1 DEF Lockable, ChangeType
  <2>5. change'[c] = r
    BY <1>a, <2>3 DEF MembershipTypeOK
  <2>6. /\ r.phase = "owners" /\ r.target = change[c].target /\ r.to = change[c].to
        /\ r.held = change[c].held \union { u }
        /\ r.found = change[c].found \union ({ u } \intersect ActiveOwners)
    BY <1>3, <1>a DEF LockOwner, ChangeType
  <2>7. /\ change[c].phase = "owners" /\ ActiveOwners' = ActiveOwners
        /\ role' = role /\ active' = active
    BY <1>3, <2>3 DEF LockOwner, ActiveOwners
  <2>8. Knows(c)'
    <3> HIDE DEF r
    <3> QED
      BY <1>a, <2>5, <2>6, <2>7 DEF Knows
  <2> QED
    BY <2>2, <2>3, <2>4, <2>8, OnlyOne
<1>4. CASE CountOwners(c)
  <2>1. CASE End(c)
    BY <1>4, <2>1, Ending DEF CountOwners
  <2>2. CASE ~End(c)
    <3> DEFINE r == [ change[c] EXCEPT !.phase = "update" ]
    <3>1. /\ r \in ChangeType
          /\ change' = [ change EXCEPT ![c] = r ]
          /\ UNCHANGED << role, active, version >>
          /\ \A b \in Changes \ { c } : change[b].held \intersect r.held = {}
      BY <1>4, <1>a, <2>2 DEF CountOwners, ChangeType
    <3>2. change'[c] = r
      BY <1>a, <3>1 DEF MembershipTypeOK
    <3>3. Cardinality(change[c].found) > 1
      <4>1. IsFiniteSet(change[c].found)
        BY <1>a, MembershipAssumption, FS_Subset DEF ChangeType
      <4>2. Cardinality(change[c].found) \in Nat
        BY <4>1, FS_CardinalityType
      <4> QED
        BY <1>4, <2>2, <4>2 DEF CountOwners
    <3>4. \E u \in change[c].found : u # change[c].target
      BY <1>a, <3>3, OtherOwner DEF ChangeType
    <3>5. /\ r.phase = "update" /\ r.target = change[c].target /\ r.to = change[c].to
          /\ r.held = change[c].held /\ r.found = change[c].found
          /\ change[c].phase = "owners"
      BY <1>4, <1>a DEF CountOwners, ChangeType
    <3>6. Knows(c)'
      BY <1>a, <3>1, <3>2, <3>4, <3>5 DEF Knows, ActiveOwners
    <3> QED
      BY <3>1, <3>6, OnlyOne
  <2> QED
    BY <2>1, <2>2
<1>5. CASE Abort(c)
  BY <1>5, Ending DEF Abort
<1> QED
  BY <1>1, <1>2, <1>3, <1>4, <1>5

\* The write: the target is locked, so no other change has counted it, and if
\* it stops being an owner this change has counted another one.
LEMMA WritingStep ==
  ASSUME OwnerInv, NEW c \in Changes, UpdateMember(c)
  PROVE  OwnerInv'
<1> DEFINE t == change[c].target
<1>a. /\ change[c] \in ChangeType /\ Knows(c) /\ MembershipTypeOK /\ t \in Users
      /\ change[c].phase = "update" /\ t \in change[c].held /\ role[t] # "none"
  BY DEF OwnerInv, MembershipTypeOK, Knows, UpdateMember, Commits, ChangeType
<1>b. \A u \in Users : u # t => role'[u] = role[u] /\ active'[u] = active[u]
  BY <1>a DEF UpdateMember, MembershipTypeOK
<1>c. change'[c] = NoChange /\ \A b \in Changes \ { c } : change'[b] = change[b]
  BY <1>a DEF UpdateMember, End, MembershipTypeOK
<1>d. role'[t] # "none"
  BY <1>a, MembershipAssumption DEF UpdateMember, MembershipTypeOK, ChangeType, ROLES
<1>1. MembershipTypeOK'
  BY <1>a, NoChangeType, MembershipAssumption
  DEF UpdateMember, End, MembershipTypeOK, ChangeType
<1>2. LocksExclude'
  BY <1>c DEF OwnerInv, LocksExclude, NoChange
<1>3. ASSUME NEW b \in Changes PROVE Knows(b)'
  <2>1. CASE b = c
    BY <1>c, <2>1 DEF Knows, NoChange
  <2>2. CASE b # c
    <3>1. t \notin change[b].held
      BY <1>a, <2>2 DEF OwnerInv, LocksExclude
    <3>2. Knows(b) /\ change'[b] = change[b] /\ change[b] \in ChangeType
      BY <1>a, <1>c, <2>2 DEF OwnerInv, MembershipTypeOK
    <3>3. change[b].found \subseteq ActiveOwners'
      BY <1>b, <3>1, <3>2 DEF Knows, ActiveOwners, ChangeType
    <3>4. change[b].phase = "update" => LosesOwner(b)' = LosesOwner(b)
      BY <1>b, <3>1, <3>2 DEF Knows, LosesOwner, ChangeType
    <3>5. change[b].phase # "idle" => role'[change[b].target] # "none"
      BY <1>b, <1>d, <3>2 DEF Knows, ChangeType
    <3>6. change[b].phase \in { "owners", "update" } /\ change[b].to = "removed" =>
            active'[change[b].target]
      BY <1>b, <3>1, <3>2 DEF Knows, ChangeType
    <3> QED
      BY <3>2, <3>3, <3>4, <3>5, <3>6 DEF Knows
  <2> QED
    BY <2>1, <2>2
<1>4. LastOwner'
  <2>1. CASE LosesOwner(c)
    <3>1. PICK u \in change[c].found : u # t
      BY <1>a, <2>1 DEF Knows
    <3>2. u \in ActiveOwners /\ u \in Users
      BY <1>a, <3>1 DEF Knows, ActiveOwners
    <3> QED
      BY <1>b, <3>1, <3>2 DEF LastOwner, ActiveOwners
  <2>2. CASE ~LosesOwner(c)
    <3>1. PICK u \in ActiveOwners : TRUE
      BY DEF OwnerInv, LastOwner
    <3>2. CASE u # t
      BY <1>b, <3>1, <3>2 DEF LastOwner, ActiveOwners
    <3>3. CASE u = t
      <4>1. change[c].to = "owner" /\ role[t] = "owner" /\ active[t]
        BY <2>2, <3>1, <3>3 DEF LosesOwner, ActiveOwners
      <4>2. role'[t] = "owner" /\ active'[t]
        BY <1>a, <4>1 DEF UpdateMember, MembershipTypeOK
      <4> QED
        BY <1>a, <4>2 DEF LastOwner, ActiveOwners
    <3> QED
      BY <3>2, <3>3
  <2> QED
    BY <2>1, <2>2
<1> QED
  BY <1>1, <1>2, <1>3, <1>4 DEF OwnerInv

\* A new member: no change is about a user without a row.
LEMMA JoiningStep ==
  ASSUME OwnerInv, NEW u \in Users, NEW to \in GrantedRoles, AddMember(u, to)
  PROVE  OwnerInv'
<1>a. /\ MembershipTypeOK /\ role[u] = "none" /\ UNCHANGED << version, change >>
      /\ \A v \in Users : v # u => role'[v] = role[v] /\ active'[v] = active[v]
      /\ role'[u] # "none"
  BY MembershipAssumption DEF OwnerInv, AddMember, MembershipTypeOK, ROLES
<1>1. MembershipTypeOK'
  BY <1>a, MembershipAssumption DEF AddMember, MembershipTypeOK
<1>2. ActiveOwners \subseteq ActiveOwners'
  BY <1>a DEF ActiveOwners
<1>3. ASSUME NEW c \in Changes PROVE Knows(c)'
  <2>1. Knows(c) /\ change[c].target \in Users
    BY <1>a DEF OwnerInv, MembershipTypeOK, ChangeType
  <2>2. change[c].phase # "idle" => LosesOwner(c)' = LosesOwner(c) /\ change[c].target # u
    BY <1>a, <2>1 DEF Knows, LosesOwner
  <2> QED
    BY <1>a, <1>2, <2>1, <2>2 DEF Knows
<1> QED
  BY <1>a, <1>1, <1>2, <1>3 DEF OwnerInv, LocksExclude, LastOwner

LEMMA OwnerStep == OwnerInv /\ [MembershipNext]_membershipVars => OwnerInv'
<1> SUFFICES ASSUME OwnerInv, [MembershipNext]_membershipVars PROVE OwnerInv'
  OBVIOUS
<1>1. ASSUME NEW c \in Changes, ChangeStep(c) PROVE OwnerInv'
  BY <1>1, LockingStep, WritingStep DEF ChangeStep
<1>2. CASE UNCHANGED membershipVars
  BY <1>2 DEF membershipVars, OwnerInv, MembershipTypeOK, LocksExclude, Knows, LosesOwner,
              LastOwner, ActiveOwners
<1> QED
  BY <1>1, <1>2, JoiningStep DEF MembershipNext

\* Whatever members are demoted, removed and added at the same time, one
\* active owner stays: assignRole and removeMembership.
THEOREM LastOwnerStays == MembershipSpec => []LastOwner
<1>1. OwnerInv => LastOwner
  BY DEF OwnerInv
<1> QED
  BY <1>1, OwnerInit, OwnerStep, PTL DEF MembershipSpec

-----------------------------------------------------------------------------
(***************************************************************************)
(* The transactions implement the in-memory directory: the target's row is *)
(* as it was locked, and an owner that was found beside the target is      *)
(* still one, so the directory would not refuse the write.                 *)
(***************************************************************************)
LEMMA DirectoryStarts == MembershipInit => Directory!Init
<1> SUFFICES ASSUME MembershipInit PROVE Directory!Init
  OBVIOUS
<1>1. LastOwner
  BY OwnerInit DEF OwnerInv
<1>2. Directory!ActiveOwners # {}
  BY <1>1 DEF LastOwner, ActiveOwners, Directory!ActiveOwners
<1>3. \A u \in Users : active[u] => role[u] # "none"
  BY DEF MembershipInit
<1> QED
  BY <1>2, <1>3 DEF Directory!Init, MembershipInit

LEMMA WriteIsOneCall ==
  ASSUME OwnerInv, NEW c \in Changes, UpdateMember(c)
  PROVE  Directory!Next
<1> DEFINE t == change[c].target
           to == change[c].to
<1>1. /\ t \in Users /\ to \in GrantedRoles \union { "removed" }
      /\ role[t] # "none" /\ change[c].phase = "update"
      /\ to = "removed" => active[t]
      /\ LosesOwner(c) => \E u \in change[c].found : u # t
      /\ change[c].found \subseteq ActiveOwners
  BY DEF OwnerInv, MembershipTypeOK, Knows, UpdateMember, Commits, ChangeType
<1>2. to # "owner" => Directory!NotFinalOwner(t)
  BY <1>1 DEF LosesOwner, ActiveOwners, Directory!NotFinalOwner, Directory!ActiveOwners
<1>3. version' = [ version EXCEPT ![t] = @ + 1 ]
  BY DEF UpdateMember
<1>4. CASE to = "removed"
  <2>1. Directory!Remove(t)
    BY <1>1, <1>2, <1>3, <1>4 DEF UpdateMember, Directory!Remove
  <2> QED
    BY <1>1, <2>1 DEF Directory!Next
<1>5. CASE to # "removed"
  <2>1. Directory!AssignRole(t, to)
    BY <1>1, <1>2, <1>3, <1>5 DEF UpdateMember, Directory!AssignRole
  <2> QED
    BY <1>1, <1>5, <2>1 DEF Directory!Next
<1> QED
  BY <1>4, <1>5

LEMMA DirectoryStep ==
  ASSUME OwnerInv, [MembershipNext]_membershipVars
  PROVE  [Directory!Next]_<< role, active, version >>
<1>1. ASSUME NEW c \in Changes, ChangeStep(c)
      PROVE  [Directory!Next]_<< role, active, version >>
  BY <1>1, WriteIsOneCall
  DEF ChangeStep, BeginChange, LockTarget, LockOwner, CountOwners, Abort
<1>2. ASSUME NEW u \in Users, NEW to \in GrantedRoles, AddMember(u, to)
      PROVE  Directory!Next
  BY <1>2 DEF AddMember, Directory!Add, Directory!Next
<1> QED
  BY <1>1, <1>2 DEF MembershipNext, membershipVars

\* assignRole, removeMembership and addMembership of the PostgreSQL repository
\* change the rows as those of the in-memory one do, whatever runs beside them.
THEOREM DirectoryImplemented == MembershipSpec => ImplementsDirectory
<1> QED
  BY OwnerInit, OwnerStep, DirectoryStarts, DirectoryStep, PTL
  DEF MembershipSpec, ImplementsDirectory, Directory!Spec

-----------------------------------------------------------------------------
(***************************************************************************)
(* An operation writes a request only if it is still the one it has read.  *)
(* So what it found, a request that waits or one that was approved, holds  *)
(* when it writes, and a vote or a policy that changed stays visible in    *)
(* the versions until the resumption compares them.                        *)
(***************************************************************************)
\* A handler holds the request as it is, or an older version of it.
ItemInv(h) ==
  /\ h.item.version <= approval[h.of].version
  /\ h.item.version = approval[h.of].version => h.item = approval[h.of]

\* What the handler found before it went on.
OpInv(h) ==
  /\ h.op \in { "approve", "reject", "override", "cancel" } => h.item.state = "pending"
  /\ h.op \in { "expire", "invalidate" } => h.item.state \in Unexpired
  /\ h.op = "approve" =>
       \E v \in Vote : /\ h.votes = { v }
                       /\ v.authorization <= version[v.user]
                       /\ v.user \notin { x.user : x \in h.item.votes }
                       /\ v.user # Requester
  /\ h.op = "consume" =>
       /\ h.item.state \in { "approved", "overridden" }
       /\ h.item.version = approval[h.of].version => h.of \notin outdated

\* The votes of a request: of different members, none of them from the future.
VoteInv(a) ==
  /\ IsFiniteSet(approval[a].votes) /\ IsFiniteSet(VotersOf(a))
  /\ Cardinality(approval[a].votes) = Cardinality(VotersOf(a))
  /\ \A v \in approval[a].votes : v.authorization <= version[v.user]
  /\ approval[a].policyVersion <= policy.version

Stale(a) ==
  \/ approval[a].policyVersion < policy.version
  \/ \E v \in approval[a].votes : v.authorization < version[v.user]

\* How the state of a request goes with its votes and its deployment.
StateInv(a) ==
  /\ deployment[a] = "absent" \/ approval[a].state = "absent" =>
       approval[a] = NoApproval /\ a \notin outdated
  /\ deployment[a] = "queued" => approval[a].state = "consumed" /\ a \notin outdated
  /\ approval[a].state = "pending" => Cardinality(VotersOf(a)) < RequiredCount
  /\ approval[a].state = "approved" => Cardinality(VotersOf(a)) >= RequiredCount
  /\ approval[a].state = "overridden" => approval[a].overridden
  /\ approval[a].state = "consumed" =>
       Cardinality(VotersOf(a)) >= RequiredCount \/ approval[a].overridden
  /\ a \in outdated => Stale(a)

ApprovalInv ==
  /\ TypeOK /\ OwnerInv
  /\ \A h \in handlers : ItemInv(h) /\ OpInv(h)
  /\ \A a \in Approvals : VoteInv(a) /\ StateInv(a)

-----------------------------------------------------------------------------
LEMMA ApprovalInit == Init => ApprovalInv
<1> SUFFICES ASSUME Init PROVE ApprovalInv
  OBVIOUS
<1>1. OwnerInv /\ MembershipTypeOK
  BY OwnerInit DEF Init, OwnerInv
<1>2. NoApproval \in Request
  BY DEF NoApproval, Request, RequestStates
<1>3. TypeOK
  BY <1>1, <1>2 DEF Init, TypeOK
<1>4. ASSUME NEW a \in Approvals PROVE VoteInv(a) /\ StateInv(a)
  <2>1. /\ approval[a] = NoApproval /\ NoApproval.votes = {} /\ NoApproval.policyVersion = 0
        /\ NoApproval.state = "absent" /\ policy.version = 1 /\ deployment[a] = "absent"
        /\ VotersOf(a) = {} /\ outdated = {}
    BY DEF Init, NoApproval, VotersOf
  <2>2. IsFiniteSet({}) /\ Cardinality({}) = 0
    BY FS_EmptySet
  <2> QED
    BY <2>1, <2>2 DEF VoteInv, StateInv
<1> QED
  BY <1>1, <1>3, <1>4 DEF ApprovalInv, Init

\* Versions only grow, and a request that changes gets a new one.
Advances ==
  /\ TypeOK'
  /\ \A u \in Users : version[u] <= version'[u]
  /\ policy.version <= policy'.version
  /\ \A a \in Approvals :
       \/ approval'[a] = approval[a]
       \/ approval[a].version < approval'[a].version
  /\ \A a \in outdated' :
       \/ a \in outdated \union Pending
       \/ approval[a].version < approval'[a].version

\* A handler stands such a step: what it holds is either still the request
\* as it is, or has an older version and will not be saved.
LEMMA HandlersKept ==
  ASSUME ApprovalInv, Advances, NEW h \in Handler, ItemInv(h), OpInv(h)
  PROVE  ItemInv(h)' /\ OpInv(h)'
<1>a. /\ h.item \in Request /\ h.of \in Approvals /\ ItemInv(h) /\ OpInv(h)
      /\ approval[h.of] \in Request /\ approval'[h.of] \in Request
      /\ version \in [ Users -> Nat ] /\ version' \in [ Users -> Nat ]
  BY DEF ApprovalInv, TypeOK, MembershipTypeOK, Handler, Advances
<1>b. /\ h.item.version \in Nat /\ approval[h.of].version \in Nat
      /\ approval'[h.of].version \in Nat
  BY <1>a DEF Request
<1>1. \/ approval'[h.of] = approval[h.of]
      \/ h.item.version < approval'[h.of].version
  BY <1>a, <1>b DEF ItemInv, Advances
<1>2. ItemInv(h)'
  BY <1>a, <1>b, <1>1 DEF ItemInv
<1>3. ASSUME h.op = "consume", h.item.version = approval'[h.of].version
      PROVE  h.of \notin outdated'
  <2>1. approval'[h.of] = approval[h.of] /\ h.item.version = approval[h.of].version
    BY <1>1, <1>3, <1>b
  <2>2. approval[h.of].state \in { "approved", "overridden" } /\ h.of \notin outdated
    BY <1>a, <1>3, <2>1 DEF ItemInv, OpInv
  <2> QED
    BY <1>b, <2>1, <2>2 DEF Advances, Pending
<1>4. ASSUME h.op = "approve"
      PROVE  \E v \in Vote : /\ h.votes = { v } /\ v.authorization <= version'[v.user]
                             /\ v.user \notin { x.user : x \in h.item.votes }
                             /\ v.user # Requester
  <2>1. PICK v \in Vote : /\ h.votes = { v } /\ v.authorization <= version[v.user]
                          /\ v.user \notin { x.user : x \in h.item.votes }
                          /\ v.user # Requester
    BY <1>a, <1>4 DEF OpInv
  <2>2. v.user \in Users /\ v.authorization \in Nat
    BY DEF Vote
  <2>3. v.authorization <= version'[v.user]
    BY <1>a, <2>1, <2>2 DEF Advances
  <2> QED
    BY <2>1, <2>3
<1> QED
  BY <1>a, <1>2, <1>3, <1>4 DEF OpInv

\* So does a request that does not change itself.
LEMMA RequestKept ==
  ASSUME ApprovalInv, Advances, NEW a \in Approvals,
         approval'[a] = approval[a], deployment'[a] = deployment[a],
         a \in outdated' => a \in outdated \/ Stale(a)'
  PROVE  VoteInv(a)' /\ StateInv(a)'
<1>a. /\ approval[a] \in Request /\ VoteInv(a) /\ StateInv(a)
      /\ version \in [ Users -> Nat ] /\ version' \in [ Users -> Nat ]
      /\ policy.version \in Nat /\ policy'.version \in Nat
  BY DEF ApprovalInv, TypeOK, MembershipTypeOK, Advances
<1>b. /\ \A v \in approval[a].votes : v.user \in Users /\ v.authorization \in Nat
      /\ approval[a].policyVersion \in Nat /\ approval[a].version \in Nat
  BY <1>a DEF Request, Vote
<1>1. VotersOf(a)' = VotersOf(a)
  BY DEF VotersOf
<1>2. Stale(a) => Stale(a)'
  BY <1>a, <1>b DEF Stale, Advances
<1>3. VoteInv(a)'
  BY <1>a, <1>b, <1>1 DEF VoteInv, Advances
<1>4. a \notin outdated => a \notin outdated' \/ approval[a].state = "pending"
  BY <1>a, <1>b DEF Advances, Pending
<1>5. \/ deployment[a] = "absent" \/ approval[a].state = "absent"
      \/ deployment[a] = "queued"
      => a \notin outdated'
  BY <1>a, <1>4 DEF StateInv, NoApproval
<1> QED
  BY <1>a, <1>1, <1>2, <1>3, <1>5 DEF StateInv

\* A handler that starts, or goes on, has just read its request.
Fresh(n) == n \in Handler /\ n.item = approval[n.of] /\ OpInv(n)

\* Hence a step is safe if its new handler and the request it writes are.
LEMMA StepKeeps ==
  ASSUME ApprovalInv, OwnerInv', Advances,
         \A h \in handlers' \ handlers : Fresh(h),
         NEW W \in SUBSET Approvals,
         \A a \in W : VoteInv(a)' /\ StateInv(a)',
         \A a \in Approvals \ W :
           /\ approval'[a] = approval[a] /\ deployment'[a] = deployment[a]
           /\ a \in outdated' => a \in outdated \/ Stale(a)'
  PROVE  ApprovalInv'
<1>1. ASSUME NEW h \in handlers' PROVE ItemInv(h)' /\ OpInv(h)'
  <2>1. h \in Handler /\ OpInv(h)
    BY DEF ApprovalInv, TypeOK, Fresh
  <2>2. ItemInv(h)
    <3>1. CASE h \in handlers
      BY <3>1 DEF ApprovalInv
    <3>2. CASE h \notin handlers
      <4>1. h.item = approval[h.of] /\ h.item \in Request
        BY <2>1, <3>2 DEF Fresh, Handler
      <4>2. h.item.version \in Nat
        BY <4>1 DEF Request
      <4> QED
        BY <4>1, <4>2 DEF ItemInv
    <3> QED
      BY <3>1, <3>2
  <2> QED
    BY <2>1, <2>2, HandlersKept
<1>2. \A a \in Approvals : VoteInv(a)' /\ StateInv(a)'
  BY RequestKept
<1> QED
  BY <1>1, <1>2 DEF ApprovalInv, Advances

\* A step that only reads, starts or ends an operation.
LEMMA ReadingKeeps ==
  ASSUME ApprovalInv,
         UNCHANGED << membershipVars, policy, deployment, approval, outdated >>,
         late' \subseteq Approvals,
         \A n \in handlers' \ handlers : Fresh(n)
  PROVE  ApprovalInv'
<1>1. OwnerInv'
  BY OwnerStep DEF ApprovalInv
<1>2. TypeOK'
  BY <1>1 DEF ApprovalInv, TypeOK, OwnerInv, Fresh
<1>3. /\ \A u \in Users : version[u] <= version'[u]
      /\ policy.version <= policy'.version
  BY DEF ApprovalInv, TypeOK, MembershipTypeOK, membershipVars
<1>4. Advances
  BY <1>2, <1>3 DEF Advances
<1>5. /\ {} \in SUBSET Approvals
      /\ \A a \in {} : VoteInv(a)' /\ StateInv(a)'
      /\ \A a \in Approvals \ {} :
           /\ approval'[a] = approval[a] /\ deployment'[a] = deployment[a]
           /\ a \in outdated' => a \in outdated \/ Stale(a)'
  OBVIOUS
<1> QED
  BY <1>1, <1>4, <1>5, StepKeeps

\* A step that writes one request.
LEMMA WritingKeeps ==
  ASSUME ApprovalInv, UNCHANGED << membershipVars, policy, late >>,
         NEW a \in Approvals, NEW r \in Request,
         approval' = [ approval EXCEPT ![a] = r ],
         r = approval[a] \/ approval[a].version < r.version,
         deployment' \in [ Approvals -> { "absent", "waiting_for_approval", "queued" } ],
         \A b \in Approvals \ { a } : deployment'[b] = deployment[b],
         \/ outdated' = outdated
         \/ outdated' = outdated \union { a } /\ approval[a].version < r.version,
         \A n \in handlers' \ handlers : Fresh(n),
         VoteInv(a)', StateInv(a)'
  PROVE  ApprovalInv'
<1>1. OwnerInv'
  BY OwnerStep DEF ApprovalInv
<1>2. TypeOK'
  BY <1>1 DEF ApprovalInv, TypeOK, OwnerInv, Fresh
<1>3. /\ \A u \in Users : version[u] <= version'[u]
      /\ policy.version <= policy'.version
  BY DEF ApprovalInv, TypeOK, MembershipTypeOK, membershipVars
<1>4. approval'[a] = r /\ \A b \in Approvals \ { a } : approval'[b] = approval[b]
  BY DEF ApprovalInv, TypeOK
<1>5. Advances
  BY <1>2, <1>3, <1>4 DEF Advances
<1>6. /\ { a } \in SUBSET Approvals
      /\ \A b \in { a } : VoteInv(b)' /\ StateInv(b)'
      /\ \A b \in Approvals \ { a } :
           /\ approval'[b] = approval[b] /\ deployment'[b] = deployment[b]
           /\ b \in outdated' => b \in outdated \/ Stale(b)'
  BY <1>4
<1> QED
  BY <1>1, <1>5, <1>6, StepKeeps

-----------------------------------------------------------------------------
\* What an operation starts with.
LEMMA NewOperation ==
  ASSUME TypeOK, NEW a \in Approvals,
         NEW op \in { "create", "reject", "override", "cancel", "expire", "resume",
                      "invalidate", "begin", "consume" }
  PROVE  /\ Operation(op, a) \in Handler
         /\ Operation(op, a).op = op /\ Operation(op, a).of = a
         /\ Operation(op, a).item = approval[a]
BY DEF TypeOK, Operation, Handler

LEMMA NewBallot ==
  ASSUME TypeOK, NEW a \in Approvals, NEW u \in Users
  PROVE  /\ Ballot(u, a) \in Handler
         /\ Ballot(u, a).op = "approve" /\ Ballot(u, a).of = a
         /\ Ballot(u, a).item = approval[a]
         /\ Ballot(u, a).votes = { [ user |-> u, authorization |-> version[u] ] }
         /\ [ user |-> u, authorization |-> version[u] ] \in Vote
BY DEF TypeOK, MembershipTypeOK, Ballot, Operation, Handler, Vote

\* The operations that read: their guards are what their writes rely on.
LEMMA ReadsKeep ==
  ASSUME ApprovalInv, NEW a \in Approvals, Reads(a)
  PROVE  ApprovalInv'
<1>a. TypeOK /\ late \subseteq Approvals
  BY DEF ApprovalInv, TypeOK
<1>1. CASE FindPolicy(a)
  <2>1. Fresh(Operation("create", a))
    BY <1>a, NewOperation DEF Fresh, OpInv
  <2> QED
    BY <1>a, <1>1, <2>1, ReadingKeeps DEF FindPolicy, Starts
<1>2. ASSUME NEW u \in Users, Read("approve", u, a)
      PROVE  ApprovalInv'
  <2>1. approval[a].state = "pending" /\ u \notin VotersOf(a) /\ u # Requester
    BY <1>2 DEF Read, Goes, MayVote
  <2>2. version[u] \in Nat
    BY <1>a DEF TypeOK, MembershipTypeOK
  <2> DEFINE n == Ballot(u, a)
             v == [ user |-> u, authorization |-> version[u] ]
  <2>3. /\ n \in Handler /\ n.op = "approve" /\ n.of = a /\ n.item = approval[a]
        /\ n.votes = { v } /\ v \in Vote
    BY <1>a, NewBallot
  <2>4. /\ v.authorization <= version[v.user] /\ v.user \notin { x.user : x \in n.item.votes }
        /\ v.user # Requester
    BY <2>1, <2>2, <2>3 DEF VotersOf
  <2>5. Fresh(n)
    <3> HIDE DEF n, v
    <3> QED
      BY <2>1, <2>3, <2>4 DEF Fresh, OpInv
  <2> QED
    BY <1>a, <1>2, <2>5, ReadingKeeps DEF Read, Starts
<1>3. ASSUME NEW u \in Users, NEW op \in { "reject", "override", "cancel", "expire" },
             Read(op, u, a)
      PROVE  ApprovalInv'
  <2>1. /\ op # "expire" => approval[a].state = "pending"
        /\ op = "expire" => approval[a].state \in Unexpired
    BY <1>3 DEF Read, Goes
  <2>2. Fresh(Operation(op, a))
    BY <1>a, <2>1, NewOperation DEF Fresh, OpInv
  <2> QED
    BY <1>a, <1>3, <2>2, ReadingKeeps DEF Read, Starts
<1> QED
  BY <1>1, <1>2, <1>3 DEF Reads

\* The steps of the resumption before its write.
LEMMA ResumptionKeeps ==
  ASSUME ApprovalInv, NEW h \in handlers, Resume(h) \/ BeginExecution(h) \/ Fails(h)
  PROVE  ApprovalInv'
<1> DEFINE a == h.of
<1>a. /\ TypeOK /\ late \subseteq Approvals /\ a \in Approvals
      /\ VoteInv(a) /\ StateInv(a) /\ approval[a] \in Request
      /\ version \in [ Users -> Nat ] /\ policy.version \in Nat
  BY DEF ApprovalInv, TypeOK, MembershipTypeOK, Handler
<1>1. CASE Resume(h)
  <2>1. Fresh(Operation("begin", a))
    BY <1>a, NewOperation DEF Fresh, OpInv
  <2>2. approval[a].state \in Unexpired => Fresh(Operation("invalidate", a))
    BY <1>a, NewOperation DEF Fresh, OpInv
  <2> QED
    BY <1>a, <1>1, <2>1, <2>2, ReadingKeeps DEF Resume, Resumes, Ends
<1>2. CASE BeginExecution(h)
  <2>1. /\ approval[a].state \in { "approved", "overridden" }
        /\ policy.version = approval[a].policyVersion
        /\ StillAuthorized(a)
        => Fresh(Operation("consume", a))
    <3> SUFFICES ASSUME approval[a].state \in { "approved", "overridden" },
                        policy.version = approval[a].policyVersion,
                        StillAuthorized(a)
                 PROVE  Fresh(Operation("consume", a))
      OBVIOUS
    <3>1. ~Stale(a)
      BY <1>a DEF Stale, StillAuthorized, Request, Vote
    <3>2. a \notin outdated
      BY <1>a, <3>1 DEF StateInv
    <3> QED
      BY <1>a, <3>2, NewOperation DEF Fresh, OpInv
  <2> QED
    BY <1>a, <1>2, <2>1, ReadingKeeps DEF BeginExecution, Resumes, Ends
<1>3. CASE Fails(h)
  BY <1>a, <1>3, ReadingKeeps DEF Fails, Ends
<1> QED
  BY <1>1, <1>2, <1>3

LEMMA ExpiryKeeps ==
  ASSUME ApprovalInv, NEW a \in Approvals, Expires(a)
  PROVE  ApprovalInv'
BY ReadingKeeps DEF Expires, ApprovalInv, TypeOK

-----------------------------------------------------------------------------
\* What an operation that saves has read is the request as it is.
LEMMA Found ==
  ASSUME ApprovalInv, NEW h \in handlers, Saves(h)
  PROVE  /\ h \in Handler /\ h.of \in Approvals
         /\ h.item = approval[h.of] /\ h.item \in Request /\ h.item.version \in Nat
         /\ h.item.votes \in SUBSET Vote
         /\ OpInv(h) /\ VoteInv(h.of) /\ StateInv(h.of)
         /\ TypeOK /\ version \in [ Users -> Nat ] /\ policy.version \in Nat
BY DEF ApprovalInv, TypeOK, MembershipTypeOK, Handler, ItemInv, Saves, Request

\* A request whose votes stay keeps what holds of them.
LEMMA VotesKept ==
  ASSUME NEW a, VoteInv(a), approval'[a].votes = approval[a].votes,
         approval'[a].policyVersion = approval[a].policyVersion,
         UNCHANGED << version, policy >>
  PROVE  VoteInv(a)' /\ VotersOf(a)' = VotersOf(a) /\ Stale(a)' = Stale(a)
<1>1. VotersOf(a)' = VotersOf(a)
  BY DEF VotersOf
<1> QED
  BY <1>1 DEF VoteInv, Stale

\* What _save writes.
LEMMA SavedRequest ==
  ASSUME NEW q \in Request, NEW s \in RequestStates
  PROVE  /\ Saved(q, s) \in Request /\ q.version < Saved(q, s).version
         /\ Saved(q, s).state = s /\ Saved(q, s).votes = q.votes
         /\ Saved(q, s).policyVersion = q.policyVersion
         /\ Saved(q, s).overridden = q.overridden
<1>1. PICK n \in Nat : n = q.version + 1 /\ q.version < n
  BY DEF Request
<1>2. [ q EXCEPT !.state = s, !.version = n ] \in Request
  BY DEF Request
<1>3. Saved(q, s) = [ q EXCEPT !.state = s, !.version = n ]
  BY <1>1 DEF Saved
<1> QED
  BY <1>1, <1>2, <1>3 DEF Request

LEMMA CreateKeeps ==
  ASSUME ApprovalInv, NEW h \in handlers, CreateProtected(h)
  PROVE  ApprovalInv'
<1> DEFINE a == h.of
           p == [ NoApproval EXCEPT !.state = "pending", !.version = 1,
                                    !.policyVersion = policy.version ]
           r == IF policy.enabled THEN p ELSE approval[a]
<1>a. /\ TypeOK /\ a \in Approvals /\ policy.version \in Nat
      /\ deployment[a] = "absent" /\ VoteInv(a) /\ StateInv(a)
      /\ approval \in [ Approvals -> Request ]
      /\ deployment \in [ Approvals -> { "absent", "waiting_for_approval", "queued" } ]
  BY DEF ApprovalInv, TypeOK, Handler, CreateProtected
<1>b. approval[a] = NoApproval /\ a \notin outdated
  BY <1>a DEF StateInv
<1>c. /\ p \in Request /\ p.state = "pending" /\ p.version = 1 /\ p.votes = {}
      /\ p.policyVersion = policy.version
      /\ NoApproval.version = 0 /\ NoApproval.state = "absent" /\ NoApproval.votes = {}
      /\ NoApproval.policyVersion = 0
  BY <1>a DEF NoApproval, Request, RequestStates
<1> HIDE DEF p
<1>1. /\ r \in Request /\ (r = approval[a] \/ approval[a].version < r.version)
      /\ approval' = [ approval EXCEPT ![a] = r ]
  <2>1. CASE policy.enabled
    <3>1. r = p /\ approval' = [ approval EXCEPT ![a] = p ]
      BY <2>1 DEF CreateProtected, p
    <3> HIDE DEF r
    <3> QED
      BY <1>b, <1>c, <3>1
  <2>2. CASE ~policy.enabled
    <3>1. r = approval[a] /\ approval' = approval
      BY <2>2 DEF CreateProtected
    <3> QED
      BY <1>a, <3>1
  <2> QED
    BY <2>1, <2>2
<1>2. /\ approval'[a] = r
      /\ deployment' = [ deployment EXCEPT ![a] = "waiting_for_approval" ]
      /\ deployment'[a] = "waiting_for_approval"
      /\ UNCHANGED << membershipVars, policy, late, outdated >>
      /\ \A n \in handlers' \ handlers : Fresh(n)
  BY <1>a, <1>1 DEF CreateProtected, Ends
<1>3. /\ r.votes = {} /\ r.policyVersion <= policy.version
      /\ r.state = "pending" \/ (r.state = "absent" /\ r = NoApproval)
      /\ VotersOf(a)' = {} /\ IsFiniteSet({}) /\ Cardinality({}) = 0
  BY <1>a, <1>b, <1>c, <1>2, FS_EmptySet DEF VotersOf
<1> HIDE DEF r
<1>4. VoteInv(a)'
  BY <1>2, <1>3 DEF VoteInv
<1>5. StateInv(a)'
  BY <1>b, <1>c, <1>2, <1>3, ApprovalAssumption DEF StateInv
<1> QED
  BY <1>a, <1>1, <1>2, <1>4, <1>5, WritingKeeps

\* reject, cancel, expire, invalidate: the request waited, or was approved.
LEMMA CloseKeeps ==
  ASSUME ApprovalInv, NEW h \in handlers, Close(h)
  PROVE  ApprovalInv'
<1> DEFINE a == h.of
           r == Saved(h.item, ClosedBy(h.op))
<1>a. /\ Saves(h) /\ approval' = [ approval EXCEPT ![a] = r ]
      /\ UNCHANGED << membershipVars, policy, deployment, late, outdated >>
      /\ \A n \in handlers' \ handlers : Fresh(n)
      /\ h.op \in { "reject", "cancel", "expire", "invalidate" }
  BY DEF Close, SaveAs, Ends
<1>b. /\ h \in Handler /\ a \in Approvals /\ h.item = approval[a] /\ h.item \in Request
      /\ h.item.version \in Nat /\ VoteInv(a) /\ StateInv(a)
      /\ h.item.state \in Unexpired
      /\ approval \in [ Approvals -> Request ]
      /\ deployment \in [ Approvals -> { "absent", "waiting_for_approval", "queued" } ]
  BY <1>a, Found DEF OpInv, Unexpired, TypeOK
<1>c. ClosedBy(h.op) \in FinalStates \ { "consumed" }
  BY <1>a DEF ClosedBy, FinalStates
<1>1. /\ r \in Request /\ approval[a].version < r.version
      /\ r.votes = approval[a].votes /\ r.policyVersion = approval[a].policyVersion
      /\ r.state \in FinalStates \ { "consumed" }
  <2>1. ClosedBy(h.op) \in RequestStates
    BY <1>c DEF RequestStates
  <2> QED
    BY <1>b, <1>c, <2>1, SavedRequest
<1> HIDE DEF r
<1>2. approval'[a] = r
  BY <1>a, <1>b
<1>3. VoteInv(a)' /\ Stale(a)' = Stale(a)
  BY <1>a, <1>b, <1>1, <1>2, VotesKept DEF membershipVars
<1>4. deployment[a] \notin { "absent", "queued" }
  BY <1>b DEF StateInv, NoApproval, Unexpired
<1>5. StateInv(a)'
  BY <1>a, <1>b, <1>1, <1>2, <1>3, <1>4 DEF StateInv, FinalStates
<1> QED
  BY <1>a, <1>b, <1>1, <1>3, <1>5, WritingKeeps

LEMMA OverrideKeeps ==
  ASSUME ApprovalInv, NEW h \in handlers, Override(h)
  PROVE  ApprovalInv'
<1> DEFINE a == h.of
           q == Saved(h.item, "overridden")
           r == [ q EXCEPT !.overridden = TRUE ]
<1>a. /\ Saves(h) /\ approval' = [ approval EXCEPT ![a] = r ]
      /\ UNCHANGED << membershipVars, policy, deployment, late, outdated >>
      /\ handlers' = (handlers \ { h }) \union { Operation("resume", a) }
      /\ h.op = "override"
  BY DEF Override, Resumes
<1>b. /\ h \in Handler /\ a \in Approvals /\ h.item = approval[a] /\ h.item \in Request
      /\ h.item.version \in Nat /\ VoteInv(a) /\ StateInv(a)
      /\ h.item.state = "pending" /\ TypeOK
      /\ approval \in [ Approvals -> Request ]
      /\ deployment \in [ Approvals -> { "absent", "waiting_for_approval", "queued" } ]
  BY <1>a, Found DEF OpInv, TypeOK
<1>1. /\ r \in Request /\ approval[a].version < r.version
      /\ r.votes = approval[a].votes /\ r.policyVersion = approval[a].policyVersion
      /\ r.state = "overridden" /\ r.overridden
  <2>1. /\ q \in Request /\ approval[a].version < q.version /\ q.votes = approval[a].votes
        /\ q.policyVersion = approval[a].policyVersion /\ q.state = "overridden"
    BY <1>b, SavedRequest DEF RequestStates
  <2> HIDE DEF q
  <2> QED
    BY <2>1 DEF Request
<1> HIDE DEF r
<1>2. approval'[a] = r
  BY <1>a, <1>b
<1>3. VoteInv(a)' /\ Stale(a)' = Stale(a)
  BY <1>a, <1>b, <1>1, <1>2, VotesKept DEF membershipVars
<1>4. deployment[a] \notin { "absent", "queued" }
  BY <1>b DEF StateInv, NoApproval
<1>5. StateInv(a)'
  BY <1>a, <1>b, <1>1, <1>2, <1>3, <1>4 DEF StateInv
<1>6. \A n \in handlers' \ handlers : Fresh(n)
  BY <1>a, <1>b, NewOperation DEF Fresh, OpInv
<1> QED
  BY <1>a, <1>b, <1>1, <1>3, <1>5, <1>6, WritingKeeps

\* A vote: the set that is counted has one member more than the one that was
\* read, since the request is still the same and the voter is not among them.
LEMMA ApproveKeeps ==
  ASSUME ApprovalInv, NEW h \in handlers, Approve(h)
  PROVE  ApprovalInv'
<1> DEFINE a == h.of
           V == approval[a].votes \union h.votes
           s == IF Cardinality(h.item.votes \union h.votes) >= RequiredCount
                THEN "approved" ELSE "pending"
           q == Saved(h.item, s)
           r == [ q EXCEPT !.votes = V ]
<1>a. /\ Saves(h) /\ h.op = "approve"
      /\ UNCHANGED << membershipVars, policy, deployment, late >>
      /\ handlers' \subseteq (handlers \ { h }) \union { Operation("resume", a) }
      /\ outdated' = IF \A v \in h.votes : version[v.user] = v.authorization THEN outdated
                     ELSE outdated \union { a }
  BY DEF Approve, Resumes, Ends
<1>b. /\ h \in Handler /\ a \in Approvals /\ h.item = approval[a] /\ h.item \in Request
      /\ h.item.version \in Nat /\ VoteInv(a) /\ StateInv(a) /\ OpInv(h)
      /\ h.item.state = "pending" /\ TypeOK /\ h.item.votes \in SUBSET Vote
      /\ approval \in [ Approvals -> Request ]
      /\ deployment \in [ Approvals -> { "absent", "waiting_for_approval", "queued" } ]
      /\ version \in [ Users -> Nat ]
  BY <1>a, Found DEF OpInv, TypeOK
<1>c. PICK v \in Vote : /\ h.votes = { v } /\ v.authorization <= version[v.user]
                        /\ v.user \notin { x.user : x \in h.item.votes }
  BY <1>a, <1>b DEF OpInv
<1>d. V \in SUBSET Vote /\ V = h.item.votes \union { v } /\ v \notin h.item.votes
  BY <1>b, <1>c
<1>e. approval' = [ approval EXCEPT ![a] = r ]
  BY DEF Approve
<1>1. /\ r \in Request /\ approval[a].version < r.version
      /\ r.votes = V /\ r.policyVersion = approval[a].policyVersion /\ r.state = s
  <2>1. s \in RequestStates
    BY DEF RequestStates
  <2>2. /\ q \in Request /\ approval[a].version < q.version /\ q.state = s
        /\ q.policyVersion = approval[a].policyVersion
    <3> HIDE DEF s
    <3> QED
      BY <1>b, <2>1, SavedRequest
  <2> HIDE DEF q, s, V
  <2> QED
    BY <1>d, <2>2 DEF Request
<1> HIDE DEF r
<1>2. approval'[a] = r
  BY <1>b, <1>e
<1>3. /\ VotersOf(a)' = VotersOf(a) \union { v.user } /\ v.user \notin VotersOf(a)
      /\ VotersOf(a) = { x.user : x \in h.item.votes }
  BY <1>b, <1>c, <1>d, <1>1, <1>2 DEF VotersOf
<1>4. /\ IsFiniteSet(V) /\ Cardinality(V) = Cardinality(approval[a].votes) + 1
      /\ IsFiniteSet(VotersOf(a)') /\ Cardinality(VotersOf(a)') = Cardinality(VotersOf(a)) + 1
      /\ Cardinality(V) \in Nat
  <2>1. /\ IsFiniteSet(approval[a].votes) /\ v \notin approval[a].votes
        /\ IsFiniteSet(VotersOf(a))
        /\ V = approval[a].votes \union { v }
    BY <1>b, <1>d DEF VoteInv
  <2> HIDE DEF V
  <2>2. IsFiniteSet(V) /\ Cardinality(V) = Cardinality(approval[a].votes) + 1
    BY <2>1, FS_AddElement
  <2>3. /\ IsFiniteSet(VotersOf(a)')
        /\ Cardinality(VotersOf(a)') = Cardinality(VotersOf(a)) + 1
    BY <1>3, <2>1, FS_AddElement
  <2> QED
    BY <2>2, <2>3, FS_CardinalityType
<1>5. Cardinality(VotersOf(a)') = Cardinality(V)
  BY <1>b, <1>4 DEF VoteInv
<1>6. VoteInv(a)'
  <2>1. \A x \in V : x.authorization <= version'[x.user]
    BY <1>a, <1>b, <1>c, <1>d DEF VoteInv, membershipVars
  <2> HIDE DEF V
  <2> QED
    BY <1>a, <1>b, <1>1, <1>2, <1>4, <1>5, <2>1 DEF VoteInv
<1>7. a \in outdated' => Stale(a)'
  <2>1. Stale(a) => Stale(a)'
    BY <1>a, <1>b, <1>d, <1>1, <1>2 DEF Stale, membershipVars
  <2>2. v.authorization # version[v.user] => Stale(a)'
    <3>1. v.user \in Users /\ v.authorization \in Nat
      BY DEF Vote
    <3>2. v.authorization # version[v.user] => v.authorization < version'[v.user]
      BY <1>a, <1>b, <1>c, <3>1 DEF membershipVars
    <3> QED
      BY <1>d, <1>1, <1>2, <3>2 DEF Stale
  <2> QED
    BY <1>a, <1>b, <1>c, <2>1, <2>2 DEF StateInv
<1>8. StateInv(a)'
  <2>1. deployment'[a] \notin { "absent", "queued" }
    BY <1>a, <1>b DEF StateInv, NoApproval
  <2>2. /\ r.state = "pending" => Cardinality(VotersOf(a)') < RequiredCount
        /\ r.state = "approved" => Cardinality(VotersOf(a)') >= RequiredCount
        /\ r.state \in { "pending", "approved" }
    BY <1>b, <1>c, <1>d, <1>1, <1>4, <1>5, ApprovalAssumption
  <2> QED
    BY <1>2, <1>7, <2>1, <2>2 DEF StateInv
<1>9. \A n \in handlers' \ handlers : Fresh(n)
  BY <1>a, <1>b, NewOperation DEF Fresh, OpInv
<1>10. outdated' = outdated \/ outdated' = outdated \union { a }
  BY <1>a
<1> QED
  BY <1>a, <1>b, <1>e, <1>1, <1>6, <1>8, <1>9, <1>10, WritingKeeps

\* The write of the resumption: what it found still holds of the request.
LEMMA ConsumeKeeps ==
  ASSUME ApprovalInv, NEW h \in handlers, Consume(h)
  PROVE  ApprovalInv'
<1> DEFINE a == h.of
           r == Saved(h.item, "consumed")
<1>a. /\ Saves(h) /\ approval' = [ approval EXCEPT ![a] = r ] /\ h.op = "consume"
      /\ UNCHANGED << membershipVars, policy, late, outdated >>
      /\ deployment' = [ deployment EXCEPT ![a] = "queued" ]
      /\ \A n \in handlers' \ handlers : Fresh(n)
  BY DEF Consume, SaveAs, Ends
<1>b. /\ h \in Handler /\ a \in Approvals /\ h.item = approval[a] /\ h.item \in Request
      /\ h.item.version \in Nat /\ VoteInv(a) /\ StateInv(a)
      /\ h.item.state \in { "approved", "overridden" } /\ TypeOK
      /\ a \notin outdated
      /\ approval \in [ Approvals -> Request ]
      /\ deployment \in [ Approvals -> { "absent", "waiting_for_approval", "queued" } ]
  BY <1>a, Found DEF OpInv, TypeOK, Saves
<1>1. /\ r \in Request /\ approval[a].version < r.version
      /\ r.votes = approval[a].votes /\ r.policyVersion = approval[a].policyVersion
      /\ r.state = "consumed" /\ r.overridden = approval[a].overridden
  BY <1>b, SavedRequest DEF RequestStates, FinalStates
<1> HIDE DEF r
<1>2. approval'[a] = r /\ deployment'[a] = "queued"
  BY <1>a, <1>b
<1>3. VoteInv(a)' /\ VotersOf(a)' = VotersOf(a)
  BY <1>a, <1>b, <1>1, <1>2, VotesKept DEF membershipVars
<1>4. StateInv(a)'
  BY <1>a, <1>b, <1>1, <1>2, <1>3 DEF StateInv
<1> QED
  BY <1>a, <1>b, <1>1, <1>3, <1>4, WritingKeeps

-----------------------------------------------------------------------------
\* A step of another request, or of a member, is one of Membership.
LEMMA MembershipStep == [Next]_vars => [MembershipNext]_membershipVars
<1> SUFFICES ASSUME [Next]_vars PROVE [MembershipNext]_membershipVars
  OBVIOUS
<1>1. ASSUME NEW a \in Approvals, Reads(a) \/ Expires(a) PROVE UNCHANGED membershipVars
  BY <1>1 DEF Reads, FindPolicy, Read, Expires
<1>2. ASSUME NEW h \in handlers, Proceeds(h) PROVE UNCHANGED membershipVars
  BY <1>2 DEF Proceeds, CreateProtected, Approve, Override, Close, Resume, BeginExecution,
              Consume, Fails
<1>3. ASSUME NEW enabled \in BOOLEAN, SetPolicy(enabled) PROVE UNCHANGED membershipVars
  BY <1>3 DEF SetPolicy
<1>4. ASSUME NEW c \in Changes, ChangeMembership(c) PROVE MembershipNext
  BY <1>4 DEF ChangeMembership, MembershipNext, ChangeStep
<1>5. CASE JoinOrganization
  BY <1>5 DEF JoinOrganization, MembershipNext
<1>6. CASE UNCHANGED vars
  BY <1>6 DEF vars
<1> QED
  BY <1>1, <1>2, <1>3, <1>4, <1>5, <1>6 DEF Next

\* What is pending when the policy is edited gets stale.
LEMMA PolicyKeeps ==
  ASSUME ApprovalInv, NEW enabled \in BOOLEAN, SetPolicy(enabled)
  PROVE  ApprovalInv'
<1>a. /\ UNCHANGED << membershipVars, deployment, approval, late, handlers >>
      /\ policy' = [ version |-> policy.version + 1, enabled |-> enabled ]
      /\ outdated' = outdated \union Pending
      /\ TypeOK /\ policy.version \in Nat
      /\ \A a \in Approvals : VoteInv(a) /\ approval[a].policyVersion \in Nat
  BY DEF SetPolicy, ApprovalInv, TypeOK, Request
<1>1. OwnerInv'
  BY <1>a, OwnerStep DEF ApprovalInv
<1>2. TypeOK' /\ policy.version < policy'.version
  BY <1>a, <1>1 DEF TypeOK, OwnerInv, Pending
<1>3. \A u \in Users : version[u] <= version'[u]
  BY <1>a DEF TypeOK, MembershipTypeOK, membershipVars
<1>4. Advances
  BY <1>a, <1>2, <1>3 DEF Advances
<1>5. ASSUME NEW a \in Approvals PROVE Stale(a)'
  BY <1>a, <1>2 DEF VoteInv, Stale
<1>6. /\ {} \in SUBSET Approvals
      /\ \A a \in {} : VoteInv(a)' /\ StateInv(a)'
      /\ \A a \in Approvals \ {} :
           /\ approval'[a] = approval[a] /\ deployment'[a] = deployment[a]
           /\ a \in outdated' => a \in outdated \/ Stale(a)'
      /\ \A h \in handlers' \ handlers : Fresh(h)
  BY <1>a, <1>5
<1> QED
  BY <1>1, <1>4, <1>6, StepKeeps

\* What a member who changes has voted on gets stale.
LEMMA MemberKeeps ==
  ASSUME ApprovalInv, \/ \E c \in Changes : ChangeMembership(c)
                      \/ JoinOrganization
  PROVE  ApprovalInv'
<1>a. /\ TypeOK /\ OwnerInv /\ policy.version \in Nat
      /\ version \in [ Users -> Nat ]
      /\ UNCHANGED << policy, deployment, approval, late, handlers >>
  BY DEF ApprovalInv, TypeOK, MembershipTypeOK, ChangeMembership, JoinOrganization
<1>1. OwnerInv'
  BY <1>a, MembershipStep, OwnerStep DEF Next
<1>2. /\ \A u \in Users : version[u] <= version'[u]
      /\ outdated' \subseteq outdated \union Pending
      /\ \A a \in Approvals : a \in outdated' => a \in outdated \/ Stale(a)'
  <2>1. CASE UNCHANGED << version, outdated >>
    BY <1>a, <2>1
  <2>2. ASSUME NEW c \in Changes, UpdateMember(c),
               outdated' = outdated \union { a \in Pending : change[c].target \in VotersOf(a) }
        PROVE  /\ \A u \in Users : version[u] <= version'[u]
               /\ outdated' \subseteq outdated \union Pending
               /\ \A a \in Approvals : a \in outdated' => a \in outdated \/ Stale(a)'
    <3> DEFINE t == change[c].target
    <3>1. version' = [ version EXCEPT ![t] = @ + 1 ] /\ t \in Users
      BY <1>a, <2>2 DEF UpdateMember, TypeOK, MembershipTypeOK, ChangeType
    <3>2. version[t] < version'[t] /\ \A u \in Users : version[u] <= version'[u]
      BY <1>a, <3>1
    <3>3. ASSUME NEW a \in Approvals, t \in VotersOf(a) PROVE Stale(a)'
      <4>1. PICK v \in approval[a].votes : v.user = t
        BY <3>3 DEF VotersOf
      <4>2. v.authorization <= version[t] /\ v.authorization \in Nat
        BY <4>1 DEF ApprovalInv, VoteInv, TypeOK, Request, Vote
      <4>3. v.authorization < version'[v.user]
        BY <1>a, <1>1, <3>1, <3>2, <4>1, <4>2 DEF OwnerInv, MembershipTypeOK
      <4> QED
        BY <1>a, <4>1, <4>3 DEF Stale
    <3> QED
      BY <2>2, <3>2, <3>3
  <2> QED
    BY <2>1, <2>2 DEF ChangeMembership, JoinOrganization, BeginChange, LockTarget, LockOwner,
                      CountOwners, Abort, AddMember
<1>3. TypeOK'
  BY <1>a, <1>1, <1>2 DEF TypeOK, OwnerInv, Pending
<1>4. Advances
  BY <1>a, <1>2, <1>3 DEF Advances
<1>5. /\ {} \in SUBSET Approvals
      /\ \A a \in {} : VoteInv(a)' /\ StateInv(a)'
      /\ \A a \in Approvals \ {} :
           /\ approval'[a] = approval[a] /\ deployment'[a] = deployment[a]
           /\ a \in outdated' => a \in outdated \/ Stale(a)'
      /\ \A h \in handlers' \ handlers : Fresh(h)
  BY <1>a, <1>2
<1> QED
  BY <1>1, <1>4, <1>5, StepKeeps

LEMMA ApprovalStep == ApprovalInv /\ [Next]_vars => ApprovalInv'
<1> SUFFICES ASSUME ApprovalInv, [Next]_vars PROVE ApprovalInv'
  OBVIOUS
<1>1. ASSUME NEW a \in Approvals, Reads(a) \/ Expires(a) PROVE ApprovalInv'
  BY <1>1, ReadsKeep, ExpiryKeeps
<1>2. ASSUME NEW h \in handlers, Proceeds(h) PROVE ApprovalInv'
  BY <1>2, CreateKeeps, ApproveKeeps, OverrideKeeps, CloseKeeps, ResumptionKeeps, ConsumeKeeps
  DEF Proceeds
<1>3. CASE UNCHANGED vars
  <2>1. UNCHANGED << membershipVars, policy, deployment, approval, outdated, handlers, late >>
    BY <1>3 DEF vars
  <2> QED
    BY <2>1, ReadingKeeps DEF ApprovalInv, TypeOK
<1> QED
  BY <1>1, <1>2, <1>3, PolicyKeeps, MemberKeeps DEF Next

-----------------------------------------------------------------------------
\* The operations of approvals change members as Membership says, and no other
\* way: assertApproverChangeSafe only restricts the handlers of memberships.
THEOREM MembersAsSpecified == Spec => MembershipSpec
<1>1. Init => MembershipInit
  BY DEF Init
<1> QED
  BY <1>1, MembershipStep, PTL DEF Spec, MembershipSpec

\* However many votes are cast at the same time, decide counts each of them
\* once: a request is approved, and its deployment queued, with a quorum of
\* different members or an override, and it does not wait when it has one.
THEOREM QuorumIsNeeded == Spec => []QuorumDecides
<1>1. ApprovalInv => QuorumDecides
  <2> SUFFICES ASSUME ApprovalInv, NEW a \in Approvals
               PROVE  /\ approval[a].state = "pending" => Cardinality(VotersOf(a)) < RequiredCount
                      /\ approval[a].state = "approved" => Cardinality(VotersOf(a)) >= RequiredCount
                      /\ deployment[a] = "queued" =>
                           Cardinality(VotersOf(a)) >= RequiredCount \/ approval[a].overridden
    BY DEF QuorumDecides
  <2>1. StateInv(a)
    BY DEF ApprovalInv
  <2> QED
    BY <2>1 DEF StateInv
<1> QED
  BY <1>1, ApprovalInit, ApprovalStep, PTL DEF Spec

\* beginExecution resumes no deployment on a vote of a member who changed, or
\* under a policy that was edited, while the request was pending.
THEOREM OutdatedStops == Spec => []NothingOutdatedResumes
<1>1. ApprovalInv => NothingOutdatedResumes
  BY DEF ApprovalInv, StateInv, NothingOutdatedResumes, TypeOK
<1> QED
  BY <1>1, ApprovalInit, ApprovalStep, PTL DEF Spec

\* No operation that was in flight when a request was closed revives it.
THEOREM ClosedStaysClosed == Spec => NeverRevived
<1>1. ASSUME ApprovalInv, [Next]_vars, NEW a \in Approvals, approval[a].state \in FinalStates
      PROVE  approval'[a] = approval[a]
  <2>a. approval \in [ Approvals -> Request ] /\ \A b \in Approvals : StateInv(b)
    BY <1>1 DEF ApprovalInv, TypeOK
  <2>1. ASSUME NEW h \in handlers, Saves(h),
               h.op \in { "approve", "reject", "override", "cancel", "expire", "invalidate",
                          "consume" }
        PROVE  h.of # a
    <3>1. h.item = approval[h.of] /\ h.item.state \in Unexpired
      BY <1>1, <2>1, Found DEF OpInv, Unexpired
    <3> QED
      BY <1>1, <3>1 DEF Unexpired, FinalStates
  <2>2. ASSUME NEW h \in handlers, CreateProtected(h)
        PROVE  h.of # a
    BY <1>1, <2>a, <2>2 DEF CreateProtected, StateInv, NoApproval, FinalStates
  <2>3. ASSUME NEW h \in handlers, Proceeds(h)
        PROVE  approval'[a] = approval[a]
    BY <2>a, <2>1, <2>2, <2>3
    DEF Proceeds, CreateProtected, Approve, Override, Close, SaveAs, Resume, BeginExecution,
        Consume, Fails
  <2> QED
    BY <1>1, <2>3
    DEF Next, vars, Reads, FindPolicy, Read, Expires, SetPolicy, ChangeMembership,
        JoinOrganization
<1>2. ApprovalInv /\ [Next]_vars =>
        [ \A a \in Approvals :
            approval[a].state \in FinalStates => approval'[a] = approval[a] ]_vars
  BY <1>1
<1> QED
  BY <1>2, ApprovalInit, ApprovalStep, PTL DEF Spec, NeverRevived

-----------------------------------------------------------------------------
(***************************************************************************)
(* The store implements the in-memory one: what an operation writes is a   *)
(* step of ApprovalRequests on the request as it is, since an operation    *)
(* that saves has read just that.                                          *)
(***************************************************************************)
VotersIn(votes) == { v.user : v \in votes }

AsItem(s, v, o) == [ state |-> s, approvals |-> v, override |-> o ]

Given(b) == IF b THEN "given" ELSE "none"

Stored(r) == AsItem(r.state, VotersIn(r.votes), Given(r.overridden))

Items == [ a \in Approvals |-> StoredRequest(a) ]

Executed == { a \in Approvals : deployment[a] = "queued" }

\* The mapped specification counts as this one does.
LEMMA SameCardinality ==
  ASSUME NEW S
  PROVE  InMemory!Cardinality(S) = Cardinality(S)
BY DEF Cardinality, InMemory!Cardinality

LEMMA ItemFields ==
  ASSUME NEW s, NEW v, NEW o, NEW new
  PROVE  /\ AsItem(s, v, o).state = s /\ AsItem(s, v, o).approvals = v
         /\ AsItem(s, v, o).override = o
         /\ [ AsItem(s, v, o) EXCEPT !.state = new ] = AsItem(new, v, o)
         /\ [ AsItem(s, v, o) EXCEPT !.approvals = new ] = AsItem(s, new, o)
         /\ [ AsItem(s, v, o) EXCEPT !.override = new ] = AsItem(s, v, new)
BY DEF AsItem

LEMMA ItemIs ==
  ASSUME NEW a \in Approvals
  PROVE  Items[a] = Stored(approval[a])
BY DEF Items, StoredRequest, Stored, AsItem, Given, VotersOf, VotersIn

\* One request is written and the others stay.
LEMMA ItemWritten ==
  ASSUME TypeOK, NEW a \in Approvals, NEW r,
         approval' = [ approval EXCEPT ![a] = r ]
  PROVE  Items' = [ Items EXCEPT ![a] = Stored(r) ]
<1>1. approval'[a] = r /\ \A b \in Approvals \ { a } : approval'[b] = approval[b]
  BY DEF TypeOK
<1>2. ASSUME NEW b \in Approvals PROVE StoredRequest(b)' = Stored(approval'[b])
  BY DEF StoredRequest, Stored, AsItem, Given, VotersOf, VotersIn
<1>3. ASSUME NEW b \in Approvals PROVE StoredRequest(b) = Stored(approval[b])
  BY DEF StoredRequest, Stored, AsItem, Given, VotersOf, VotersIn
<1> QED
  BY <1>1, <1>2, <1>3 DEF Items

LEMMA NothingWritten ==
  ASSUME UNCHANGED << approval, deployment >>
  PROVE  UNCHANGED << Items, Executed >>
BY DEF Items, Executed, StoredRequest, VotersOf

\* A saved request is the one that was read in another state.
LEMMA StoredSaved ==
  ASSUME NEW q \in Request, NEW to
  PROVE  Stored(Saved(q, to)) = [ Stored(q) EXCEPT !.state = to ]
<1>1. /\ Saved(q, to).state = to /\ Saved(q, to).votes = q.votes
      /\ Saved(q, to).overridden = q.overridden
  BY DEF Saved, Request
<1>2. Stored(Saved(q, to)) = AsItem(to, VotersIn(q.votes), Given(q.overridden))
  BY <1>1 DEF Stored
<1> QED
  BY <1>2, ItemFields DEF Stored

\* A write that only moves the request is a transition of its state.
LEMMA SavesOneStep ==
  ASSUME ApprovalInv, NEW h \in handlers, NEW to, SaveAs(h, to),
         to \in InMemory!TRANSITIONS[h.item.state]
  PROVE  InMemory!Becomes(h.of, to, Items[h.of])
<1> DEFINE a == h.of
<1>1. /\ Saves(h) /\ approval' = [ approval EXCEPT ![a] = Saved(h.item, to) ]
  BY DEF SaveAs
<1>2. TypeOK /\ a \in Approvals /\ h.item = approval[a] /\ h.item \in Request
  BY <1>1, Found
<1>3. Items[a] = Stored(h.item)
  BY <1>2, ItemIs
<1>4. Items' = [ Items EXCEPT ![a] = [ Items[a] EXCEPT !.state = to ] ]
  <2>1. Items' = [ Items EXCEPT ![a] = Stored(Saved(h.item, to)) ]
    BY <1>1, <1>2, ItemWritten
  <2>2. Stored(Saved(h.item, to)) = [ Stored(h.item) EXCEPT !.state = to ]
    BY <1>2, StoredSaved
  <2> QED
    BY <1>3, <2>1, <2>2, Zenon
<1>5. Items[a].state = h.item.state
  BY <1>3, ItemFields DEF Stored
<1> QED
  BY <1>4, <1>5 DEF InMemory!Becomes, Items

LEMMA CreateIsRequest ==
  ASSUME ApprovalInv, NEW h \in handlers, CreateProtected(h)
  PROVE  InMemory!Request(h.of) \/ UNCHANGED << Items, Executed >>
<1> DEFINE a == h.of
           r == [ NoApproval EXCEPT !.state = "pending", !.version = 1,
                                    !.policyVersion = policy.version ]
<1>a. /\ TypeOK /\ a \in Approvals /\ StateInv(a)
      /\ deployment \in [ Approvals -> { "absent", "waiting_for_approval", "queued" } ]
  BY DEF ApprovalInv, TypeOK, Handler
<1>b. /\ deployment[a] = "absent" /\ approval[a] = NoApproval
      /\ deployment' = [ deployment EXCEPT ![a] = "waiting_for_approval" ]
  BY <1>a DEF CreateProtected, StateInv
<1>1. Executed' = Executed
  BY <1>a, <1>b DEF Executed
<1>2. CASE approval' = approval
  BY <1>1, <1>2 DEF Items, StoredRequest, VotersOf
<1>3. CASE approval' = [ approval EXCEPT ![a] = r ]
  <2>1. r.state = "pending" /\ r.votes = {} /\ r.overridden = FALSE
    BY DEF NoApproval
  <2>2. Items[a] = AsItem("absent", VotersIn({}), "none")
    <3>1. NoApproval.state = "absent" /\ NoApproval.votes = {} /\ NoApproval.overridden = FALSE
      BY DEF NoApproval
    <3> QED
      BY <1>a, <1>b, <3>1, ItemIs DEF Stored, Given
  <2>3. Stored(r) = [ Items[a] EXCEPT !.state = "pending" ]
    <3>1. Stored(r) = AsItem("pending", VotersIn({}), "none")
      BY <2>1 DEF Stored, Given
    <3>2. \A W : [ AsItem("absent", W, "none") EXCEPT !.state = "pending" ]
                  = AsItem("pending", W, "none")
      BY ItemFields
    <3> HIDE DEF r
    <3> QED
      BY <2>2, <3>1, <3>2, Zenon
  <2>4. Items' = [ Items EXCEPT ![a] = [ Items[a] EXCEPT !.state = "pending" ] ]
    <3> HIDE DEF r
    <3> QED
      BY <1>a, <1>3, <2>3, ItemWritten
  <2>5. Items[a].state = "absent" /\ "pending" \in InMemory!TRANSITIONS["absent"]
    <3>1. AsItem("absent", VotersIn({}), "none").state = "absent"
      BY DEF AsItem
    <3> QED
      BY <2>2, <3>1 DEF InMemory!TRANSITIONS
  <2> QED
    BY <1>1, <2>4, <2>5 DEF InMemory!Request, InMemory!Becomes, Items, Executed
<1> QED
  BY <1>2, <1>3 DEF CreateProtected

LEMMA ApproveIsVote ==
  ASSUME ApprovalInv, NEW h \in handlers, Approve(h)
  PROVE  \E u \in Users \ { Requester } : InMemory!Approve(h.of, u)
<1> DEFINE a == h.of
           V == approval[a].votes \union h.votes
           s == IF Cardinality(h.item.votes \union h.votes) >= RequiredCount
                THEN "approved" ELSE "pending"
           q == Saved(h.item, s)
           r == [ q EXCEPT !.votes = V ]
<1>a. /\ Saves(h) /\ h.op = "approve" /\ approval' = [ approval EXCEPT ![a] = r ]
      /\ UNCHANGED deployment
  BY DEF Approve
<1>b. /\ TypeOK /\ a \in Approvals /\ h.item = approval[a] /\ h.item \in Request
      /\ h.item.state = "pending" /\ VoteInv(a) /\ OpInv(h) /\ h.item.votes \in SUBSET Vote
  BY <1>a, Found DEF OpInv
<1>c. PICK v \in Vote : /\ h.votes = { v } /\ v.user \notin { x.user : x \in h.item.votes }
                        /\ v.user # Requester
  BY <1>a, <1>b DEF OpInv
<1>1. v.user \in Users \ { Requester }
  BY <1>c DEF Vote
<1>2. /\ Items[a] = AsItem("pending", VotersIn(h.item.votes), Given(h.item.overridden))
      /\ Items[a].state = "pending" /\ Items[a].approvals = VotersIn(h.item.votes)
      /\ Items[a].override = Given(h.item.overridden)
  BY <1>b, ItemIs, ItemFields DEF Stored
<1>3. /\ Items[a].approvals = VotersOf(a) /\ v.user \notin Items[a].approvals
      /\ VotersIn(V) = Items[a].approvals \union { v.user }
  BY <1>b, <1>c, <1>2 DEF VotersOf, VotersIn
<1> DEFINE W == Items[a].approvals \union { v.user }
<1>4. Stored(r) = AsItem(s, W, Given(h.item.overridden))
  <2>1. s \in RequestStates
    BY DEF RequestStates
  <2>2. q.state = s /\ q.overridden = h.item.overridden /\ q \in Request
    <3> HIDE DEF s
    <3> QED
      BY <1>b, <2>1, SavedRequest DEF Saved, Request
  <2>3. r.state = s /\ r.votes = V /\ r.overridden = h.item.overridden
    <3> HIDE DEF q, V, s
    <3> QED
      BY <2>2 DEF Request
  <2> HIDE DEF r, V, s
  <2> QED
    BY <1>3, <2>3 DEF Stored
<1>5. Items' = [ Items EXCEPT ![a] = Stored(r) ]
  BY <1>a, <1>b, ItemWritten
<1>6. Cardinality(h.item.votes \union h.votes) = Cardinality(W)
  <2>1. /\ IsFiniteSet(h.item.votes) /\ v \notin h.item.votes
        /\ IsFiniteSet(Items[a].approvals)
        /\ Cardinality(h.item.votes) = Cardinality(Items[a].approvals)
    BY <1>b, <1>c, <1>3 DEF VoteInv
  <2>2. Cardinality(h.item.votes \union { v }) = Cardinality(h.item.votes) + 1
    BY <2>1, FS_AddElement
  <2>3. Cardinality(Items[a].approvals \union { v.user }) = Cardinality(Items[a].approvals) + 1
    BY <1>3, <2>1, FS_AddElement
  <2> QED
    BY <1>c, <2>1, <2>2, <2>3
<1>7. UNCHANGED Executed
  BY <1>a DEF Executed
<1> DEFINE voted == [ Items[a] EXCEPT !.approvals = @ \union { v.user } ]
<1>8. /\ voted = AsItem("pending", W, Given(h.item.overridden)) /\ voted.approvals = W
      /\ [ voted EXCEPT !.state = "approved" ] = AsItem("approved", W, Given(h.item.overridden))
  <2>1. /\ [ AsItem("pending", VotersIn(h.item.votes), Given(h.item.overridden)) EXCEPT !.approvals = W ]
             = AsItem("pending", W, Given(h.item.overridden))
        /\ AsItem("pending", W, Given(h.item.overridden)).approvals = W
        /\ [ AsItem("pending", W, Given(h.item.overridden)) EXCEPT !.state = "approved" ]
             = AsItem("approved", W, Given(h.item.overridden))
    BY DEF AsItem
  <2>2. voted = AsItem("pending", W, Given(h.item.overridden))
    <3>1. voted = [ Items[a] EXCEPT !.approvals = W ]
      OBVIOUS
    <3> HIDE DEF W, voted
    <3> QED
      BY <1>2, <2>1, <3>1, Zenon
  <2> HIDE DEF W, voted
  <2> QED
    BY <2>1, <2>2, Zenon
<1>9. IF Cardinality(voted.approvals) >= RequiredCount
      THEN Items' = [ Items EXCEPT ![a] = [ voted EXCEPT !.state = "approved" ] ]
      ELSE Items' = [ Items EXCEPT ![a] = voted ]
  <2> HIDE DEF voted, r, W
  <2>1. CASE Cardinality(W) >= RequiredCount
    BY <1>4, <1>5, <1>6, <1>8, <2>1
  <2>2. CASE ~(Cardinality(W) >= RequiredCount)
    BY <1>4, <1>5, <1>6, <1>8, <2>2
  <2> QED
    BY <1>8, <2>1, <2>2
<1>10. "approved" \in InMemory!TRANSITIONS["pending"]
  BY DEF InMemory!TRANSITIONS
<1>11. InMemory!Approve(a, v.user)
  <2>1. /\ Cardinality(voted.approvals) >= RequiredCount =>
             InMemory!Becomes(a, "approved", voted)
        /\ ~(Cardinality(voted.approvals) >= RequiredCount) =>
             Items' = [ Items EXCEPT ![a] = voted ]
    <3> HIDE DEF voted
    <3> QED
      BY <1>2, <1>9, <1>10 DEF InMemory!Becomes, Items
  <2>2. /\ UNCHANGED Executed /\ Items[a].state = "pending"
        /\ v.user \notin Items[a].approvals
    BY <1>2, <1>3, <1>7
  <2> QED
    BY <2>1, <2>2, SameCardinality DEF InMemory!Approve, Items, Executed
<1> QED
  BY <1>1, <1>11

LEMMA OverrideIsOverride ==
  ASSUME ApprovalInv, NEW h \in handlers, Override(h)
  PROVE  InMemory!Override(h.of)
<1> DEFINE a == h.of
           q == Saved(h.item, "overridden")
           r == [ q EXCEPT !.overridden = TRUE ]
<1>a. /\ Saves(h) /\ h.op = "override" /\ approval' = [ approval EXCEPT ![a] = r ]
      /\ UNCHANGED deployment
  BY DEF Override
<1>b. /\ TypeOK /\ a \in Approvals /\ h.item = approval[a] /\ h.item \in Request
      /\ h.item.state = "pending"
  BY <1>a, Found DEF OpInv
<1> DEFINE W == VotersIn(h.item.votes)
<1>1. /\ Items[a] = AsItem("pending", W, Given(h.item.overridden))
      /\ Items[a].state = "pending"
  BY <1>b, ItemIs, ItemFields DEF Stored
<1>2. r.state = "overridden" /\ r.votes = h.item.votes /\ r.overridden = TRUE
  BY <1>b DEF Saved, Request
<1>3. Items' = [ Items EXCEPT ![a] = Stored(r) ]
  BY <1>a, <1>b, ItemWritten
<1>4. Stored(r) = [ [ Items[a] EXCEPT !.override = "given" ] EXCEPT !.state = "overridden" ]
  <2>1. Stored(r) = AsItem("overridden", W, "given")
    BY <1>2 DEF Stored, Given
  <2> HIDE DEF r, W
  <2>2. [ AsItem("pending", W, Given(h.item.overridden)) EXCEPT !.override = "given" ]
           = AsItem("pending", W, "given")
    BY ItemFields
  <2>3. [ AsItem("pending", W, "given") EXCEPT !.state = "overridden" ]
           = AsItem("overridden", W, "given")
    BY ItemFields
  <2>4. [ Items[a] EXCEPT !.override = "given" ] = AsItem("pending", W, "given")
    BY <1>1, <2>2, Zenon
  <2> QED
    BY <2>1, <2>3, <2>4, Zenon
<1>5. "overridden" \in InMemory!TRANSITIONS["pending"] /\ UNCHANGED Executed
  BY <1>a DEF InMemory!TRANSITIONS, Executed
<1> HIDE DEF r
<1> QED
  BY <1>1, <1>3, <1>4, <1>5 DEF InMemory!Override, InMemory!Becomes, Items, Executed

LEMMA CloseIsClose ==
  ASSUME ApprovalInv, NEW h \in handlers, Close(h)
  PROVE  InMemory!Close(h.of)
<1>1. /\ Saves(h) /\ SaveAs(h, ClosedBy(h.op)) /\ UNCHANGED deployment
      /\ h.op \in { "reject", "cancel", "expire", "invalidate" }
  BY DEF Close, SaveAs
<1>2. /\ h.op \in { "reject", "cancel" } => h.item.state = "pending"
      /\ h.op \in { "expire", "invalidate" } => h.item.state \in Unexpired
  BY <1>1, Found DEF OpInv
<1>3. /\ ClosedBy(h.op) \in { "rejected", "cancelled", "invalidated", "expired" }
      /\ ClosedBy(h.op) \in InMemory!TRANSITIONS[h.item.state]
  BY <1>1, <1>2 DEF ClosedBy, InMemory!TRANSITIONS, Unexpired
<1>4. InMemory!Becomes(h.of, ClosedBy(h.op), Items[h.of])
  BY <1>1, <1>3, SavesOneStep
<1>5. UNCHANGED Executed
  BY <1>1 DEF Executed
<1> QED
  BY <1>3, <1>4, <1>5 DEF InMemory!Close, Items, Executed

LEMMA ConsumeIsExecute ==
  ASSUME ApprovalInv, NEW h \in handlers, Consume(h)
  PROVE  InMemory!Execute(h.of)
<1>1. /\ Saves(h) /\ SaveAs(h, "consumed") /\ h.op = "consume"
      /\ deployment' = [ deployment EXCEPT ![h.of] = "queued" ]
  BY DEF Consume, SaveAs
<1>2. /\ h.of \in Approvals /\ TypeOK
      /\ h.item.state \in { "approved", "overridden" }
  BY <1>1, Found DEF OpInv
<1>3. InMemory!Becomes(h.of, "consumed", Items[h.of])
  BY <1>1, <1>2, SavesOneStep DEF InMemory!TRANSITIONS
<1>4. Executed' = Executed \union { h.of }
  BY <1>1, <1>2 DEF Executed, TypeOK
<1> QED
  BY <1>3, <1>4 DEF InMemory!Execute, Items, Executed

\* A call changes the request it is about: TRANSITIONS has no loop, and a vote
\* is of somebody who has not voted.
LEMMA BecomesAnother ==
  ASSUME NEW a \in Approvals, NEW to, NEW s \in RequestStates, NEW v, NEW o, NEW w, NEW x,
         Items[a] = AsItem(s, v, o), InMemory!Becomes(a, to, AsItem(s, w, x))
  PROVE  Items[a] # Items'[a]
<1>1. to \in InMemory!TRANSITIONS[s]
  BY ItemFields DEF InMemory!Becomes, Items
<1>2. to # s
  BY <1>1 DEF InMemory!TRANSITIONS, RequestStates, FinalStates
<1>3. Items' = [ Items EXCEPT ![a] = [ AsItem(s, w, x) EXCEPT !.state = to ] ]
  BY DEF InMemory!Becomes, Items
<1>4. Items'[a] = [ AsItem(s, w, x) EXCEPT !.state = to ]
  BY <1>3 DEF Items
<1>5. Items'[a] = AsItem(to, w, x)
  BY <1>4, ItemFields
<1>6. Items'[a].state = to /\ Items[a].state = s
  BY <1>5, ItemFields
<1> QED
  BY <1>2, <1>6

LEMMA CallChanges ==
  ASSUME ApprovalInv, NEW a \in Approvals, InMemory!Calls(a)
  PROVE  InMemory!Next
<1> DEFINE s == approval[a].state
           v == VotersIn(approval[a].votes)
           o == Given(approval[a].overridden)
<1>1. s \in RequestStates /\ Items[a] = AsItem(s, v, o)
  BY ItemIs DEF ApprovalInv, TypeOK, Request, Stored
<1>2. ASSUME NEW w, NEW x
      PROVE  /\ Items[a] = AsItem(s, v, o)
             /\ [ Items[a] EXCEPT !.approvals = w ] = AsItem(s, w, o)
             /\ [ Items[a] EXCEPT !.override = x ] = AsItem(s, v, x)
  <2> HIDE DEF s, v, o
  <2>1. /\ [ AsItem(s, v, o) EXCEPT !.approvals = w ] = AsItem(s, w, o)
        /\ [ AsItem(s, v, o) EXCEPT !.override = x ] = AsItem(s, v, x)
    BY ItemFields
  <2>2. Items[a] = AsItem(s, v, o)
    BY <1>1
  <2> QED
    BY <2>1, <2>2, Zenon
<1> HIDE DEF s, v, o
<1>3. ASSUME NEW to, InMemory!Becomes(a, to, Items[a]) PROVE Items[a] # Items'[a]
  BY <1>1, <1>3, BecomesAnother
<1>4. CASE InMemory!Request(a) \/ InMemory!Close(a) \/ InMemory!Execute(a)
  BY <1>3, <1>4 DEF InMemory!Next, InMemory!Calls, InMemory!Request, InMemory!Close,
                    InMemory!Execute, Items
<1>5. CASE InMemory!Override(a)
  <2>1. InMemory!Becomes(a, "overridden", AsItem(s, v, "given"))
    BY <1>2, <1>5 DEF InMemory!Override, Items
  <2>2. Items[a] # Items'[a]
    BY <1>1, <2>1, BecomesAnother
  <2> QED
    BY <1>5, <2>2 DEF InMemory!Next, InMemory!Calls, Items
<1>6. ASSUME NEW u \in Users \ { Requester }, InMemory!Approve(a, u) PROVE InMemory!Next
  <2> DEFINE w == v \union { u }
             voted == AsItem(s, w, o)
  <2>1. /\ Items[a].approvals = v /\ u \notin v
        /\ [ Items[a] EXCEPT !.approvals = @ \union { u } ] = voted
    <3>1. Items[a].approvals = v
      BY <1>1, ItemFields
    <3>2. [ Items[a] EXCEPT !.approvals = @ \union { u } ] = [ Items[a] EXCEPT !.approvals = w ]
      BY <3>1
    <3>3. u \notin Items[a].approvals
      BY <1>6 DEF InMemory!Approve, Items
    <3> HIDE DEF w
    <3> QED
      BY <1>2, <3>1, <3>2, <3>3
  <2>2. InMemory!Becomes(a, "approved", voted) \/ Items' = [ Items EXCEPT ![a] = voted ]
    BY <1>6, <2>1 DEF InMemory!Approve, Items
  <2>3. CASE InMemory!Becomes(a, "approved", voted)
    <3>1. Items[a] # Items'[a]
      BY <1>1, <2>3, BecomesAnother
    <3> QED
      BY <1>6, <3>1 DEF InMemory!Next, InMemory!Calls, Items
  <2>4. CASE Items' = [ Items EXCEPT ![a] = voted ]
    <3>1. Items'[a] = voted
      BY <2>4 DEF Items
    <3>2. Items'[a].approvals = w
      BY <3>1, ItemFields
    <3>3. Items[a] # Items'[a]
      BY <2>1, <3>2
    <3> QED
      BY <1>6, <3>3 DEF InMemory!Next, InMemory!Calls, Items
  <2> QED
    BY <2>2, <2>3, <2>4
<1> QED
  BY <1>4, <1>5, <1>6 DEF InMemory!Calls

LEMMA RequestStep ==
  ASSUME ApprovalInv, [Next]_vars
  PROVE  [InMemory!Next]_<< Items, Executed >>
<1>1. ASSUME NEW h \in handlers, Proceeds(h)
      PROVE  [InMemory!Next]_<< Items, Executed >>
  <2>1. h.of \in Approvals
    BY DEF ApprovalInv, TypeOK, Handler
  <2>2. CASE Resume(h) \/ BeginExecution(h) \/ Fails(h)
    BY <2>2, NothingWritten DEF Resume, BeginExecution, Fails
  <2> QED
    <3>1. CASE ~(Resume(h) \/ BeginExecution(h) \/ Fails(h))
      <4>1. InMemory!Calls(h.of) \/ UNCHANGED << Items, Executed >>
        BY <1>1, <3>1, CreateIsRequest, ApproveIsVote, OverrideIsOverride, CloseIsClose,
           ConsumeIsExecute
        DEF Proceeds, InMemory!Calls
      <4> QED
        BY <2>1, <4>1, CallChanges
    <3> QED
      BY <2>2, <3>1
<1>2. ASSUME UNCHANGED << approval, deployment >>
      PROVE  [InMemory!Next]_<< Items, Executed >>
  BY <1>2, NothingWritten
<1>3. ASSUME NEW a \in Approvals, Reads(a) \/ Expires(a)
      PROVE  UNCHANGED << approval, deployment >>
  BY <1>3 DEF Reads, FindPolicy, Read, Expires
<1> QED
  BY <1>1, <1>2, <1>3 DEF Next, vars, SetPolicy, ChangeMembership, JoinOrganization

LEMMA RequestStarts == Init => InMemory!Init
<1> SUFFICES ASSUME Init PROVE InMemory!Init
  OBVIOUS
<1>1. ASSUME NEW a \in Approvals
      PROVE  StoredRequest(a) = [ state |-> "absent", approvals |-> {}, override |-> "none" ]
  BY DEF Init, StoredRequest, VotersOf, NoApproval
<1>2. Executed = {}
  BY DEF Init, Executed
<1> QED
  BY <1>1, <1>2 DEF InMemory!Init, Executed

\* The store on PostgreSQL implements the one in memory: votes, overrides,
\* closings and executions that overlap take effect one after the other, each
\* as a legal transition, and nobody votes twice or for his own request.
THEOREM RequestsImplemented == Spec => ImplementsRequests
<1>1. ApprovalInv /\ [Next]_vars => [InMemory!Next]_<< Items, Executed >>
  BY RequestStep
<1> QED
  BY <1>1, RequestStarts, ApprovalInit, ApprovalStep, PTL
  DEF Spec, ImplementsRequests, InMemory!Spec, Items, Executed

=============================================================================

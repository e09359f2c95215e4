------------------------------ MODULE Secrets ------------------------------
(***************************************************************************)
(* Managed secret references, their attachment to one service, and what a  *)
(* deployment of that service takes along (PostgresSecretReferenceStore).  *)
(* A request reads a reference, may call the provider, and then saves with *)
(* the version that it read; an attachment reads its references one by one *)
(* before the transaction that writes it.                                  *)
(***************************************************************************)
EXTENDS Integers, FiniteSets

CONSTANTS
  References,        \* secret references of the project
  SecretClients,     \* concurrent requests
  MaxSecretVersion,  \* bound: the version of a reference
  MaxAttachments     \* bound: attachments

ASSUME SecretAssumption == MaxSecretVersion \in Nat /\ MaxAttachments \in Nat

VARIABLES
  reference,     \* rows of secret_references
  attached,      \* rows of service_secret_references
  attachment,    \* services.secret_attachment_version
  secretReq      \* what each request does, on which copies

secretVars == << reference, attached, attachment, secretReq >>

\* checkedVersion is the reference_version that the provider last confirmed.
NewReference == [ status |-> "draft", version |-> 0, referenceVersion |-> 1, checkedVersion |-> 0 ]
IdleSecret   == [ step |-> "idle", refs |-> { }, copy |-> << >>, seen |-> 0, action |-> "none" ]

SecretInit ==
  /\ reference = [ r \in References |-> NewReference ]
  /\ attached = { } /\ attachment = 0
  /\ secretReq = [ c \in SecretClients |-> IdleSecret ]

SetReq(c, q) == secretReq' = [ secretReq EXCEPT ![c] = q ]

-----------------------------------------------------------------------------
\* validate, rotate and lifecycle: the row is read and checked...
ReadReference(c, r, action) ==
  /\ secretReq[c].step = "idle"
  /\ reference[r].status # "revoked" /\ reference[r].version < MaxSecretVersion
  /\ SetReq(c, [ IdleSecret EXCEPT !.step = "save", !.refs = { r },
                                   !.copy = [ x \in { r } |-> reference[r] ], !.action = action ])
  /\ UNCHANGED << reference, attached, attachment >>

\* Mutant: a rotation leaves the reference in its state.
RevisedInPlace(row, action) ==
  CASE action = "confirm" -> [ row EXCEPT !.status = "active", !.checkedVersion = row.referenceVersion ]
    [] action = "reject"  -> [ row EXCEPT !.status = "invalid" ]
    [] action = "rotate"  -> [ row EXCEPT !.referenceVersion = @ + 1 ]
    [] action = "disable" -> [ row EXCEPT !.status = "disabled" ]
    [] action = "revoke"  -> [ row EXCEPT !.status = "revoked" ]

\* ... changed as the action says (a validation as the provider answers) ...
Revised(row, action) ==
  CASE action = "confirm" -> [ row EXCEPT !.status = "active", !.checkedVersion = row.referenceVersion ]
    [] action = "reject"  -> [ row EXCEPT !.status = "invalid" ]
    [] action = "rotate"  -> [ row EXCEPT !.status = "draft", !.referenceVersion = @ + 1 ]
    [] action = "disable" -> [ row EXCEPT !.status = "disabled" ]
    [] action = "revoke"  -> [ row EXCEPT !.status = "revoked" ]

SecretActions == { "confirm", "reject", "rotate", "disable", "revoke" }

\* ... and written over the row of the same version (_save).
Saved(row, copy, action) ==
  IF row.version = copy.version THEN [ Revised(copy, action) EXCEPT !.version = copy.version + 1 ]
  ELSE row

SaveReference(c) ==
  LET q == secretReq[c]
  IN  /\ q.step = "save"
      /\ reference' = [ r \in References |-> IF r \in q.refs THEN Saved(reference[r], q.copy[r], q.action)
                                             ELSE reference[r] ]
      /\ SetReq(c, IdleSecret)
      /\ UNCHANGED << attached, attachment >>

-----------------------------------------------------------------------------
\* attach: the caller saw a version of the attachment and names references,
\* which are read one after the other whatever their state.
StartAttach(c, refs) ==
  /\ secretReq[c].step = "idle" /\ attachment < MaxAttachments
  /\ SetReq(c, [ IdleSecret EXCEPT !.step = "attach", !.refs = refs, !.seen = attachment ])
  /\ UNCHANGED << reference, attached, attachment >>

ReadForAttach(c, r) ==
  LET q == secretReq[c]
  IN  /\ q.step = "attach" /\ r \in q.refs \ DOMAIN q.copy
      /\ SetReq(c, [ q EXCEPT !.copy = [ x \in DOMAIN q.copy \union { r } |->
                                     IF x = r THEN reference[r] ELSE q.copy[x] ] ])
      /\ UNCHANGED << reference, attached, attachment >>

\* The rows that replace the service's: they keep the reference_version read.
AttachedRows(q, version) ==
  { [ ref |-> r, referenceVersion |-> q.copy[r].referenceVersion, version |-> version ] : r \in q.refs }

AttachMatches(q) == q.seen = attachment

\* One transaction: the update of the service's row orders attachments, and
\* a caller who saw another version than the row's gets a conflict.
CommitAttach(c) ==
  LET q == secretReq[c]
  IN  /\ q.step = "attach" /\ q.refs = DOMAIN q.copy
      /\ IF AttachMatches(q)
         THEN /\ attachment' = attachment + 1
              /\ attached' = AttachedRows(q, attachment + 1)
         ELSE UNCHANGED << attachment, attached >>
      /\ SetReq(c, IdleSecret)
      /\ UNCHANGED reference

AbandonSecret(c) ==
  /\ secretReq[c].step # "idle" /\ SetReq(c, IdleSecret)
  /\ UNCHANGED << reference, attached, attachment >>

SecretNext ==
  \E c \in SecretClients :
    \/ \E r \in References : \/ \E action \in SecretActions : ReadReference(c, r, action)
                             \/ ReadForAttach(c, r)
    \/ \E refs \in SUBSET References : StartAttach(c, refs)
    \/ SaveReference(c) \/ CommitAttach(c) \/ AbandonSecret(c)

SecretSpec == SecretInit /\ [][SecretNext]_secretVars

\* deploymentReferences: what a deployment takes along, the reference_version
\* of now and not the attachment's, or nothing when one is not active.
AttachedRefs == { a.ref : a \in attached }
Deployable   == \A r \in AttachedRefs : reference[r].status = "active"
DeploymentReferences ==
  { [ ref |-> r, referenceVersion |-> reference[r].referenceVersion ] : r \in AttachedRefs }

-----------------------------------------------------------------------------
SecretTypeOK ==
  /\ \A r \in References :
       /\ reference[r].status \in { "draft", "active", "invalid", "disabled", "revoked" }
       /\ reference[r].version \in 0 .. MaxSecretVersion
       /\ reference[r].referenceVersion \in Nat /\ reference[r].checkedVersion \in Nat
  /\ \A a \in attached : a.ref \in References /\ a.version \in Nat
  /\ attachment \in 0 .. MaxAttachments
  /\ \A c \in SecretClients : secretReq[c].step \in { "idle", "save", "attach" }

\* What a deployment takes along was confirmed by the provider in the very
\* version that it takes, whatever rotated or was attached meanwhile
\* (validate, rotate, _save, deploymentReferences).
DeploysConfirmed ==
  Deployable => \A x \in DeploymentReferences : reference[x.ref].checkedVersion = x.referenceVersion

=============================================================================

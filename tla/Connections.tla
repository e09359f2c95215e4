---------------------------- MODULE Connections ----------------------------
(***************************************************************************)
(* A resource of the customer's own cloud, a provider connection or a      *)
(* deployment target (PostgresByocStore): requests that validate it, with  *)
(* a call of the provider between two transactions, administrators that    *)
(* change, rotate, disable or revoke it, and the worker's recovery of      *)
(* validations that were interrupted.                                      *)
(***************************************************************************)
EXTENDS Integers, Sequences, FiniteSets

CONSTANTS
  Validators,       \* concurrent requests that validate
  Admins,           \* concurrent requests that change
  MaxValidations,   \* bound: validations that begin
  MaxVersion,       \* bound: the version up to which administrators change
  ClockSkews        \* how far the clock of each request's process may be ahead of
                    \* the database's

ASSUME ConnectionAssumption ==
  MaxValidations \in Nat /\ MaxVersion \in Nat /\ ClockSkews \in [ Validators -> SUBSET Int ]

VARIABLES
  usesToken,         \* a deployment target with a service account's token, or a
                     \* provider connection or another target
  resource,          \* its row
  liveCredentials,   \* versions in credential_versions with no revoked_at
  validations,       \* statuses of the connection_validation_attempts
  horizon,           \* what is older than the grace of the recovery, see Stale
  validator, admin   \* what the requests do, on which copy of the row

connVars == << usesToken, resource, liveCredentials, validations, horizon, validator, admin >>

\* config is configuration_version or credential_version; checkedConfig is
\* the one that the last validation to pass has seen, validatedAt the row's
\* last_validation_at.
NewResource ==
  [ status |-> "draft", version |-> 1, config |-> 1, validation |-> 0, checkedConfig |-> 0,
    validatedAt |-> 0 ]
IdleRequest == [ step |-> "idle", row |-> NewResource, attempt |-> 0, action |-> "none", passed |-> FALSE ]

ConnInit ==
  /\ usesToken \in BOOLEAN
  /\ resource = NewResource /\ liveCredentials = { 1 }
  /\ validations = << >> /\ horizon = 0
  /\ validator = [ v \in Validators |-> IdleRequest ]
  /\ admin = [ a \in Admins |-> IdleRequest ]

ConnTransitions ==
  [ draft      |-> { "validating", "disabled", "revoked" },
    validating |-> { "active", "invalid", "degraded", "disabled", "revoked" },
    active     |-> { "validating", "degraded", "disabled", "revoked" },
    degraded   |-> { "validating", "disabled", "revoked" },
    invalid    |-> { "validating", "disabled", "revoked" },
    disabled   |-> { "validating", "revoked" },
    revoked    |-> { } ]

ConnStatuses == DOMAIN ConnTransitions

\* _transition on a copy of the row.
Transitioned(row, to) == [ row EXCEPT !.status = to, !.version = @ + 1 ]

\* Mutant: the copy is written whatever the row has become.
SaveMatchesAny(version) == TRUE

\* _saveConnection, _saveTarget: the copy is written if the row still has the
\* version that was read.
SaveMatches(version) == resource.version = version

\* Times of the database's clock, so spaced that the n-th attempt starts at 2n
\* and the request that starts it has looked at its own clock, for the row's
\* last_validation_at, at 2n - 1: a start bumps the version, so no other starts
\* between the two. What that clock showed is 2n - 1 and its skew, so before the
\* previous start when it is behind enough, and after its own start when it is
\* ahead. The recovery compares both times with the database's clock.
ReadAt(n)    == 2 * n - 1
StartedAt(n) == 2 * n
Stale(time)  == time <= horizon

-----------------------------------------------------------------------------
\* _validate. The request reads the row and looks at its state.
ReadForValidation(v) ==
  /\ validator[v].step = "idle" /\ Len(validations) < MaxValidations
  /\ resource.status \notin { "disabled", "revoked", "validating" }
  /\ validator' = [ validator EXCEPT ![v].step = "start", ![v].row = resource ]
  /\ UNCHANGED << usesToken, resource, liveCredentials, validations, horizon, admin >>

\* The copy that the first transaction of the n-th attempt saves.
Validating(row, n, skew) ==
  [ Transitioned(row, "validating") EXCEPT !.validation = n, !.validatedAt = ReadAt(n) + skew ]

\* The first transaction: the row is validating and an attempt runs.
StartValidation(v) ==
  LET n == Len(validations) + 1
  IN  /\ validator[v].step = "start" /\ n <= MaxValidations
      /\ IF SaveMatches(validator[v].row.version)
         THEN \E skew \in ClockSkews[v] :
                LET row == Validating(validator[v].row, n, skew)
                IN  /\ resource' = row /\ validations' = Append(validations, "running")
                    /\ validator' = [ validator EXCEPT ![v] =
                                        [ @ EXCEPT !.step = "check", !.row = row, !.attempt = n ] ]
         ELSE /\ validator' = [ validator EXCEPT ![v] = IdleRequest ]
              /\ UNCHANGED << resource, validations >>
      /\ UNCHANGED << usesToken, liveCredentials, horizon, admin >>

\* The provider is asked. A target's credential is read now; a token that has
\* been revoked never gets through.
CheckProvider(v) ==
  /\ validator[v].step = "check"
  /\ \E passed \in BOOLEAN :
       /\ passed /\ usesToken => validator[v].row.config \in liveCredentials
       /\ validator' = [ validator EXCEPT ![v].step = "finish", ![v].passed = passed ]
  /\ UNCHANGED << usesToken, resource, liveCredentials, validations, horizon, admin >>

\* The copy that the second transaction saves.
Validated(row, passed) ==
  IF passed THEN [ Transitioned(row, "active") EXCEPT !.checkedConfig = row.config ]
  ELSE Transitioned(row, "invalid")

\* The second transaction. When the row has changed it throws, and leaves the
\* attempt running.
FinishValidation(v) ==
  LET tx == validator[v]
  IN  /\ tx.step = "finish"
      /\ IF SaveMatches(tx.row.version)
         THEN /\ resource' = Validated(tx.row, tx.passed)
              /\ validations' = [ validations EXCEPT ![tx.attempt] = IF tx.passed THEN "passed" ELSE "failed" ]
         ELSE UNCHANGED << resource, validations >>
      /\ validator' = [ validator EXCEPT ![v] = IdleRequest ]
      /\ UNCHANGED << usesToken, liveCredentials, horizon, admin >>

CrashValidator(v) ==
  /\ validator[v].step # "idle"
  /\ validator' = [ validator EXCEPT ![v] = IdleRequest ]
  /\ UNCHANGED << usesToken, resource, liveCredentials, validations, horizon, admin >>

-----------------------------------------------------------------------------
\* updateAws and rotateTargetCredential (change), lifecycle and
\* targetLifecycle (disable, revoke): what each refuses of the row it read.
AllowedChange(row, action) ==
  CASE action = "change"  -> row.status # "revoked"
    [] action = "disable" -> "disabled" \in ConnTransitions[row.status]
    [] action = "revoke"  -> "revoked" \in ConnTransitions[row.status]

Changed(row, action) ==
  CASE action = "change"  -> [ Transitioned(row, "draft") EXCEPT !.config = @ + 1 ]
    [] action = "disable" -> Transitioned(row, "disabled")
    [] action = "revoke"  -> Transitioned(row, "revoked")

\* In the transaction that saves: a rotation replaces the token of a target, a
\* revocation leaves none.
CredentialsAfter(row, action) ==
  IF ~usesToken THEN liveCredentials
  ELSE CASE action = "change"  -> { row.config + 1 }
         [] action = "revoke"  -> { }
         [] action = "disable" -> liveCredentials

ReadForChange(a, action) ==
  /\ admin[a].step = "idle" /\ resource.version < MaxVersion
  /\ AllowedChange(resource, action)
  /\ admin' = [ admin EXCEPT ![a].step = "save", ![a].row = resource, ![a].action = action ]
  /\ UNCHANGED << usesToken, resource, liveCredentials, validations, horizon, validator >>

SaveChange(a) ==
  LET tx == admin[a]
  IN  /\ tx.step = "save"
      /\ IF SaveMatches(tx.row.version)
         THEN /\ resource' = Changed(tx.row, tx.action)
              /\ liveCredentials' = CredentialsAfter(tx.row, tx.action)
         ELSE UNCHANGED << resource, liveCredentials >>
      /\ admin' = [ admin EXCEPT ![a] = IdleRequest ]
      /\ UNCHANGED << usesToken, validations, horizon, validator >>

-----------------------------------------------------------------------------
\* Mutants: the recovery takes every validation for interrupted, or ends the
\* attempt and leaves the row.
WasValidating(row) == row.status = "validating"
LeftAlone(row) == row

\* recoverInterruptedValidations: the row, if it is still validating and has
\* been for long, and the attempt that began before.
WasInterrupted(row) == row.status = "validating" /\ Stale(row.validatedAt)

Recovered(row) == IF WasInterrupted(row) THEN Transitioned(row, "invalid") ELSE row

RecoverAttempt(n) ==
  /\ validations[n] = "running" /\ Stale(StartedAt(n))
  /\ resource' = Recovered(resource)
  /\ validations' = [ validations EXCEPT ![n] = "failed" ]
  /\ UNCHANGED << usesToken, liveCredentials, horizon, validator, admin >>

\* Time passes, until the next attempt would start too old.
Age == /\ horizon < ReadAt(Len(validations) + 1)
       /\ horizon' = horizon + 1
       /\ UNCHANGED << usesToken, resource, liveCredentials, validations, validator, admin >>

ConnNext ==
  \/ \E v \in Validators : \/ ReadForValidation(v) \/ StartValidation(v) \/ CheckProvider(v)
                           \/ FinishValidation(v) \/ CrashValidator(v)
  \/ \E a \in Admins : \/ \E action \in { "change", "disable", "revoke" } : ReadForChange(a, action)
                       \/ SaveChange(a)
  \/ \E n \in DOMAIN validations : RecoverAttempt(n)
  \/ Age

Recovers == \E n \in DOMAIN validations : RecoverAttempt(n)

\* The worker repeats its recovery for as long as it runs, and time passes.
ConnFairness == WF_connVars(Recovers) /\ WF_connVars(Age)

ConnSpec == ConnInit /\ [][ConnNext]_connVars /\ ConnFairness

-----------------------------------------------------------------------------
ConnTypeOK ==
  /\ usesToken \in BOOLEAN
  /\ resource.status \in ConnStatuses /\ resource.version \in Nat /\ resource.config \in Nat
  /\ liveCredentials \subseteq 1 .. resource.config
  /\ \A n \in DOMAIN validations : validations[n] \in { "running", "passed", "failed" }
  /\ horizon \in 0 .. ReadAt(Len(validations) + 1)
  /\ \A v \in Validators : validator[v].step \in { "idle", "start", "check", "finish" }
  /\ \A a \in Admins : admin[a].step \in { "idle", "save" }

\* A resource is active only with the configuration that a validation has
\* checked, and a target only with a token that is still the live one,
\* however requests, a recovery and crashes interleave (_validate, updateAws,
\* rotateTargetCredential, targetLifecycle).
ActiveMeansValidated ==
  resource.status = "active" => /\ resource.checkedConfig = resource.config
                                /\ usesToken => liveCredentials = { resource.config }

\* No request that had read the row before it was revoked, and no recovery,
\* changes it any more.
RevokedForGood == [][ resource.status = "revoked" => resource' = resource ]_connVars

\* A recovery ends only validations that have lasted: a younger one than the
\* grace is never taken for interrupted, unless the process that began it had a
\* clock behind the database's (recoverInterruptedValidations).
RecoversOnlyStale ==
  [][ /\ resource.status = "validating" /\ resource'.status = "invalid"
      /\ ~Stale(ReadAt(resource.validation)) /\ resource.validatedAt >= ReadAt(resource.validation)
      => \E v \in Validators : validator[v].step = "finish" /\ validator'[v].step = "idle" ]_connVars

\* A validation whose process died or lost its turn never blocks the resource
\* for ever: it ends, for the requests or by the recovery. Not so where the
\* process's clock was so far ahead that the row's time lies behind the
\* attempt's start: the recovery may find the attempt old and the row not, ends
\* the one without the other, and never looks at that row again.
ValidationEnds ==
  (resource.status = "validating" /\ resource.validatedAt <= StartedAt(resource.validation))
  ~> resource.status # "validating"

=============================================================================

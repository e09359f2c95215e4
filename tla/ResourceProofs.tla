--------------------------- MODULE ResourceProofs ---------------------------
(***************************************************************************)
(* The customer's resources: connections, secret references, and what a    *)
(* deployment is checked against. A row is written over the version that   *)
(* was read, so a copy of that version is the row itself.                  *)
(***************************************************************************)
EXTENDS Connections, Secrets, Revalidation, TLAPS

-----------------------------------------------------------------------------
(***************************************************************************)
(* Connections.                                                            *)
(***************************************************************************)
Resource == [ status : ConnStatuses, version : Nat, config : Nat,
              validation : Nat, checkedConfig : Nat, validatedAt : Int ]
Request  == [ step : { "idle", "start", "check", "finish", "save" }, row : Resource, attempt : Nat,
              action : { "none", "change", "disable", "revoke" }, passed : BOOLEAN ]

\* The copy is older than the row, or it is the row.
CopyOf(row) == /\ row \in Resource /\ row.version <= resource.version
               /\ row.version = resource.version => row = resource

\* A validation has a copy that it has made validating, and a change one that
\* was not revoked.
ValidatorKnows(q) ==
  /\ q \in Request /\ q.step \in { "idle", "start", "check", "finish" }
  /\ q.step # "idle" => CopyOf(q.row) /\ q.row.status # "revoked"
  /\ q.step \in { "check", "finish" } => q.row.status = "validating"

AdminKnows(q) ==
  /\ q \in Request
  /\ q.step # "idle" => /\ CopyOf(q.row) /\ q.row.status # "revoked"
                        /\ q.action # "none" /\ AllowedChange(q.row, q.action)

ResourceSound ==
  /\ usesToken /\ resource.status # "revoked" => liveCredentials = { resource.config }
  /\ ActiveMeansValidated

ConnInv ==
  /\ usesToken \in BOOLEAN /\ resource \in Resource
  /\ validator \in [ Validators -> Request ] /\ \A v \in Validators : ValidatorKnows(validator[v])
  /\ admin \in [ Admins -> Request ]         /\ \A a \in Admins : AdminKnows(admin[a])
  /\ ResourceSound

LEMMA StatusesOfRows ==
  ConnStatuses = { "draft", "validating", "active", "invalid", "degraded", "disabled", "revoked" }
BY DEF ConnStatuses, ConnTransitions

LEMMA TransitionedRow ==
  ASSUME NEW row \in Resource, NEW to \in ConnStatuses
  PROVE  /\ Transitioned(row, to) \in Resource
         /\ Transitioned(row, to).status = to
         /\ Transitioned(row, to).version = row.version + 1
         /\ Transitioned(row, to).config = row.config
         /\ Transitioned(row, to).checkedConfig = row.checkedConfig
         /\ Transitioned(row, to).validation = row.validation
<1>1. PICK n \in Nat : n = row.version + 1
  BY DEF Resource
<1>2. Transitioned(row, to) = [ row EXCEPT !.status = to, !.version = n ]
  BY <1>1 DEF Transitioned
<1> HIDE DEF Transitioned
<1> QED
  BY <1>1, <1>2 DEF Resource

LEMMA IdleIsRequest == NewResource \in Resource /\ IdleRequest \in Request /\ IdleRequest.step = "idle"
BY StatusesOfRows DEF NewResource, IdleRequest, Request, Resource

\* The records that requests and transactions make.
Fetching(q, row)          == [ q EXCEPT !.step = "start", !.row = row ]
Changing(q, row, action) == [ q EXCEPT !.step = "save", !.row = row, !.action = action ]
Checking(q, row, n)      == [ q EXCEPT !.step = "check", !.row = row, !.attempt = n ]

LEMMA FetchingMade ==
  ASSUME NEW q \in Request, NEW row \in Resource
  PROVE  Fetching(q, row) \in Request /\ Fetching(q, row).step = "start" /\ Fetching(q, row).row = row
BY DEF Request, Fetching

LEMMA ChangingMade ==
  ASSUME NEW q \in Request, NEW row \in Resource, NEW action \in { "change", "disable", "revoke" }
  PROVE  /\ Changing(q, row, action) \in Request /\ Changing(q, row, action).step = "save"
         /\ Changing(q, row, action).row = row /\ Changing(q, row, action).action = action
BY DEF Request, Changing

LEMMA CheckingMade ==
  ASSUME NEW q \in Request, NEW row \in Resource, NEW n \in Nat
  PROVE  /\ Checking(q, row, n) \in Request /\ Checking(q, row, n).step = "check"
         /\ Checking(q, row, n).row = row
BY DEF Request, Checking

LEMMA FinishRequest ==
  ASSUME NEW q \in Request, NEW passed \in BOOLEAN
  PROVE  LET r == [ q EXCEPT !.step = "finish", !.passed = passed ]
         IN  r \in Request /\ r.step = "finish" /\ r.row = q.row
BY DEF Request

\* The row that a validation begins with, whatever the clock of its process shows.
LEMMA ValidatingRow ==
  ASSUME NEW row \in Resource, NEW n \in Nat, NEW v \in Validators, NEW skew \in ClockSkews[v]
  PROVE  LET r == Validating(row, n, skew)
         IN  /\ r \in Resource /\ r.status = "validating" /\ r.version = row.version + 1
             /\ r.config = row.config
<1>1. PICK next \in Resource : /\ next = Transitioned(row, "validating") /\ next.status = "validating"
                               /\ next.version = row.version + 1 /\ next.config = row.config
  BY TransitionedRow, StatusesOfRows
<1>2. PICK t \in Int : t = ReadAt(n) + skew
  BY ConnectionAssumption DEF ReadAt
<1>3. Validating(row, n, skew) = [ next EXCEPT !.validation = n, !.validatedAt = t ]
  BY <1>1, <1>2 DEF Validating
<1> QED
  BY <1>1, <1>2, <1>3 DEF Resource

LEMMA ValidatedRow ==
  ASSUME NEW row \in Resource, NEW passed \in BOOLEAN
  PROVE  LET r == Validated(row, passed)
         IN  /\ r \in Resource /\ r.status = (IF passed THEN "active" ELSE "invalid")
             /\ r.version = row.version + 1 /\ r.config = row.config
             /\ passed => r.checkedConfig = row.config
<1>1. PICK next \in Resource : /\ next = Transitioned(row, IF passed THEN "active" ELSE "invalid")
                               /\ next.status = (IF passed THEN "active" ELSE "invalid")
                               /\ next.version = row.version + 1 /\ next.config = row.config
  BY TransitionedRow, StatusesOfRows
<1>2. PICK c \in Nat : c = row.config
  BY DEF Resource
<1>3. Validated(row, passed) = IF passed THEN [ next EXCEPT !.checkedConfig = c ] ELSE next
  BY <1>1, <1>2 DEF Validated
<1> QED
  BY <1>1, <1>2, <1>3 DEF Resource

LEMMA ChangedRow ==
  ASSUME NEW row \in Resource, NEW action \in { "change", "disable", "revoke" }
  PROVE  LET r == Changed(row, action)
         IN  /\ r \in Resource /\ r.version = row.version + 1
             /\ action = "change" => r.status = "draft" /\ r.config = row.config + 1
             /\ action = "disable" => r.status = "disabled" /\ r.config = row.config
             /\ action = "revoke" => r.status = "revoked" /\ r.config = row.config
<1>1. CASE action = "change"
  <2>1. PICK next \in Resource : /\ next = Transitioned(row, "draft") /\ next.status = "draft"
                                 /\ next.version = row.version + 1 /\ next.config = row.config
    BY TransitionedRow, StatusesOfRows
  <2>2. PICK c \in Nat : c = next.config + 1
    BY DEF Resource
  <2>3. Changed(row, action) = [ next EXCEPT !.config = c ]
    BY <1>1, <2>1, <2>2 DEF Changed
  <2> QED
    BY <1>1, <2>1, <2>2, <2>3 DEF Resource
<1>2. CASE action # "change"
  BY <1>2, TransitionedRow, StatusesOfRows DEF Changed
<1> QED
  BY <1>1, <1>2

LEMMA ConnInvInit == ConnInit => ConnInv
BY StatusesOfRows, IdleIsRequest
   DEF ConnInit, ConnInv, ValidatorKnows, AdminKnows, ResourceSound, ActiveMeansValidated, NewResource

\* When the row is written it gets a version that no copy has.
LEMMA CopyKept ==
  ASSUME NEW row, CopyOf(row), resource \in Resource, resource' \in Resource,
         resource' = resource \/ resource'.version = resource.version + 1
  PROVE  CopyOf(row)'
BY DEF CopyOf, Resource

LEMMA KnownKept ==
  ASSUME ConnInv, resource' \in Resource,
         resource' = resource \/ resource'.version = resource.version + 1
  PROVE  /\ \A v \in Validators : validator'[v] = validator[v] => ValidatorKnows(validator[v])'
         /\ \A a \in Admins     : admin'[a] = admin[a] => AdminKnows(admin[a])'
<1>1. ASSUME NEW q, ValidatorKnows(q) PROVE q \in Request /\ (q.step # "idle" => CopyOf(q.row)')
  BY <1>1, CopyKept DEF ConnInv, ValidatorKnows
<1>2. ASSUME NEW q, AdminKnows(q) PROVE q \in Request /\ (q.step # "idle" => CopyOf(q.row)')
  BY <1>2, CopyKept DEF ConnInv, AdminKnows
<1> QED
  BY <1>1, <1>2 DEF ConnInv, ValidatorKnows, AdminKnows

\* A step of one validation is about its own request and perhaps the row.
LEMMA ValidatorStep ==
  ASSUME ConnInv, NEW v \in Validators, NEW q \in Request,
         validator' = [ validator EXCEPT ![v] = q ], UNCHANGED << usesToken, admin >>,
         resource' \in Resource,
         resource' = resource \/ resource'.version = resource.version + 1,
         ValidatorKnows(q)', ResourceSound'
  PROVE  ConnInv'
<1>1. validator'[v] = q /\ \A w \in Validators \ { v } : validator'[w] = validator[w]
  BY DEF ConnInv
<1>2. \A a \in Admins : AdminKnows(admin[a])'
  BY KnownKept DEF ConnInv
<1>3. \A w \in Validators : ValidatorKnows(validator[w])'
  BY <1>1, KnownKept
<1> QED
  BY <1>2, <1>3 DEF ConnInv

LEMMA AdminStep ==
  ASSUME ConnInv, NEW a \in Admins, NEW q \in Request,
         admin' = [ admin EXCEPT ![a] = q ], UNCHANGED << usesToken, validator >>,
         resource' \in Resource,
         resource' = resource \/ resource'.version = resource.version + 1,
         AdminKnows(q)', ResourceSound'
  PROVE  ConnInv'
<1>1. admin'[a] = q /\ \A b \in Admins \ { a } : admin'[b] = admin[b]
  BY DEF ConnInv
<1>2. \A w \in Validators : ValidatorKnows(validator[w])'
  BY KnownKept DEF ConnInv
<1>3. \A b \in Admins : AdminKnows(admin[b])'
  BY <1>1, KnownKept
<1> QED
  BY <1>2, <1>3 DEF ConnInv


LEMMA ReadRow ==
  ASSUME ConnInv PROVE CopyOf(resource)
BY DEF ConnInv, CopyOf, Resource

\* What is saved over the row was made of the row.
LEMMA SavedOverItself ==
  ASSUME ConnInv, NEW row, CopyOf(row), SaveMatches(row.version)
  PROVE  row = resource
BY DEF CopyOf, SaveMatches

LEMMA ReadForValidationKeeps ==
  ASSUME ConnInv, NEW v \in Validators, ReadForValidation(v) PROVE ConnInv'
<1>1. PICK q \in Request : /\ q = Fetching(validator[v], resource)
                           /\ q.step = "start" /\ q.row = resource
  BY FetchingMade DEF ConnInv
<1>2. validator' = [ validator EXCEPT ![v] = q ] /\ UNCHANGED << usesToken, admin, resource, liveCredentials >>
  BY <1>1 DEF ReadForValidation, Fetching
<1>3. ValidatorKnows(q)'
  BY <1>1, <1>2, ReadRow DEF ValidatorKnows, CopyOf, ReadForValidation
<1>4. ResourceSound' /\ resource' = resource /\ resource' \in Resource
  BY <1>2 DEF ConnInv, ResourceSound, ActiveMeansValidated
<1> QED
  BY <1>1, <1>2, <1>3, <1>4, ValidatorStep

\* A request that ends leaves nothing behind.
LEMMA ValidatorEnds ==
  ASSUME ConnInv, NEW v \in Validators, validator' = [ validator EXCEPT ![v] = IdleRequest ],
         UNCHANGED << usesToken, liveCredentials, resource, admin >>
  PROVE  ConnInv'
<1>1. PICK q \in Request : q = IdleRequest /\ q.step = "idle"
  BY IdleIsRequest
<1>2. ValidatorKnows(q)' /\ ResourceSound' /\ resource' \in Resource
  BY <1>1 DEF ValidatorKnows, ConnInv, ResourceSound, ActiveMeansValidated
<1> QED
  BY <1>1, <1>2, ValidatorStep

LEMMA StartValidationKeeps ==
  ASSUME ConnInv, NEW v \in Validators, StartValidation(v) PROVE ConnInv'
<1>1. PICK old \in Resource : old = validator[v].row
  BY DEF ConnInv, Request
<1>2. CopyOf(old) /\ old.status # "revoked" /\ validator[v] \in Request
  BY <1>1 DEF ConnInv, ValidatorKnows, StartValidation
<1>3. CASE SaveMatches(old.version)
  <2>1. PICK n \in Nat : n = Len(validations) + 1
    OBVIOUS
  <2>b. PICK skew \in ClockSkews[v] :
          /\ resource' = Validating(old, n, skew)
          /\ validator' = [ validator EXCEPT ![v] = Checking(@, Validating(old, n, skew), n) ]
    BY <1>1, <1>3, <2>1 DEF StartValidation, Checking
  <2>2. PICK row \in Resource : /\ row = Validating(old, n, skew)
                                /\ row.status = "validating" /\ row.version = old.version + 1
                                /\ row.config = old.config
    BY ValidatingRow
  <2>3. PICK q \in Request :
          q = Checking(validator[v], row, n) /\ q.step = "check" /\ q.row = row
    BY <1>2, CheckingMade
  <2>4. /\ resource' = row /\ validator' = [ validator EXCEPT ![v] = q ]
        /\ UNCHANGED << usesToken, liveCredentials, admin >>
    BY <1>2, <2>b, <2>2, <2>3 DEF StartValidation, ConnInv
  <2>5. old = resource
    BY <1>2, <1>3, SavedOverItself
  <2>6. ValidatorKnows(q)'
    BY <2>2, <2>3, <2>4 DEF ValidatorKnows, CopyOf, Resource
  <2>7. ResourceSound'
    BY <1>2, <2>2, <2>4, <2>5 DEF ConnInv, ResourceSound, ActiveMeansValidated
  <2> QED
    BY <2>2, <2>4, <2>5, <2>6, <2>7, ValidatorStep
<1>4. CASE ~SaveMatches(old.version)
  BY <1>1, <1>4, ValidatorEnds DEF StartValidation
<1> QED
  BY <1>3, <1>4

LEMMA CheckProviderKeeps ==
  ASSUME ConnInv, NEW v \in Validators, CheckProvider(v) PROVE ConnInv'
<1>1. PICK q \in Request :
        /\ q.step = "finish" /\ q.row = validator[v].row
        /\ validator' = [ validator EXCEPT ![v] = q ]
  <2>1. PICK passed \in BOOLEAN : validator' = [ validator EXCEPT ![v] =
                                     [ validator[v] EXCEPT !.step = "finish", !.passed = passed ] ]
    BY DEF CheckProvider
  <2>2. PICK r \in Request : r = validator[v]
    BY DEF ConnInv
  <2> QED
    BY <2>1, <2>2, FinishRequest
<1>2. UNCHANGED << usesToken, resource, liveCredentials, admin >>
  BY DEF CheckProvider
<1>3. ValidatorKnows(q)'
  BY <1>1, <1>2 DEF ConnInv, ValidatorKnows, CopyOf, CheckProvider
<1>4. ResourceSound' /\ resource' \in Resource
  BY <1>2 DEF ConnInv, ResourceSound, ActiveMeansValidated
<1> QED
  BY <1>1, <1>2, <1>3, <1>4, ValidatorStep

\* What the second transaction writes: it was validating, so not revoked, and
\* the live credential is the one of the row.
LEMMA FinishValidationKeeps ==
  ASSUME ConnInv, NEW v \in Validators, FinishValidation(v) PROVE ConnInv'
<1>1. PICK old \in Resource : old = validator[v].row
  BY DEF ConnInv, Request
<1>2. CopyOf(old) /\ old.status = "validating"
  BY <1>1 DEF ConnInv, ValidatorKnows, FinishValidation
<1>3. CASE SaveMatches(old.version)
  <2>1. PICK row \in Resource :
          /\ row = Validated(old, validator[v].passed)
          /\ row.status \in { "active", "invalid" } /\ row.version = old.version + 1
          /\ row.config = old.config
          /\ row.status = "active" => row.checkedConfig = row.config
    <3>1. validator[v].passed \in BOOLEAN
      BY DEF ConnInv, Request
    <3> QED
      BY <3>1, ValidatedRow
  <2>2. PICK q \in Request : q = IdleRequest /\ q.step = "idle"
    BY IdleIsRequest
  <2>3. /\ resource' = row /\ validator' = [ validator EXCEPT ![v] = q ]
        /\ UNCHANGED << usesToken, liveCredentials, admin >>
    BY <1>1, <1>3, <2>1, <2>2 DEF FinishValidation
  <2>4. old = resource
    BY <1>2, <1>3, SavedOverItself
  <2>5. ResourceSound' /\ ValidatorKnows(q)'
    BY <1>2, <2>1, <2>2, <2>3, <2>4 DEF ConnInv, ResourceSound, ActiveMeansValidated, ValidatorKnows
  <2> QED
    BY <2>1, <2>3, <2>4, <2>5, ValidatorStep
<1>4. CASE ~SaveMatches(old.version)
  BY <1>1, <1>4, ValidatorEnds DEF FinishValidation
<1> QED
  BY <1>3, <1>4

LEMMA ReadForChangeKeeps ==
  ASSUME ConnInv, NEW a \in Admins, NEW action \in { "change", "disable", "revoke" },
         ReadForChange(a, action)
  PROVE  ConnInv'
<1>1. PICK q \in Request :
        /\ q = Changing(admin[a], resource, action)
        /\ q.step = "save" /\ q.row = resource /\ q.action = action
  <2>1. admin[a] \in Request /\ resource \in Resource
    BY DEF ConnInv
  <2> QED
    BY <2>1, ChangingMade
<1>2. admin' = [ admin EXCEPT ![a] = q ] /\ UNCHANGED << usesToken, validator, resource, liveCredentials >>
  BY <1>1 DEF ReadForChange, Changing
<1>3. resource.status # "revoked"
  <2>1. ConnTransitions["revoked"] = {}
    BY DEF ConnTransitions
  <2>2. AllowedChange(resource, action)
    BY DEF ReadForChange
  <2> QED
    BY <2>1, <2>2 DEF AllowedChange
<1>4. AdminKnows(q)'
  BY <1>1, <1>2, <1>3, ReadRow DEF AdminKnows, CopyOf, ReadForChange
<1>5. ResourceSound' /\ resource' \in Resource
  BY <1>2 DEF ConnInv, ResourceSound, ActiveMeansValidated
<1> QED
  BY <1>1, <1>2, <1>4, <1>5, AdminStep

LEMMA SaveChangeKeeps ==
  ASSUME ConnInv, NEW a \in Admins, SaveChange(a) PROVE ConnInv'
<1>1. PICK old \in Resource, action \in { "change", "disable", "revoke" } :
        old = admin[a].row /\ action = admin[a].action
  BY DEF ConnInv, AdminKnows, Request, SaveChange
<1>2. CopyOf(old) /\ old.status # "revoked"
  BY <1>1 DEF ConnInv, AdminKnows, SaveChange
<1>3. PICK q \in Request : q = IdleRequest /\ q.step = "idle"
  BY IdleIsRequest
<1>4. admin' = [ admin EXCEPT ![a] = q ] /\ UNCHANGED << usesToken, validator >> /\ AdminKnows(q)'
  BY <1>3 DEF SaveChange, AdminKnows
<1>5. CASE SaveMatches(old.version)
  <2>1. PICK row \in Resource :
          /\ row = Changed(old, action) /\ row.version = old.version + 1
          /\ action = "change" => row.status = "draft" /\ row.config = old.config + 1
          /\ action = "disable" => row.status = "disabled" /\ row.config = old.config
          /\ action = "revoke" => row.status = "revoked"
    BY ChangedRow
  <2>2. resource' = row /\ liveCredentials' = CredentialsAfter(old, action)
    BY <1>1, <1>5, <2>1 DEF SaveChange
  <2>3. old = resource
    BY <1>2, <1>5, SavedOverItself
  <2>4. ResourceSound'
    BY <1>2, <1>4, <2>1, <2>2, <2>3 DEF ConnInv, ResourceSound, ActiveMeansValidated, CredentialsAfter
  <2> QED
    BY <1>4, <2>1, <2>2, <2>3, <2>4, AdminStep
<1>6. CASE ~SaveMatches(old.version)
  <2>1. UNCHANGED << resource, liveCredentials >>
    BY <1>1, <1>6 DEF SaveChange
  <2>2. ResourceSound' /\ resource' \in Resource
    BY <1>4, <2>1 DEF ConnInv, ResourceSound, ActiveMeansValidated
  <2> QED
    BY <1>4, <2>1, <2>2, AdminStep
<1> QED
  BY <1>5, <1>6

LEMMA RecoverAttemptKeeps ==
  ASSUME ConnInv, NEW n, RecoverAttempt(n) PROVE ConnInv'
<1>1. PICK row \in Resource :
        /\ row = Recovered(resource)
        /\ \/ row = resource
           \/ resource.status # "revoked" /\ row.status = "invalid" /\ row.config = resource.config
              /\ row.version = resource.version + 1
  BY TransitionedRow, StatusesOfRows DEF ConnInv, Recovered, WasInterrupted
<1>2. resource' = row /\ UNCHANGED << usesToken, liveCredentials, validator, admin >>
  BY <1>1 DEF RecoverAttempt
<1>3. ResourceSound'
  BY <1>1, <1>2 DEF ConnInv, ResourceSound, ActiveMeansValidated
<1>4. /\ \A v \in Validators : ValidatorKnows(validator[v])'
      /\ \A a \in Admins : AdminKnows(admin[a])'
  BY <1>1, <1>2, KnownKept
<1> QED
  BY <1>1, <1>2, <1>3, <1>4 DEF ConnInv

LEMMA ConnInvNext == ConnInv /\ [ConnNext]_connVars => ConnInv'
<1> SUFFICES ASSUME ConnInv, [ConnNext]_connVars PROVE ConnInv'
  OBVIOUS
<1>1. CASE UNCHANGED << usesToken, resource, liveCredentials, validator, admin >>
  <2>1. ResourceSound' /\ resource' \in Resource
    BY <1>1 DEF ConnInv, ResourceSound, ActiveMeansValidated
  <2> QED
    BY <1>1, <2>1, KnownKept DEF ConnInv
<1>2. ASSUME NEW v \in Validators, CrashValidator(v) PROVE ConnInv'
  BY <1>2, ValidatorEnds DEF CrashValidator
<1> QED
  BY <1>1, <1>2, ReadForValidationKeeps, StartValidationKeeps, CheckProviderKeeps,
     FinishValidationKeeps, ReadForChangeKeeps, SaveChangeKeeps, RecoverAttemptKeeps
     DEF ConnNext, connVars, Age

\* A resource of the customer's cloud is active only as it was validated, for any
\* number of requests and versions (PostgresByocStore).
THEOREM ActiveWasValidated == ConnSpec => []ActiveMeansValidated
<1>1. ConnInv => ActiveMeansValidated
  BY DEF ConnInv, ResourceSound
<1> QED
  BY <1>1, ConnInvInit, ConnInvNext, PTL DEF ConnSpec

\* A step that writes the row writes what a request has, or what the recovery
\* makes of the row.
LEMMA WhoWrites ==
  ASSUME ConnInv, [ConnNext]_connVars, resource' # resource
  PROVE  \/ \E v \in Validators :
              /\ validator[v].step \in { "start", "finish" } /\ resource = validator[v].row
              /\ validator[v].step = "start" => resource'.status = "validating"
              /\ validator[v].step = "finish" => validator'[v].step = "idle"
         \/ \E a \in Admins :
              /\ admin[a].step = "save" /\ resource = admin[a].row
              /\ resource'.status \in { "draft", "disabled", "revoked" }
         \/ WasInterrupted(resource)
<1>1. ASSUME NEW v \in Validators, StartValidation(v) \/ FinishValidation(v)
      PROVE  /\ validator[v].step \in { "start", "finish" } /\ resource = validator[v].row
             /\ validator[v].step = "start" => resource'.status = "validating"
             /\ validator[v].step = "finish" => validator'[v].step = "idle"
  <2>1. PICK old \in Resource : old = validator[v].row
    BY DEF ConnInv, Request
  <2>2. CopyOf(old) /\ SaveMatches(old.version)
    BY <1>1, <2>1 DEF ConnInv, ValidatorKnows, StartValidation, FinishValidation
  <2>3. CASE StartValidation(v)
    <3>1. PICK n \in Nat : n = Len(validations) + 1
      OBVIOUS
    <3>2. PICK skew \in ClockSkews[v] : resource' = Validating(old, n, skew)
      BY <2>1, <2>2, <2>3, <3>1 DEF StartValidation
    <3> QED
      BY <2>1, <2>2, <2>3, <3>2, ValidatingRow, SavedOverItself DEF StartValidation
  <2>4. CASE FinishValidation(v)
    BY <2>1, <2>2, <2>4, SavedOverItself, IdleIsRequest DEF FinishValidation, ConnInv
  <2> QED
    BY <1>1, <2>3, <2>4
<1>2. ASSUME NEW a \in Admins, SaveChange(a)
      PROVE  /\ admin[a].step = "save" /\ resource = admin[a].row
             /\ resource'.status \in { "draft", "disabled", "revoked" }
  <2>1. PICK old \in Resource, action \in { "change", "disable", "revoke" } :
          old = admin[a].row /\ action = admin[a].action
    BY <1>2 DEF ConnInv, AdminKnows, Request, SaveChange
  <2>2. CopyOf(old) /\ SaveMatches(old.version) /\ resource' = Changed(old, action)
    BY <1>2, <2>1 DEF ConnInv, AdminKnows, SaveChange
  <2> QED
    BY <1>2, <2>1, <2>2, SavedOverItself, ChangedRow DEF SaveChange
<1>3. ASSUME NEW n, RecoverAttempt(n) PROVE WasInterrupted(resource)
  BY <1>3 DEF RecoverAttempt, Recovered
<1> QED
  BY <1>1, <1>2, <1>3 DEF ConnNext, connVars, Age, ReadForValidation, CheckProvider, CrashValidator,
     ReadForChange

\* A revoked resource is never written again, by no request that had read it
\* before and by no recovery (PostgresByocStore.lifecycle, targetLifecycle).
THEOREM RevokedStaysRevoked == ConnSpec => RevokedForGood
<1>1. ASSUME ConnInv, [ConnNext]_connVars, resource.status = "revoked" PROVE resource' = resource
  BY <1>1, WhoWrites DEF ConnInv, ValidatorKnows, AdminKnows, WasInterrupted
<1>2. ConnInv /\ [ConnNext]_connVars => [ resource.status = "revoked" => resource' = resource ]_connVars
  BY <1>1
<1> QED
  BY <1>2, ConnInvInit, ConnInvNext, PTL DEF ConnSpec, RevokedForGood

\* The recovery's line between old and young is a time.
HorizonTyped == horizon \in Int

LEMMA HorizonInit == ConnInit => HorizonTyped
BY DEF ConnInit, HorizonTyped

LEMMA HorizonNext == HorizonTyped /\ [ConnNext]_connVars => HorizonTyped'
<1> SUFFICES ASSUME HorizonTyped, [ConnNext]_connVars PROVE HorizonTyped'
  OBVIOUS
<1>1. horizon' = horizon \/ horizon' = horizon + 1
  BY DEF ConnNext, connVars, ReadForValidation, StartValidation, CheckProvider, FinishValidation,
   CrashValidator, ReadForChange, SaveChange, RecoverAttempt, Age
<1> QED
  BY <1>1 DEF HorizonTyped

\* The recovery ends only validations that are old, for any number of requests,
\* unless the request that began it had a clock behind the database's
\* (recoverInterruptedValidations).
THEOREM RecoveryLeavesTheYoung == ConnSpec => RecoversOnlyStale
<1> DEFINE Kept == resource.status = "validating" /\ resource'.status = "invalid"
                     /\ ~Stale(ReadAt(resource.validation))
                     /\ resource.validatedAt >= ReadAt(resource.validation)
                   => \E v \in Validators : validator[v].step = "finish" /\ validator'[v].step = "idle"
<1>1. ASSUME ConnInv, HorizonTyped, [ConnNext]_connVars PROVE Kept
  <2> SUFFICES ASSUME resource.status = "validating", resource'.status = "invalid",
                      ~Stale(ReadAt(resource.validation)),
                      resource.validatedAt >= ReadAt(resource.validation)
               PROVE  \E v \in Validators : validator[v].step = "finish" /\ validator'[v].step = "idle"
    OBVIOUS
  <2>1. ReadAt(resource.validation) \in Int /\ resource.validatedAt \in Int
    BY <1>1 DEF ConnInv, Resource, ReadAt
  <2>2. ~WasInterrupted(resource)
    BY <1>1, <2>1 DEF WasInterrupted, Stale, HorizonTyped
  <2> QED
    BY <1>1, <2>2, WhoWrites
<1>2. ConnInv /\ HorizonTyped /\ [ConnNext]_connVars => [Kept]_connVars
  BY <1>1
<1> QED
  BY <1>2, ConnInvInit, ConnInvNext, HorizonInit, HorizonNext, PTL DEF ConnSpec, RecoversOnlyStale

-----------------------------------------------------------------------------
(***************************************************************************)
(* Secrets.                                                                *)
(***************************************************************************)
Reference == [ status : { "draft", "active", "invalid", "disabled", "revoked" }, version : Nat,
               referenceVersion : Nat, checkedVersion : Nat ]

\* Whatever it is a copy of, the row that an action makes is active only as
\* the provider has just confirmed it.
Confirmed(row) == row.status = "active" => row.checkedVersion = row.referenceVersion

SecretCall(q) ==
  /\ DOMAIN q = { "step", "refs", "copy", "seen", "action" }
  /\ q.refs \subseteq References
  /\ q.step = "save" => /\ q.action \in SecretActions
                        /\ \A r \in q.refs : q.copy[r] \in Reference /\ Confirmed(q.copy[r])

SecretInv ==
  /\ reference \in [ References -> Reference ]
  /\ \A r \in References : Confirmed(reference[r])
  /\ AttachedRefs \subseteq References
  /\ DOMAIN secretReq = SecretClients
  /\ \A c \in SecretClients : SecretCall(secretReq[c])

LEMMA RevisedReference ==
  ASSUME NEW row \in Reference, Confirmed(row), NEW action \in SecretActions
  PROVE  Revised(row, action) \in Reference /\ Confirmed(Revised(row, action))
<1>1. CASE action = "rotate"
  <2>1. PICK n \in Nat : n = row.referenceVersion + 1
    BY DEF Reference
  <2>2. Revised(row, action) = [ row EXCEPT !.status = "draft", !.referenceVersion = n ]
    BY <1>1, <2>1 DEF Revised
  <2> QED
    BY <2>2 DEF Reference, Confirmed
<1>2. CASE action # "rotate"
  BY <1>2 DEF Revised, Reference, Confirmed, SecretActions
<1> QED
  BY <1>1, <1>2

LEMMA SavedReference ==
  ASSUME NEW row \in Reference, Confirmed(row), NEW copy \in Reference, Confirmed(copy),
         NEW action \in SecretActions
  PROVE  Saved(row, copy, action) \in Reference /\ Confirmed(Saved(row, copy, action))
<1>1. PICK new \in Reference : new = Revised(copy, action) /\ Confirmed(new)
  BY RevisedReference
<1>2. PICK n \in Nat : n = copy.version + 1
  BY DEF Reference
<1>3. Saved(row, copy, action) = IF row.version = copy.version THEN [ new EXCEPT !.version = n ] ELSE row
  BY <1>1, <1>2 DEF Saved
<1> QED
  BY <1>1, <1>2, <1>3 DEF Reference, Confirmed

\* The calls that requests begin.
Saving(r, row, action) == [ IdleSecret EXCEPT !.step = "save", !.refs = { r },
                                              !.copy = [ x \in { r } |-> row ], !.action = action ]
Attaching(refs, seen)  == [ IdleSecret EXCEPT !.step = "attach", !.refs = refs, !.seen = seen ]
Copying(q, copy)       == [ q EXCEPT !.copy = copy ]

LEMMA SavingCall ==
  ASSUME NEW r \in References, NEW row \in Reference, Confirmed(row), NEW action \in SecretActions
  PROVE  SecretCall(Saving(r, row, action))
BY DEF Saving, IdleSecret, SecretCall

LEMMA AttachingCall ==
  ASSUME NEW refs \in SUBSET References, NEW seen PROVE SecretCall(Attaching(refs, seen))
BY DEF Attaching, IdleSecret, SecretCall

LEMMA CopyingCall ==
  ASSUME NEW q, SecretCall(q), q.step # "save", NEW copy PROVE SecretCall(Copying(q, copy))
BY DEF Copying, SecretCall

LEMMA SecretInvInit == SecretInit => SecretInv
<1> SUFFICES ASSUME SecretInit PROVE SecretInv
  OBVIOUS
<1>1. NewReference \in Reference /\ Confirmed(NewReference)
  BY DEF NewReference, Reference, Confirmed
<1>2. SecretCall(IdleSecret)
  BY DEF SecretCall, IdleSecret
<1> QED
  BY <1>1, <1>2 DEF SecretInit, SecretInv, AttachedRefs

\* A call that moves, while the rows stay as they are.
LEMMA CallMoves ==
  ASSUME SecretInv, NEW c \in SecretClients, NEW q, SecretCall(q), SetReq(c, q), UNCHANGED reference,
         AttachedRefs' \subseteq References
  PROVE  SecretInv'
<1>1. secretReq'[c] = q /\ \A b \in SecretClients \ { c } : secretReq'[b] = secretReq[b]
  BY DEF SecretInv, SetReq
<1> QED
  BY <1>1 DEF SecretInv, SetReq, SecretCall

LEMMA SecretInvNext == SecretInv /\ [SecretNext]_secretVars => SecretInv'
<1> SUFFICES ASSUME SecretInv, [SecretNext]_secretVars PROVE SecretInv'
  OBVIOUS
<1>1. CASE UNCHANGED secretVars
  BY <1>1 DEF secretVars, SecretInv, SecretCall, AttachedRefs
<1>2. ASSUME NEW c \in SecretClients, NEW r \in References, NEW action \in SecretActions,
             ReadReference(c, r, action)
      PROVE  SecretInv'
  <2>1. /\ SetReq(c, Saving(r, reference[r], action)) /\ UNCHANGED << reference, attached >>
        /\ reference[r] \in Reference /\ Confirmed(reference[r])
    BY <1>2 DEF ReadReference, Saving, SecretInv
  <2> QED
    BY <2>1, SavingCall, CallMoves DEF SecretInv, AttachedRefs
<1>3. ASSUME NEW c \in SecretClients, NEW refs \in SUBSET References, StartAttach(c, refs)
      PROVE  SecretInv'
  <2>1. SetReq(c, Attaching(refs, attachment)) /\ UNCHANGED << reference, attached >>
    BY <1>3 DEF StartAttach, Attaching
  <2> QED
    BY <2>1, AttachingCall, CallMoves DEF SecretInv, AttachedRefs
<1>4. ASSUME NEW c \in SecretClients, NEW r \in References, ReadForAttach(c, r) PROVE SecretInv'
  <2> DEFINE copy == [ x \in DOMAIN secretReq[c].copy \union { r } |->
                         IF x = r THEN reference[r] ELSE secretReq[c].copy[x] ]
  <2>1. /\ SetReq(c, Copying(secretReq[c], copy)) /\ UNCHANGED << reference, attached >>
        /\ SecretCall(secretReq[c]) /\ secretReq[c].step # "save"
    BY <1>4 DEF ReadForAttach, Copying, SecretInv
  <2> HIDE DEF copy
  <2> QED
    BY <2>1, CopyingCall, CallMoves DEF SecretInv, AttachedRefs
<1>5. ASSUME NEW c \in SecretClients, CommitAttach(c) PROVE SecretInv'
  <2>1. SecretCall(IdleSecret)
    BY DEF SecretCall, IdleSecret
  <2>2. AttachedRefs' \subseteq References
    BY <1>5 DEF CommitAttach, AttachedRows, AttachedRefs, SecretInv, SecretCall
  <2> QED
    BY <1>5, <2>1, <2>2, CallMoves DEF CommitAttach
<1>6. ASSUME NEW c \in SecretClients, AbandonSecret(c) PROVE SecretInv'
  <2>1. SecretCall(IdleSecret)
    BY DEF SecretCall, IdleSecret
  <2> QED
    BY <1>6, <2>1, CallMoves DEF AbandonSecret, SecretInv, AttachedRefs
<1>7. ASSUME NEW c \in SecretClients, SaveReference(c) PROVE SecretInv'
  <2>1. /\ reference' = [ r \in References |-> IF r \in secretReq[c].refs
                             THEN Saved(reference[r], secretReq[c].copy[r], secretReq[c].action)
                             ELSE reference[r] ]
        /\ secretReq[c].step = "save" /\ UNCHANGED attached /\ SetReq(c, IdleSecret)
    BY <1>7 DEF SaveReference
  <2>2. ASSUME NEW r \in References PROVE reference'[r] \in Reference /\ Confirmed(reference'[r])
    <3>1. CASE r \in secretReq[c].refs
      <4>1. /\ reference[r] \in Reference /\ Confirmed(reference[r])
            /\ secretReq[c].copy[r] \in Reference /\ Confirmed(secretReq[c].copy[r])
            /\ secretReq[c].action \in SecretActions
        BY <2>1, <3>1 DEF SecretInv, SecretCall
      <4> QED
        BY <2>1, <3>1, <4>1, SavedReference
    <3>2. CASE r \notin secretReq[c].refs
      BY <2>1, <3>2 DEF SecretInv
    <3> QED
      BY <3>1, <3>2
  <2>3. SecretCall(IdleSecret) /\ AttachedRefs' \subseteq References
    BY <2>1 DEF SecretCall, IdleSecret, SecretInv, AttachedRefs
  <2>4. /\ DOMAIN secretReq' = SecretClients
        /\ \A b \in SecretClients : SecretCall(secretReq[b])'
    BY <2>1, <2>3 DEF SetReq, SecretInv, SecretCall
  <2>5. reference' \in [ References -> Reference ]
    BY <2>1, <2>2
  <2> QED
    BY <2>2, <2>3, <2>4, <2>5 DEF SecretInv
<1> QED
  BY <1>1, <1>2, <1>3, <1>4, <1>5, <1>6, <1>7 DEF SecretNext

\* Whatever was rotated, disabled or attached meanwhile, a deployment takes along
\* only versions that the provider has confirmed (PostgresSecretReferenceStore).
THEOREM OnlyConfirmedIsDeployed == SecretSpec => []DeploysConfirmed
<1>1. SecretInv => DeploysConfirmed
  BY DEF SecretInv, DeploysConfirmed, Deployable, DeploymentReferences, Confirmed
<1> QED
  BY <1>1, SecretInvInit, SecretInvNext, PTL DEF SecretSpec

(***************************************************************************)
(* Types of the secrets: a version and the count of attachments stay in    *)
(* bounds because what a call has read was below them, and because it      *)
(* writes only over what it has read.                                      *)
(***************************************************************************)
SecretBounds(q) ==
  /\ q.step \in { "idle", "save", "attach" }
  /\ q.step = "save" => \A r \in q.refs : q.copy[r].version < MaxSecretVersion
  /\ q.step = "attach" => q.seen < MaxAttachments

SecretTypeInv ==
  /\ SecretInv
  /\ \A r \in References : reference[r].version <= MaxSecretVersion
  /\ \A a \in attached : a.version \in Nat
  /\ attachment \in 0 .. MaxAttachments
  /\ \A c \in SecretClients : SecretBounds(secretReq[c])

LEMMA SecretTypesStart == SecretInit => SecretTypeInv
<1> SUFFICES ASSUME SecretInit PROVE SecretTypeInv
  OBVIOUS
<1>1. /\ \A r \in References : reference[r] = NewReference
      /\ attached = { } /\ attachment = 0
      /\ \A c \in SecretClients : secretReq[c] = IdleSecret
  BY DEF SecretInit
<1>2. NewReference.version = 0 /\ SecretBounds(IdleSecret)
  BY DEF NewReference, IdleSecret, SecretBounds
<1>3. attachment \in 0 .. MaxAttachments /\ 0 <= MaxSecretVersion
  BY <1>1, SecretAssumption
<1> QED
  BY <1>1, <1>2, <1>3, SecretInvInit DEF SecretTypeInv

\* A call that moves within its bounds.
LEMMA BoundedCall ==
  ASSUME SecretTypeInv, NEW c \in SecretClients, NEW q, SecretBounds(q), SetReq(c, q)
  PROVE  \A b \in SecretClients : SecretBounds(secretReq[b])'
<1>1. secretReq'[c] = q /\ \A b \in SecretClients \ { c } : secretReq'[b] = secretReq[b]
  BY DEF SecretTypeInv, SecretInv, SetReq
<1> QED
  BY <1>1 DEF SecretTypeInv, SecretBounds

LEMMA SavedInBounds ==
  ASSUME NEW row \in Reference, NEW copy \in Reference, Confirmed(copy), NEW action \in SecretActions,
         row.version <= MaxSecretVersion, copy.version < MaxSecretVersion
  PROVE  Saved(row, copy, action).version <= MaxSecretVersion
<1>1. PICK new \in Reference : new = Revised(copy, action)
  BY RevisedReference
<1>2. PICK n \in Nat : n = copy.version + 1
  BY DEF Reference
<1>3. Saved(row, copy, action) = IF row.version = copy.version THEN [ new EXCEPT !.version = n ] ELSE row
  BY <1>1, <1>2 DEF Saved
<1>4. n <= MaxSecretVersion
  BY <1>2, SecretAssumption DEF Reference
<1> QED
  BY <1>1, <1>2, <1>3, <1>4 DEF Reference

LEMMA SecretTypesNext == SecretTypeInv /\ [SecretNext]_secretVars => SecretTypeInv'
<1> SUFFICES ASSUME SecretTypeInv, [SecretNext]_secretVars PROVE SecretTypeInv'
  OBVIOUS
<1>a. SecretInv'
  BY SecretInvNext DEF SecretTypeInv
<1>b. SecretBounds(IdleSecret)
  BY DEF SecretBounds, IdleSecret
<1>0. ASSUME UNCHANGED << reference, attached, attachment >>,
             \A b \in SecretClients : SecretBounds(secretReq[b])'
      PROVE  SecretTypeInv'
  BY <1>a, <1>0 DEF SecretTypeInv
<1>1. CASE UNCHANGED secretVars
  BY <1>0, <1>1 DEF secretVars, SecretTypeInv, SecretBounds
<1>2. ASSUME NEW c \in SecretClients, NEW r \in References, NEW action \in SecretActions,
             ReadReference(c, r, action)
      PROVE  SecretTypeInv'
  <2>1. /\ SetReq(c, Saving(r, reference[r], action)) /\ UNCHANGED << reference, attached, attachment >>
        /\ reference[r].version < MaxSecretVersion
    BY <1>2 DEF ReadReference, Saving
  <2>2. SecretBounds(Saving(r, reference[r], action))
    BY <2>1 DEF Saving, IdleSecret, SecretBounds
  <2> QED
    BY <1>0, <2>1, <2>2, BoundedCall
<1>3. ASSUME NEW c \in SecretClients, NEW refs \in SUBSET References, StartAttach(c, refs)
      PROVE  SecretTypeInv'
  <2>1. /\ SetReq(c, Attaching(refs, attachment)) /\ UNCHANGED << reference, attached, attachment >>
        /\ attachment < MaxAttachments
    BY <1>3 DEF StartAttach, Attaching
  <2>2. SecretBounds(Attaching(refs, attachment))
    BY <2>1 DEF Attaching, IdleSecret, SecretBounds
  <2> QED
    BY <1>0, <2>1, <2>2, BoundedCall
<1>4. ASSUME NEW c \in SecretClients, NEW r \in References, ReadForAttach(c, r) PROVE SecretTypeInv'
  <2> DEFINE copy == [ x \in DOMAIN secretReq[c].copy \union { r } |->
                         IF x = r THEN reference[r] ELSE secretReq[c].copy[x] ]
  <2>1. /\ SetReq(c, Copying(secretReq[c], copy)) /\ UNCHANGED << reference, attached, attachment >>
        /\ SecretCall(secretReq[c]) /\ SecretBounds(secretReq[c]) /\ secretReq[c].step = "attach"
    BY <1>4 DEF ReadForAttach, Copying, SecretTypeInv, SecretInv
  <2> HIDE DEF copy
  <2>2. SecretBounds(Copying(secretReq[c], copy))
    BY <2>1 DEF Copying, SecretCall, SecretBounds
  <2> QED
    BY <1>0, <2>1, <2>2, BoundedCall
<1>5. ASSUME NEW c \in SecretClients, CommitAttach(c) PROVE SecretTypeInv'
  <2>1. /\ SetReq(c, IdleSecret) /\ UNCHANGED reference
        /\ secretReq[c].step = "attach" /\ SecretBounds(secretReq[c])
    BY <1>5 DEF CommitAttach, SecretTypeInv
  <2>2. CASE secretReq[c].seen = attachment
    <3>1. attachment' = attachment + 1 /\ attached' = AttachedRows(secretReq[c], attachment + 1)
      BY <1>5, <2>2 DEF CommitAttach, AttachMatches
    <3>2. attachment + 1 \in 0 .. MaxAttachments
      BY <2>1, <2>2, SecretAssumption DEF SecretBounds, SecretTypeInv
    <3>3. \A a \in attached' : a.version \in Nat
      BY <3>1, <3>2 DEF AttachedRows
    <3> QED
      BY <1>a, <1>b, <2>1, <3>1, <3>2, <3>3, BoundedCall DEF SecretTypeInv
  <2>3. CASE secretReq[c].seen # attachment
    BY <1>0, <1>5, <1>b, <2>1, <2>3, BoundedCall DEF CommitAttach, AttachMatches
  <2> QED
    BY <2>2, <2>3
<1>6. ASSUME NEW c \in SecretClients, AbandonSecret(c) PROVE SecretTypeInv'
  BY <1>0, <1>6, <1>b, BoundedCall DEF AbandonSecret
<1>7. ASSUME NEW c \in SecretClients, SaveReference(c) PROVE SecretTypeInv'
  <2>1. /\ reference' = [ r \in References |-> IF r \in secretReq[c].refs
                             THEN Saved(reference[r], secretReq[c].copy[r], secretReq[c].action)
                             ELSE reference[r] ]
        /\ secretReq[c].step = "save" /\ UNCHANGED << attached, attachment >> /\ SetReq(c, IdleSecret)
    BY <1>7 DEF SaveReference
  <2>2. SecretCall(secretReq[c]) /\ SecretBounds(secretReq[c])
    BY DEF SecretTypeInv, SecretInv
  <2>3. ASSUME NEW r \in References PROVE reference'[r].version <= MaxSecretVersion
    <3>1. reference[r] \in Reference /\ reference[r].version <= MaxSecretVersion
      BY DEF SecretTypeInv, SecretInv
    <3>2. CASE r \in secretReq[c].refs
      <4>1. /\ secretReq[c].copy[r] \in Reference /\ Confirmed(secretReq[c].copy[r])
            /\ secretReq[c].copy[r].version < MaxSecretVersion
            /\ secretReq[c].action \in SecretActions
        BY <2>1, <2>2, <3>2 DEF SecretCall, SecretBounds
      <4> QED
        BY <2>1, <3>1, <3>2, <4>1, SavedInBounds
    <3>3. CASE r \notin secretReq[c].refs
      BY <2>1, <3>1, <3>3
    <3> QED
      BY <3>2, <3>3
  <2> QED
    BY <1>a, <1>b, <2>1, <2>3, BoundedCall DEF SecretTypeInv
<1> QED
  BY <1>1, <1>2, <1>3, <1>4, <1>5, <1>6, <1>7 DEF SecretNext

\* The rows of references and attachments and the requests keep their types
\* and bounds (PostgresSecretReferenceStore).
THEOREM SecretsTyped == SecretSpec => []SecretTypeOK
<1>1. SecretTypeInv => SecretTypeOK
  <2> SUFFICES ASSUME SecretTypeInv PROVE SecretTypeOK
    OBVIOUS
  <2>1. ASSUME NEW r \in References
        PROVE  /\ reference[r].status \in { "draft", "active", "invalid", "disabled", "revoked" }
               /\ reference[r].version \in 0 .. MaxSecretVersion
               /\ reference[r].referenceVersion \in Nat /\ reference[r].checkedVersion \in Nat
    BY SecretAssumption DEF SecretTypeInv, SecretInv, Reference
  <2>2. \A a \in attached : a.ref \in References
    BY DEF SecretTypeInv, SecretInv, AttachedRefs
  <2> QED
    BY <2>1, <2>2 DEF SecretTypeInv, SecretTypeOK, SecretBounds
<1> QED
  BY <1>1, SecretTypesStart, SecretTypesNext, PTL DEF SecretSpec

-----------------------------------------------------------------------------
(***************************************************************************)
(* Revalidation: a dependency that has been broken since the check began   *)
(* is one that the check has still to come to.                             *)
(***************************************************************************)
Running == { "claiming", "building", "authorizing", "applied" }

StillToCheck(k) == \E i \in 1 .. Len(checking) : checking[i] = k

RevalidationInv ==
  /\ checking \in Seq(Dependencies) /\ protected \in BOOLEAN
  /\ stage \in Running => broken \subseteq Unsound(dependency)
  /\ stage \in { "claiming", "authorizing" } => \A k \in broken : StillToCheck(k)
  /\ NothingOutdatedRuns

LEMMA EveryDependencyIsChecked ==
  ASSUME protected \in BOOLEAN
  PROVE  /\ ChecksOf(protected) \in Seq(Dependencies)
         /\ \A k \in Unsound(dependency) : \E i \in 1 .. Len(ChecksOf(protected)) : ChecksOf(protected)[i] = k
<1>1. CASE protected
  <2>1. ChecksOf(protected) = << "access", "resource", "target", "secret", "approval" >>
    BY <1>1 DEF ChecksOf
  <2> QED
    BY <2>1 DEF Dependencies, Unsound
<1>2. CASE ~protected
  <2>1. ChecksOf(protected) = << "access", "resource", "target", "secret" >>
    BY <1>2 DEF ChecksOf
  <2> QED
    BY <1>2, <2>1 DEF Dependencies, Unsound
<1> QED
  BY <1>1, <1>2

LEMMA RevalidationInvInit == RevalidationInit => RevalidationInv
<1> SUFFICES ASSUME RevalidationInit PROVE RevalidationInv
  OBVIOUS
<1>1. protected \in BOOLEAN
  BY RevalidationAssumption DEF RevalidationInit
<1> QED
  BY <1>1 DEF RevalidationInit, RevalidationInv, Running, NothingOutdatedRuns

\* A check begins: what is broken is yet to be looked at.
LEMMA CheckBegins ==
  ASSUME RevalidationInv, NEW from, NEW to \in { "claiming", "authorizing" }, BeginCheck(from, to),
         UNCHANGED << dependency, protected, accepted >>
  PROVE  RevalidationInv'
<1>1. /\ checking' = ChecksOf(protected) /\ stage' = to
      /\ broken' = Unsound(dependency) /\ Unsound(dependency)' = Unsound(dependency)
  BY DEF BeginCheck, Unsound, Sound
<1>2. checking' \in Seq(Dependencies) /\ \A k \in broken' : StillToCheck(k)'
  BY <1>1, EveryDependencyIsChecked DEF RevalidationInv, StillToCheck
<1> QED
  BY <1>1, <1>2 DEF RevalidationInv, NothingOutdatedRuns

\* One query: what it passes is sound now, so it was not broken all along.
LEMMA CheckNextKeeps ==
  ASSUME RevalidationInv, CheckNext, stage \in Running
  PROVE  RevalidationInv'
<1>1. UNCHANGED << dependency, protected, accepted, broken >> /\ Unsound(dependency)' = Unsound(dependency)
  BY DEF CheckNext, Unsound, Sound
<1>2. CASE Passes(Head(checking))
  <2>1. /\ checking \in Seq(Dependencies) /\ checking # << >>
        /\ checking' = Tail(checking) /\ stage' = stage
    BY <1>2 DEF CheckNext, RevalidationInv
  <2>2. Head(checking) \notin broken
    BY <1>2, <2>1 DEF Passes, Unsound, RevalidationInv
  <2>3. ASSUME NEW k \in broken, StillToCheck(k) PROVE StillToCheck(k)'
    <3>1. PICK i \in 1 .. Len(checking) : checking[i] = k
      BY <2>3 DEF StillToCheck
    <3>2. i # 1 /\ Len(Tail(checking)) = Len(checking) - 1 /\ Len(checking) \in Nat
      BY <2>1, <2>2, <3>1
    <3>3. i - 1 \in 1 .. Len(Tail(checking)) /\ Tail(checking)[i - 1] = checking[i]
      BY <2>1, <3>1, <3>2
    <3> QED
      BY <2>1, <3>1, <3>3 DEF StillToCheck
  <2>4. checking' \in Seq(Dependencies)
    BY <2>1
  <2> QED
    BY <1>1, <2>1, <2>3, <2>4 DEF RevalidationInv, NothingOutdatedRuns
<1>3. CASE ~Passes(Head(checking))
  <2>1. checking' = << >> /\ stage' = "failed"
    BY <1>3 DEF CheckNext
  <2> QED
    BY <1>1, <2>1 DEF RevalidationInv, NothingOutdatedRuns, Running
<1> QED
  BY <1>2, <1>3

\* A dependency changes: what was broken and is no longer is taken out.
LEMMA DependencyChanges ==
  ASSUME RevalidationInv, NEW k, NEW thing, Becomes(k, thing)
  PROVE  RevalidationInv'
<1>1. broken' = broken \intersect Unsound(dependency)' /\ UNCHANGED << protected, stage, checking >>
  BY DEF Becomes, Unsound, Sound
<1> QED
  BY <1>1 DEF RevalidationInv, NothingOutdatedRuns, StillToCheck

LEMMA RevalidationInvNext == RevalidationInv /\ [RevalidationNext]_revalidationVars => RevalidationInv'
<1> SUFFICES ASSUME RevalidationInv, [RevalidationNext]_revalidationVars PROVE RevalidationInv'
  OBVIOUS
<1>1. ASSUME UNCHANGED << dependency, protected, accepted, checking, broken >>,
             stage' = stage \/ stage' \notin Running
      PROVE  RevalidationInv'
  <2>1. Unsound(dependency)' = Unsound(dependency)
    BY <1>1 DEF Unsound, Sound
  <2> QED
    BY <1>1, <2>1 DEF RevalidationInv, NothingOutdatedRuns, StillToCheck, Running
<1>2. CASE AcceptNext \/ ResumeApproved
  <2>1. stage' \notin Running /\ UNCHANGED << protected, checking >>
    BY <1>2 DEF AcceptNext, ResumeApproved, Accepting, Running
  <2> QED
    BY <2>1 DEF RevalidationInv, NothingOutdatedRuns, Running
<1>3. CASE CreateDeployment \/ StageFails \/ RetryDeployment \/ UNCHANGED revalidationVars
  BY <1>1, <1>3 DEF CreateDeployment, StageFails, RetryDeployment, revalidationVars, Running
<1>4. CASE ClaimJob \/ BeforeApply
  BY <1>4, CheckBegins DEF ClaimJob, BeforeApply
<1>5. CASE CheckNext
  <2>1. CASE stage \in Running
    BY <1>5, <2>1, CheckNextKeeps
  <2>2. CASE stage \notin Running
    <3>1. stage' \notin Running /\ UNCHANGED protected /\ checking' \in Seq(Dependencies)
      <4>1. checking \in Seq(Dependencies) /\ checking # << >>
        BY <1>5 DEF CheckNext, RevalidationInv
      <4>2. Tail(checking) \in Seq(Dependencies) /\ << >> \in Seq(Dependencies)
        BY <4>1
      <4> QED
        BY <1>5, <2>2, <4>2 DEF CheckNext, Running
    <3> QED
      BY <3>1 DEF RevalidationInv, NothingOutdatedRuns, Running
  <2> QED
    BY <2>1, <2>2
<1>6. CASE Checked
  <2>1. broken = {} /\ stage' \in { "building", "applied" }
    BY <1>6 DEF Checked, RevalidationInv, StillToCheck
  <2>2. UNCHANGED << dependency, protected, accepted, checking, broken >>
    BY <1>6 DEF Checked
  <2> QED
    BY <2>1, <2>2 DEF RevalidationInv, NothingOutdatedRuns
<1>7. ASSUME NEW k \in Dependencies, Withdraw(k) \/ Restore(k) \/ Renew(k) PROVE RevalidationInv'
  BY <1>7, DependencyChanges DEF Withdraw, Restore, Renew
<1> QED
  BY <1>2, <1>3, <1>4, <1>5, <1>6, <1>7 DEF RevalidationNext

\* For any bounds on versions and jobs: nothing is built or rolled out when what
\* it depends on was broken before its check began (revalidateDeployment).
THEOREM NothingOutdatedIsRun == RevalidationSpec => []NothingOutdatedRuns
<1>1. RevalidationInv => NothingOutdatedRuns
  BY DEF RevalidationInv
<1> QED
  BY <1>1, RevalidationInvInit, RevalidationInvNext, PTL DEF RevalidationSpec

-----------------------------------------------------------------------------
\* The types of the revalidation, of which the invariant above keeps those of
\* checking and protected.
RevalidationTypeInv == RevalidationInv /\ RevalidationTypeOK

LEMMA RevalidationTypesStart == RevalidationInit => RevalidationTypeInv
<1> SUFFICES ASSUME RevalidationInit PROVE RevalidationTypeInv
  OBVIOUS
<1>1. claims \in 0 .. MaxClaims
  BY RevalidationAssumption DEF RevalidationInit
<1>2. dependency \in [ Dependencies -> [ usable : BOOLEAN, version : Nat ] ]
  BY DEF RevalidationInit
<1> QED
  BY <1>1, <1>2, RevalidationInvInit
  DEF RevalidationInit, RevalidationTypeInv, RevalidationTypeOK, RevalidationInv

LEMMA RevalidationTypesNext ==
  RevalidationTypeInv /\ [RevalidationNext]_revalidationVars => RevalidationTypeInv'
<1> SUFFICES ASSUME RevalidationTypeInv, [RevalidationNext]_revalidationVars PROVE RevalidationTypeInv'
  OBVIOUS
<1> DEFINE Stages == Dependencies \union { "new", "refused", "waiting", "queued", "claiming",
                                           "building", "authorizing", "applied", "failed" }
           Things == [ Dependencies -> [ usable : BOOLEAN, version : Nat ] ]
           Kept   == /\ dependency' \in Things /\ accepted' \in [ Dependencies -> Nat ] /\ stage' \in Stages
                     /\ claims' \in 0 .. MaxClaims /\ broken' \subseteq Dependencies
<1>a. RevalidationInv' /\ protected' \in BOOLEAN /\ checking' \in Seq(Dependencies)
  BY RevalidationInvNext DEF RevalidationTypeInv, RevalidationInv
<1>b. /\ dependency \in Things /\ accepted \in [ Dependencies -> Nat ] /\ stage \in Stages
      /\ claims \in 0 .. MaxClaims /\ broken \subseteq Dependencies /\ MaxClaims \in Nat
  BY RevalidationAssumption DEF RevalidationTypeInv, RevalidationTypeOK
<1>0. SUFFICES Kept
  BY <1>a DEF RevalidationTypeInv, RevalidationTypeOK
<1> HIDE DEF Things
<1>1. CASE UNCHANGED revalidationVars
  BY <1>b, <1>1 DEF revalidationVars
<1>2. CASE AcceptNext
  <2>1. Accepting[stage] \in Dependencies
    BY <1>2 DEF AcceptNext, Accepting, Dependencies
  <2>2. dependency[Accepting[stage]].version \in Nat
    BY <1>b, <2>1 DEF Things
  <2> QED
    BY <1>b, <1>2, <2>1, <2>2 DEF AcceptNext
<1>3. CASE CreateDeployment \/ Checked \/ StageFails \/ RetryDeployment
  BY <1>b, <1>3 DEF CreateDeployment, Checked, StageFails, RetryDeployment
<1>4. CASE ResumeApproved
  <2>1. "approval" \in Dependencies /\ dependency["approval"].version \in Nat
    BY <1>b DEF Dependencies, Things
  <2>2. [ dependency EXCEPT !["approval"].usable = TRUE ] \in Things
    BY <1>b, <2>1 DEF Things
  <2> QED
    BY <1>b, <1>4, <2>1, <2>2 DEF ResumeApproved
<1>5. CASE ClaimJob \/ BeforeApply
  BY <1>b, <1>5 DEF ClaimJob, BeforeApply, BeginCheck, Unsound
<1>6. CASE CheckNext
  BY <1>b, <1>6 DEF CheckNext
<1>7. ASSUME NEW k \in Dependencies, NEW thing \in [ usable : BOOLEAN, version : Nat ], Becomes(k, thing)
      PROVE  Kept
  <2>1. dependency' \in Things
    BY <1>b, <1>7 DEF Becomes, Things
  <2> QED
    BY <1>b, <1>7, <2>1 DEF Becomes
<1>8. ASSUME NEW k \in Dependencies, Withdraw(k) \/ Restore(k) \/ Renew(k)
      PROVE  Kept
  <2>1. dependency[k] \in [ usable : BOOLEAN, version : Nat ]
    BY <1>b DEF Things
  <2>2. PICK usable \in BOOLEAN : usable = (dependency[k].usable /\ k = "approval")
    OBVIOUS
  <2>3. PICK n \in Nat : n = dependency[k].version + 1
    BY <2>1
  <2>4. /\ [ dependency[k] EXCEPT !.usable = FALSE ] \in [ usable : BOOLEAN, version : Nat ]
        /\ [ dependency[k] EXCEPT !.usable = TRUE ] \in [ usable : BOOLEAN, version : Nat ]
        /\ [ dependency[k] EXCEPT !.version = n, !.usable = usable ] \in [ usable : BOOLEAN, version : Nat ]
    BY <2>1
  <2>5. \/ Becomes(k, [ dependency[k] EXCEPT !.usable = FALSE ])
        \/ Becomes(k, [ dependency[k] EXCEPT !.usable = TRUE ])
        \/ Becomes(k, [ dependency[k] EXCEPT !.version = n, !.usable = usable ])
    BY <1>8, <2>2, <2>3 DEF Withdraw, Restore, Renew
  <2> QED
    BY <1>7, <2>4, <2>5
<1> QED
  BY <1>1, <1>2, <1>3, <1>4, <1>5, <1>6, <1>8 DEF RevalidationNext

\* What a deployment depends on, its snapshot and its check keep their types
\* (revalidateDeployment).
THEOREM RevalidationTyped == RevalidationSpec => []RevalidationTypeOK
<1>1. RevalidationTypeInv => RevalidationTypeOK
  BY DEF RevalidationTypeInv
<1> QED
  BY <1>1, RevalidationTypesStart, RevalidationTypesNext, PTL DEF RevalidationSpec

=============================================================================

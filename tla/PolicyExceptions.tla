-------------------------- MODULE PolicyExceptions --------------------------
(***************************************************************************)
(* Exceptions from policies: requested, approved by somebody else, in      *)
(* force between two instants, revoked or expired.                         *)
(*                                                                         *)
(* The status in the row lags behind the clock: whoever reads an exception *)
(* refreshes it, in a transaction that saves the new status only over the  *)
(* version it read and reports an expiry.  A call is a read and a later    *)
(* commit; other calls and the clock come in between.                      *)
(***************************************************************************)
EXTENDS Integers, FiniteSets, Functions

CONSTANTS Members,          \* who asks for, approves and revokes exceptions
          ExceptionCalls,   \* calls under way at once
          Windows,          \* the <<startsAt, expiresAt>> that may be asked for
          MaxExceptionTime  \* bound: the clock

ASSUME ExceptionAssumption ==
    /\ MaxExceptionTime \in Nat /\ "none" \notin Members
    /\ \A w \in Windows : w[1] \in Nat /\ w[2] \in Nat /\ w[1] < w[2]

VARIABLES exception,   \* the row
          calls,       \* call -> what it read and is about to save
          instant,     \* the clock
          emitted,     \* how often the audit was told of an approval, a revocation, the expiry
          granted      \* history: what calls of applies() answered TRUE on

exceptionVars == <<exception, calls, instant, emitted, granted>>

ExceptionStatuses == {"pending", "approved", "active", "expired", "revoked"}
EndedStatuses == {"expired", "revoked"}
NoException == [status |-> "none", requester |-> "none", approver |-> "none",
                window |-> <<0, 0>>, version |-> 0]
IdleCall == [kind |-> "none", by |-> "none", read |-> NoException]

ExceptionInit ==
    /\ exception = NoException /\ instant = 0
    /\ calls = [c \in ExceptionCalls |-> IdleCall]
    /\ emitted = [action \in {"expired", "approved", "revoked"} |-> 0]
    /\ granted = {}

TimePasses ==
    /\ instant < MaxExceptionTime
    /\ instant' = instant + 1
    /\ UNCHANGED <<exception, calls, emitted, granted>>

RequestException(m, w) ==
    /\ exception = NoException
    /\ exception' = [status |-> "pending", requester |-> m, approver |-> "none",
                     window |-> w, version |-> 1]
    /\ UNCHANGED <<calls, instant, emitted, granted>>

-----------------------------------------------------------------------------
\* Mutant: only an exception in force expires.
StatusAtApproved(x, t) ==
    IF x.status = "active" /\ t >= x.window[2] THEN "expired"
    ELSE IF x.status = "approved" /\ t >= x.window[1] THEN "active"
    ELSE x.status

\* _refresh(): the status an exception has at time t
StatusAt(x, t) ==
    IF x.status \in {"active", "approved"} /\ t >= x.window[2] THEN "expired"
    ELSE IF x.status = "approved" /\ t >= x.window[1] THEN "active"
    ELSE x.status

Refreshed(x, t) ==
    IF StatusAt(x, t) = x.status THEN x
    ELSE [x EXCEPT !.status = StatusAt(x, t), !.version = x.version + 1]

\* approve() and revoke() on the refreshed row
MayApprove(m, x) == x.status = "pending" /\ m # x.requester
MayRevoke(x) == x.status \notin EndedStatuses

Approve(m, x, t) ==
    [x EXCEPT !.status = IF t < x.window[1] THEN "approved" ELSE "active",
              !.approver = m, !.version = x.version + 1]

Revoke(x) == [x EXCEPT !.status = "revoked", !.version = x.version + 1]

\* every call starts with a SELECT of the row
ReadException(c, kind, m) ==
    /\ calls[c].kind = "none" /\ exception # NoException
    /\ calls' = [calls EXCEPT ![c] = [kind |-> kind, by |-> m, read |-> exception]]
    /\ UNCHANGED <<exception, instant, emitted, granted>>

\* Mutant: whatever the version.
SaveAnyway(c) == TRUE

\* _save(): UPDATE ... WHERE version is the one read
SaveException(c) == exception.version = calls[c].read.version

Reports(from, to) ==
    (IF to.status = "expired" /\ from.status # "expired" THEN {"expired"} ELSE {})
    \cup (IF to.approver # from.approver THEN {"approved"} ELSE {})
    \cup (IF to.status = "revoked" THEN {"revoked"} ELSE {})

CommitException(c, x) ==
    /\ exception' = x
    /\ emitted' = [a \in DOMAIN emitted |->
                     emitted[a] + IF a \in Reports(calls[c].read, x) THEN 1 ELSE 0]

\* What a call makes of the row it read.  approve() throws on a row it may not
\* approve, after a refresh in the same transaction; so does revoke(); a read
\* alone keeps its refresh.
Outcome(q, t) ==
    LET now == Refreshed(q.read, t)
    IN CASE q.kind = "approve" ->
              IF MayApprove(q.by, now) THEN Refreshed(Approve(q.by, now, t), t) ELSE q.read
         [] q.kind = "revoke" -> IF MayRevoke(now) THEN Revoke(now) ELSE q.read
         [] OTHER -> now

\* the end of a call: its transaction commits all it saved, or, when the
\* version moved on, nothing
EndCall(c) ==
    LET q == calls[c]
        result == Outcome(q, instant)
    IN /\ q.kind # "none"
       /\ IF result = q.read
          THEN UNCHANGED <<exception, emitted>>
          ELSE IF SaveException(c) THEN CommitException(c, result)
          ELSE UNCHANGED <<exception, emitted>>
       /\ granted' = IF q.kind = "applies" /\ result.status = "active"
                        /\ (result = q.read \/ SaveException(c))
                     THEN granted \cup {[on |-> result, at |-> instant]}
                     ELSE granted
       /\ calls' = [calls EXCEPT ![c] = IdleCall]
       /\ UNCHANGED instant

ExceptionNext ==
    \/ TimePasses
    \/ \E m \in Members : \E w \in Windows : RequestException(m, w)
    \/ \E c \in ExceptionCalls : \E m \in Members :
         ReadException(c, "approve", m) \/ ReadException(c, "revoke", m) \/ ReadException(c, "applies", m)
    \/ \E c \in ExceptionCalls : EndCall(c)

ExceptionSpec == ExceptionInit /\ [][ExceptionNext]_exceptionVars

-----------------------------------------------------------------------------
ExceptionTypeOK ==
    LET Rows == [status : ExceptionStatuses, requester : Members, approver : Members \cup {"none"},
                 window : Windows, version : Nat] \cup {NoException}
    IN /\ exception \in Rows
       /\ calls \in [ExceptionCalls -> [kind : {"none", "approve", "revoke", "applies"},
                                        by : Members \cup {"none"}, read : Rows]]
       /\ instant \in 0..MaxExceptionTime
       /\ emitted \in [{"expired", "approved", "revoked"} -> Nat]
       /\ granted \subseteq [on : Rows, at : 0..MaxExceptionTime]

\* An exception answers for a deployment only in its window and once somebody
\* other than its requester approved it, whatever its row still said (applies).
InForce ==
    \A g \in granted :
      /\ g.on.approver \notin {"none", g.on.requester}
      /\ g.on.window[1] <= g.at /\ g.at < g.on.window[2]

\* The audit hears of an approval, a revocation and an expiry once each, and of
\* no end other than the one the exception had, though any number of readers
\* notice the expiry together (_refresh, _save).
ReportedOnce ==
    /\ \A a \in {"expired", "revoked"} :
         emitted[a] = IF exception.status = a THEN 1 ELSE 0
    /\ emitted["approved"] = IF exception.approver # "none" THEN 1 ELSE 0
=============================================================================

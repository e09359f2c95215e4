----------------------------- MODULE EventStream -----------------------------
(***************************************************************************)
(* The events of one deployment, from the row to the screen.               *)
(*                                                                         *)
(* A transition or a log line appends a row with the next sequence number  *)
(* (PostgresDeploymentStore._event).  The stream route polls the rows      *)
(* after its cursor and writes them as server-sent events, within a limit  *)
(* of open streams per user.  The dashboard's view (DeploymentLiveView)    *)
(* lists what it lacks over REST, follows a stream, lists again when it    *)
(* sees a hole, and stops once the deployment has ended.                   *)
(*                                                                         *)
(* Every append holds the lock of the deployment's row from its first      *)
(* statement to its commit, so an append is one step.  Rows are identified *)
(* by their sequence number.                                               *)
(***************************************************************************)
EXTENDS Integers, Sequences, FiniteSets

CONSTANTS StreamIds,        \* the connections the browser may open, each used once
          ChunkSizes,       \* the sizes of log chunks
          MaxLogBytes,      \* MAX_DEPLOYMENT_LOG_BYTES
          MaxStreams,       \* SSE_MAX_PER_USER
          PageSize,         \* rows of one history() call
          MaxEvents         \* bound: rows of the deployment

ASSUME StreamAssumption ==
    /\ MaxLogBytes \in Nat /\ MaxStreams \in Nat
    /\ PageSize \in Nat \ {0} /\ MaxEvents \in Nat \ {0}
    /\ ChunkSizes \subseteq Nat

VARIABLES events,    \* the kinds of the rows, in sequence order
          stored,    \* SUM(byte_size) of the deployment's log chunks
          ended,     \* the deployment's state is in the set of final states
          slots,     \* streams.get("u:<user>")
          conn,      \* connection -> the route's closure and what is on the wire
          view       \* the dashboard's component

streamVars == <<events, stored, ended, slots, conn, view>>

MarkerBytes == 36
\* the frames without a row
GapFrame == -1
CompleteFrame == 0
\* "waiting": the first row of a deployment that begins by waiting for approval
RowKinds == {"state", "waiting", "log", "truncated"}
RowNumbers == 1..MaxEvents

\* the rows after a cursor, oldest first, at most a page of them
HistoryPage(after) ==
    [i \in 1..(IF Len(events) < after + PageSize
               THEN (IF Len(events) < after THEN 0 ELSE Len(events) - after)
               ELSE PageSize) |-> after + i]

Unopened == [at |-> "unopened", closed |-> FALSE, first |-> TRUE, gone |-> FALSE,
             cursor |-> 0, batch |-> <<>>, wire |-> <<>>]

StreamInit ==
    /\ events \in {<<"state">>, <<"waiting">>} /\ stored = 0 /\ ended = FALSE /\ slots = 0
    /\ conn = [c \in StreamIds |-> Unopened]
    /\ view = [at |-> "reconcile", cursor |-> 0, shown |-> <<>>, back |-> "check",
               page |-> <<>>, conn |-> "none"]

-----------------------------------------------------------------------------
(* The rows.                                                               *)

AppendRow(kind) == Len(events) < MaxEvents /\ events' = Append(events, kind)

\* a transition; a retry leaves the final state again
RecordState ==
    /\ AppendRow("state")
    /\ ended' \in BOOLEAN
    /\ UNCHANGED <<stored, slots, conn, view>>

Truncated == \E i \in DOMAIN events : events[i] = "truncated"

AppendLog(bytes) ==
    /\ IF stored + bytes > MaxLogBytes
       THEN /\ ~Truncated
            /\ AppendRow("truncated")
            /\ stored' = stored + MarkerBytes
       ELSE /\ AppendRow("log")
            /\ stored' = stored + bytes
    /\ UNCHANGED <<ended, slots, conn, view>>

-----------------------------------------------------------------------------
(* The stream route.                                                       *)

\* the check of the limit and the increment run without an await between them
Opens(c) ==
    /\ slots < MaxStreams
    /\ slots' = slots + 1
    /\ conn' = [conn EXCEPT ![c] = [Unopened EXCEPT !.at = "reading", !.cursor = view.cursor]]

\* Mutants: every call counts down, without and with the floor of zero.
ClosedByEach(c, next) ==
    /\ slots' = slots - 1
    /\ conn' = [conn EXCEPT ![c] = [next EXCEPT !.closed = TRUE]]
ClosedByTwice(c, next) ==
    /\ slots' = IF slots > 0 THEN slots - 1 ELSE 0
    /\ conn' = [conn EXCEPT ![c] = [next EXCEPT !.closed = TRUE]]

\* close(): the flag makes the second call a no-op
ClosedBy(c, next) ==
    /\ slots' = IF conn[c].closed THEN slots
                ELSE IF slots > 0 THEN slots - 1 ELSE 0
    /\ conn' = [conn EXCEPT ![c] = [next EXCEPT !.closed = TRUE]]

ReadHistory(c) ==
    /\ conn[c].at = "reading"
    /\ conn' = [conn EXCEPT ![c].batch = HistoryPage(conn[c].cursor), ![c].at = "sending"]
    /\ UNCHANGED <<events, stored, ended, slots, view>>

\* a write to a connection that has been ended or that nobody reads is lost
Written(q, frames) == IF q.closed \/ q.gone THEN q.wire ELSE q.wire \o frames

\* response.write() of one row; FALSE makes the loop wait for "drain"
SendRow(c) ==
    /\ conn[c].at = "sending" /\ conn[c].batch # <<>>
    /\ LET q == conn[c]
           n == Head(q.batch)
           hole == IF n # q.cursor + 1 THEN <<GapFrame>> ELSE <<>>
       IN \E at \in {"sending", "draining"} :
            conn' = [conn EXCEPT ![c] =
                [q EXCEPT !.cursor = n, !.batch = Tail(@), !.at = at,
                          !.wire = Written(q, hole \o <<n>>)]]
    /\ UNCHANGED <<events, stored, ended, slots, view>>

Drain(c) ==
    /\ conn[c].at = "draining" /\ ~conn[c].gone
    /\ conn' = [conn EXCEPT ![c].at = "sending"]
    /\ UNCHANGED <<events, stored, ended, slots, view>>

\* Mutant: the stream of a deployment that has ended goes on.
EndPassOpen(c) ==
    /\ conn[c].at = "sending" /\ conn[c].batch = <<>>
    /\ conn' = [conn EXCEPT ![c].at = "waiting", ![c].first = FALSE]
    /\ UNCHANGED <<events, stored, ended, slots, view>>

\* the state is read after the rows were sent; the timers start after the first pass
EndPass(c) ==
    /\ conn[c].at = "sending" /\ conn[c].batch = <<>>
    /\ LET q == conn[c]
           idle == [q EXCEPT !.at = "waiting", !.first = FALSE]
       IN IF ended
          THEN ClosedBy(c, [idle EXCEPT !.wire = Written(q, <<CompleteFrame>>)])
          ELSE slots' = slots /\ conn' = [conn EXCEPT ![c] = idle]
    /\ UNCHANGED <<events, stored, ended, view>>

PollAgain(c) ==
    /\ conn[c].at = "waiting" /\ ~conn[c].closed
    /\ conn' = [conn EXCEPT ![c].at = "reading"]
    /\ UNCHANGED <<events, stored, ended, slots, view>>

\* an exception of the pass: access revoked, or the database out of reach
PassFails(c) ==
    /\ conn[c].at \in {"reading", "sending"}
    /\ ClosedBy(c, [conn[c] EXCEPT !.at = "waiting", !.first = FALSE, !.batch = <<>>])
    /\ UNCHANGED <<events, stored, ended, view>>

\* the "close" event of the request or the maximum duration: only listened to
\* once the first pass has returned
CloseByTimer(c) ==
    /\ conn[c].at # "unopened" /\ ~conn[c].first
    /\ ClosedBy(c, conn[c])
    /\ UNCHANGED <<events, stored, ended, view>>

-----------------------------------------------------------------------------
(* The dashboard's view.                                                   *)

\* The console's schema of states lacks waiting_for_approval, so a page with such
\* a row does not parse.
Parses(page) == \A i \in DOMAIN page : events[page[i]] # "waiting"

\* reconcile(): the rows it lists are read before it applies them, in their
\* order, without those that the cursor has passed
ListRows ==
    /\ view.at = "reconcile" /\ Parses(HistoryPage(view.cursor))
    /\ view' = [view EXCEPT !.page = HistoryPage(view.cursor), !.at = "apply"]
    /\ UNCHANGED <<events, stored, ended, slots, conn>>

LastOr(s, d) == IF s = <<>> THEN d ELSE s[Len(s)]

ApplyRows ==
    /\ view.at = "apply"
    /\ LET old == {i \in DOMAIN view.page : view.page[i] <= view.cursor}
           new == SubSeq(view.page, Cardinality(old) + 1, Len(view.page))
       IN view' = [view EXCEPT !.shown = @ \o new, !.cursor = LastOr(new, @),
                               !.page = <<>>, !.at = view.back, !.back = "check"]
    /\ UNCHANGED <<events, stored, ended, slots, conn>>

\* A page that does not parse, or a request that fails, throws away what the
\* view was doing, a stream that it was reading included: after a second it
\* starts over.
RestFails ==
    /\ view.at \in {"reconcile", "check"}
    /\ view' = [view EXCEPT !.at = "reconcile", !.back = "check"]
    /\ UNCHANGED <<events, stored, ended, slots, conn>>

CheckEnded ==
    /\ view.at = "check"
    /\ view' = [view EXCEPT !.at = IF ended THEN "complete" ELSE "connect"]
    /\ UNCHANGED <<events, stored, ended, slots, conn>>

Connect(c) ==
    /\ view.at = "connect" /\ conn[c].at = "unopened"
    /\ Opens(c)
    /\ view' = [view EXCEPT !.at = "live", !.conn = c]
    /\ UNCHANGED <<events, stored, ended>>

\* 429 for the limit of the user's or the organization's streams, or any other
\* failure of fetch(): start over after a second
ConnectFails ==
    /\ view.at = "connect"
    /\ view' = [view EXCEPT !.at = "reconcile"]
    /\ UNCHANGED <<events, stored, ended, slots, conn>>

\* back to the rows over REST, and then to the stream
Relisting(v) == [v EXCEPT !.at = "reconcile", !.back = "live"]

\* Mutant: every row is shown, also one that was listed before.
AfterFrameAny(f, again) ==
    IF f = CompleteFrame THEN view
    ELSE IF f = GapFrame THEN Relisting(view)
    ELSE LET seen == [view EXCEPT !.cursor = f, !.shown = Append(@, f)]
         IN IF again THEN Relisting(seen) ELSE seen

\* one frame: a hole is listed over REST, an old row is skipped.  A new row makes
\* the view list again if its state version is not behind the one that the view
\* has read, which nothing here tells: "again" is free.
AfterFrame(f, again) ==
    IF f = CompleteFrame THEN view
    ELSE IF f = GapFrame THEN Relisting(view)
    ELSE IF f <= view.cursor THEN view
    ELSE IF f # view.cursor + 1 THEN Relisting(view)
    ELSE LET seen == [view EXCEPT !.cursor = f, !.shown = Append(@, f)]
         IN IF again THEN Relisting(seen) ELSE seen

\* A waiting row never comes this way: it is the first, and the view connects
\* only after a listing, which from cursor 0 holds the first row.
ReadFrame ==
    /\ view.at = "live" /\ conn[view.conn].wire # <<>>
    /\ \E again \in BOOLEAN : view' = AfterFrame(Head(conn[view.conn].wire), again)
    /\ conn' = [conn EXCEPT ![view.conn].wire = Tail(@)]
    /\ UNCHANGED <<events, stored, ended, slots>>

StreamEnds ==
    /\ view.at = "live" /\ conn[view.conn].closed /\ conn[view.conn].wire = <<>>
    /\ view' = [view EXCEPT !.at = "reconcile"]
    /\ UNCHANGED <<events, stored, ended, slots, conn>>

\* the network drops the connection with what is on the wire
ConnectionLost ==
    /\ view.at = "live"
    /\ conn' = [conn EXCEPT ![view.conn].gone = TRUE, ![view.conn].wire = <<>>]
    /\ view' = [view EXCEPT !.at = "reconcile"]
    /\ UNCHANGED <<events, stored, ended, slots>>

-----------------------------------------------------------------------------
ServeStream(c) == ReadHistory(c) \/ SendRow(c) \/ Drain(c) \/ EndPass(c) \/ PollAgain(c)

Follow == \/ ListRows \/ ApplyRows \/ CheckEnded \/ ReadFrame \/ StreamEnds
          \/ (\E c \in StreamIds : Connect(c)) \/ ConnectFails

StreamNext ==
    \/ RecordState
    \/ \E b \in ChunkSizes : AppendLog(b)
    \/ \E c \in StreamIds : ServeStream(c) \/ PassFails(c) \/ CloseByTimer(c)
    \/ Follow
    \/ RestFails
    \/ ConnectionLost

\* Timers and pending requests of both processes run on.  Requests fail
\* now and then: one that is made again and again is answered in the end.
StreamFairness ==
    /\ \A c \in StreamIds : WF_streamVars(ServeStream(c))
    /\ WF_streamVars(Follow)
    /\ SF_streamVars(CheckEnded)

StreamSpec == StreamInit /\ [][StreamNext]_streamVars /\ StreamFairness

-----------------------------------------------------------------------------
StreamTypeOK ==
    /\ events \in Seq(RowKinds) /\ Len(events) <= MaxEvents
    /\ stored \in Nat /\ ended \in BOOLEAN /\ slots \in Nat
    /\ conn \in [StreamIds -> [at : {"unopened", "reading", "sending", "draining", "waiting"},
                               closed : BOOLEAN, first : BOOLEAN, gone : BOOLEAN,
                               cursor : Nat, batch : Seq(RowNumbers),
                               wire : Seq(RowNumbers \cup {GapFrame, CompleteFrame})]]
    /\ view \in [at : {"reconcile", "apply", "check", "connect", "live", "complete"},
                 cursor : Nat, shown : Seq(RowNumbers), back : {"check", "live"},
                 page : Seq(RowNumbers), conn : StreamIds \cup {"none"}]

\* What the dashboard shows is the rows 1, 2, ... up to its cursor, each once
\* and in order, across listings, streams, lost connections and reconnections
\* (deployment-live-view.tsx, server.js stream route).
ShownInOrder == view.shown = [i \in 1..view.cursor |-> i] /\ view.cursor <= Len(events)

\* The count of a user's streams is the number of connections that have not
\* been closed, however a connection ends (server.js close()).
SlotsCounted ==
    slots = Cardinality({c \in StreamIds : conn[c].at # "unopened" /\ ~conn[c].closed})

\* Once the deployment stays in a final state, the dashboard stops following it:
\* no failed request and no refused, lost or stuck stream keeps it waiting
\* (deployment-live-view.tsx).  Not so for a deployment that began by waiting for
\* approval: no listing of it parses, and its view starts over every second.
ViewerStops == (<>[]ended) => (events[1] = "waiting" \/ <>(view.at = "complete"))
=============================================================================

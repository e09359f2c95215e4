------------------------------ MODULE LogProofs ------------------------------
(***************************************************************************)
(* Proofs about what is written once and read by others: the drafts of a   *)
(* configuration, the events of a deployment on their way to the screen,   *)
(* and the hash chain of the audit.                                        *)
(***************************************************************************)
EXTENDS AuditChain, EventStream, Drafts, SequenceTheorems, FiniteSetTheorems, TLAPS

(***************************************************************************)
(* Drafts. A page carries a version that it has read or written, and so do *)
(* the saves it has under way; a save that is accepted carries the one of  *)
(* the draft it replaces.                                                  *)
(***************************************************************************)
DraftInv ==
  /\ DraftTypeOK
  /\ \A p \in Pages : pages[p].version \in seen[p]
  /\ \A q \in saves : q.version \in seen[q.page]
  /\ overwrites = {}

DraftPage == [ version : Versions, content : Contents, edits : 0..MaxEdits,
               loaded : BOOLEAN, dirty : BOOLEAN ]

LEMMA DraftStarts == DraftInit => DraftInv
<1> SUFFICES ASSUME DraftInit PROVE DraftInv
  OBVIOUS
<1>1. NoContent \in Contents /\ 0 \in Versions /\ 0 \in 0..MaxEdits
  BY DraftAssumption DEF Contents, Versions
<1>2. DraftTypeOK
  BY <1>1 DEF DraftInit, DraftTypeOK
<1> QED
  BY <1>2 DEF DraftInit, DraftInv

\* What a page does by itself.
LEMMA PageSteps ==
  ASSUME DraftInv, NEW p \in Pages, RecoverDraft(p) \/ EditDraft(p) \/ Autosave(p)
  PROVE  DraftInv'
<1>a. /\ DraftTypeOK /\ 0 \in Versions
      /\ \A u \in Pages : pages[u].version \in seen[u]
      /\ \A q \in saves : q.version \in seen[q.page] /\ q.page \in Pages
      /\ overwrites = {}
  BY DraftAssumption DEF DraftInv, DraftTypeOK, Versions
<1>b. /\ draft.version \in Versions /\ draft.content \in Contents
      /\ pages \in [ Pages -> DraftPage ]
      /\ seen \in [ Pages -> SUBSET Versions ]
  BY <1>a DEF DraftTypeOK, DraftPage
<1>c. pages[p] \in DraftPage
  BY <1>b
<1>1. CASE RecoverDraft(p)
  <2>1. PICK r \in DraftPage : /\ pages' = [ pages EXCEPT ![p] = r ]
                               /\ r.version \in { pages[p].version, draft.version }
    <3>1. CASE draft.version = 0
      <4> DEFINE r == [ pages[p] EXCEPT !.loaded = TRUE ]
      <4>1. r \in DraftPage /\ r.version = pages[p].version
        BY <1>c DEF DraftPage
      <4>2. pages' = [ pages EXCEPT ![p] = r ]
        BY <1>1, <3>1 DEF RecoverDraft
      <4> QED
        BY <4>1, <4>2
    <3>2. CASE draft.version # 0
      <4> DEFINE r == [ pages[p] EXCEPT !.loaded = TRUE, !.dirty = TRUE,
                                        !.version = draft.version, !.content = draft.content ]
      <4>1. r \in DraftPage /\ r.version = draft.version
        BY <1>b, <1>c DEF DraftPage
      <4>2. pages' = [ pages EXCEPT ![p] = r ]
        BY <1>1, <3>2 DEF RecoverDraft
      <4> QED
        BY <4>1, <4>2
    <3> QED
      BY <3>1, <3>2
  <2>2. seen' = [ seen EXCEPT ![p] = @ \union { draft.version } ]
    BY <1>1 DEF RecoverDraft
  <2>3. \A u \in Pages : seen[u] \subseteq seen'[u] /\ pages'[u].version \in seen'[u]
    <3>1. seen'[p] = seen[p] \union { draft.version } /\ pages'[p] = r
      BY <1>b, <2>1, <2>2
    <3>2. \A u \in Pages \ { p } : seen'[u] = seen[u] /\ pages'[u] = pages[u]
      BY <1>b, <2>1, <2>2
    <3>3. r.version \in seen'[p]
      BY <1>a, <2>1, <3>1
    <3> QED
      BY <1>a, <3>1, <3>2, <3>3
  <2>4. DraftTypeOK'
    <3>1. pages' \in [ Pages -> DraftPage ] /\ seen' \in [ Pages -> SUBSET Versions ]
      BY <1>b, <2>1, <2>2
    <3> QED
      BY <1>a, <1>1, <3>1 DEF DraftTypeOK, RecoverDraft, DraftPage
  <2> QED
    BY <1>a, <1>1, <2>3, <2>4 DEF DraftInv, RecoverDraft
<1>2. CASE EditDraft(p)
  <2> DEFINE content == [ page |-> p, edit |-> pages[p].edits + 1 ]
             r == [ pages[p] EXCEPT !.edits = @ + 1, !.dirty = TRUE, !.content = content ]
  <2>1. content \in Contents /\ pages[p].edits + 1 \in 0..MaxEdits
    BY <1>c, <1>2, DraftAssumption DEF EditDraft, Contents, DraftPage
  <2>2. r \in DraftPage /\ r.version = pages[p].version
    BY <1>c, <2>1 DEF DraftPage
  <2>3. pages' = [ pages EXCEPT ![p] = r ]
    BY <1>b, <1>2 DEF EditDraft
  <2>4. pages' \in [ Pages -> DraftPage ] /\ \A u \in Pages : pages'[u].version = pages[u].version
    BY <1>b, <2>2, <2>3
  <2>5. DraftTypeOK'
    BY <1>a, <1>2, <2>4 DEF DraftTypeOK, EditDraft, DraftPage
  <2> QED
    BY <1>a, <1>2, <2>4, <2>5 DEF DraftInv, EditDraft
<1>3. CASE Autosave(p)
  <2> DEFINE q == [ page |-> p, version |-> pages[p].version,
                    content |-> pages[p].content, answer |-> "none" ]
             r == [ pages[p] EXCEPT !.dirty = FALSE ]
  <2>1. saves' = saves \union { q }
    BY <1>3 DEF Autosave
  <2>2. r \in DraftPage /\ r.version = pages[p].version
    BY <1>c DEF DraftPage
  <2>3. pages' = [ pages EXCEPT ![p] = r ]
    BY <1>3 DEF Autosave
  <2>4. pages' \in [ Pages -> DraftPage ] /\ \A u \in Pages : pages'[u].version = pages[u].version
    BY <1>b, <2>2, <2>3
  <2>5. /\ q \in [ page : Pages, version : Versions, content : Contents,
                   answer : { "none", "saved", "conflict" } ]
        /\ q.version \in seen[q.page]
    BY <1>a, <1>c DEF DraftPage
  <2>6. DraftTypeOK'
    BY <1>a, <1>3, <2>1, <2>4, <2>5 DEF DraftTypeOK, Autosave, DraftPage
  <2> QED
    BY <1>a, <1>3, <2>1, <2>4, <2>5, <2>6 DEF DraftInv, Autosave
<1> QED
  BY <1>1, <1>2, <1>3

\* What happens to a save: the store takes or refuses it, the page hears of it.
LEMMA SaveSteps ==
  ASSUME DraftInv, NEW q \in saves, SaveDraft(q) \/ Answered(q)
  PROVE  DraftInv'
<1>a. /\ DraftTypeOK
      /\ \A u \in Pages : pages[u].version \in seen[u]
      /\ \A x \in saves : x.version \in seen[x.page] /\ x.page \in Pages
      /\ overwrites = {}
  BY DEF DraftInv, DraftTypeOK
<1>b. /\ draft.version \in Versions
      /\ q \in [ page : Pages, version : Versions, content : Contents,
                 answer : { "none", "saved", "conflict" } ]
      /\ pages \in [ Pages -> DraftPage ]
      /\ seen \in [ Pages -> SUBSET Versions ]
  BY <1>a DEF DraftTypeOK, DraftPage
<1>1. CASE SaveDraft(q) /\ Accepts(q.version)
  <2>1. q.version = draft.version /\ draft.version + 1 \in Versions
    BY <1>b, <1>1, DraftAssumption DEF SaveDraft, Accepts, Versions
  <2>2. overwrites' = {}
    BY <1>a, <1>1, <2>1 DEF SaveDraft
  <2>3. PICK x : /\ saves' = (saves \ { q }) \union { x }
                 /\ x = [ q EXCEPT !.answer = "saved", !.version = draft.version + 1 ]
    BY <1>1 DEF SaveDraft
  <2>4. /\ draft' = [ version |-> draft.version + 1, content |-> q.content ]
        /\ seen' = [ seen EXCEPT ![q.page] = @ \union { draft.version + 1 } ]
        /\ UNCHANGED << pages, refusals >>
    BY <1>1 DEF SaveDraft
  <2>5. /\ \A u \in Pages : seen[u] \subseteq seen'[u]
        /\ x.version \in seen'[x.page] /\ x.page = q.page
    BY <1>b, <2>3, <2>4
  <2>6. DraftTypeOK'
    BY <1>a, <1>b, <2>1, <2>2, <2>3, <2>4 DEF DraftTypeOK
  <2> QED
    BY <1>a, <2>2, <2>3, <2>4, <2>5, <2>6 DEF DraftInv
<1>2. CASE SaveDraft(q) /\ ~Accepts(q.version)
  <2>1. PICK x : /\ saves' = (saves \ { q }) \union { x }
                 /\ x = [ q EXCEPT !.answer = "conflict" ]
    BY <1>2 DEF SaveDraft
  <2>2. DraftTypeOK'
    BY <1>a, <1>b, <1>2, <2>1 DEF DraftTypeOK, SaveDraft
  <2> QED
    BY <1>a, <1>b, <1>2, <2>1, <2>2 DEF DraftInv, SaveDraft
<1>3. CASE Answered(q)
  <2>1. saves' = saves \ { q } /\ UNCHANGED << draft, seen, refusals, overwrites >>
    BY <1>3 DEF Answered
  <2>2. /\ pages' \in [ Pages -> DraftPage ]
        /\ \A u \in Pages : pages'[u].version \in seen[u]
    <3>1. CASE pages' = pages
      BY <1>a, <1>b, <3>1
    <3>2. CASE pages' # pages
      <4> DEFINE r == [ pages[q.page] EXCEPT !.version = q.version, !.dirty = TRUE ]
      <4>1. r \in DraftPage /\ r.version = q.version
        BY <1>b DEF DraftPage
      <4>2. pages' = [ pages EXCEPT ![q.page] = r ]
        BY <1>b, <1>3, <3>2 DEF Answered
      <4>3. q.version \in seen[q.page]
        BY <1>a
      <4> QED
        BY <1>a, <1>b, <4>1, <4>2, <4>3
    <3> QED
      BY <3>1, <3>2
  <2>3. DraftTypeOK'
    BY <1>a, <2>1, <2>2 DEF DraftTypeOK, DraftPage
  <2> QED
    BY <1>a, <2>1, <2>2, <2>3 DEF DraftInv
<1> QED
  BY <1>1, <1>2, <1>3

LEMMA DraftSteps == DraftInv /\ [DraftNext]_draftVars => DraftInv'
<1> SUFFICES ASSUME DraftInv, [DraftNext]_draftVars PROVE DraftInv'
  OBVIOUS
<1>1. CASE UNCHANGED draftVars
  BY <1>1 DEF draftVars, DraftInv, DraftTypeOK
<1> QED
  BY <1>1, PageSteps, SaveSteps DEF DraftNext

\* For any number of pages and both stores: a save that is accepted replaces
\* no draft that its page had not seen.
THEOREM NothingIsOverwritten == DraftSpec => []NothingOverwritten
<1>1. DraftInv => NothingOverwritten
  BY DEF DraftInv, NothingOverwritten
<1> QED
  BY <1>1, DraftStarts, DraftSteps, PTL DEF DraftSpec

\* The draft, the pages and the saves under way keep their types, for any pages,
\* contents and bounds, and in either store.
THEOREM DraftsTyped == DraftSpec => []DraftTypeOK
<1>1. DraftInv => DraftTypeOK
  BY DEF DraftInv
<1> QED
  BY <1>1, DraftStarts, DraftSteps, PTL DEF DraftSpec

-----------------------------------------------------------------------------
(***************************************************************************)
(* The events of a deployment. What a stream sends and the view lists are  *)
(* rows that exist; a listing begins with the row after the cursor and has *)
(* no hole, and from a stream the view takes nothing else than that row.   *)
(***************************************************************************)
OpenStreams == { c \in StreamIds : conn[c].at # "unopened" /\ ~conn[c].closed }

\* A connection whose frames are of n rows.
Connection(n) ==
  [ at : { "unopened", "reading", "sending", "draining", "waiting" },
    closed : BOOLEAN, first : BOOLEAN, gone : BOOLEAN,
    cursor : Nat, batch : Seq(1..n), wire : Seq(-1..n) ]

OpenInv ==
  /\ events \in Seq(RowKinds)
  /\ conn \in [ StreamIds -> Connection(Len(events)) ]
  /\ IsFiniteSet(OpenStreams) /\ slots = Cardinality(OpenStreams)

\* The rows 1 to n, and those after the row k.
UpTo(n) == [ i \in 1..n |-> i ]
From(k, n) == [ i \in 1..n |-> k + i ]

\* A view whose stream is one of the browser's once it reads from it.
ViewOK(v) ==
  /\ v \in [ at : { "reconcile", "apply", "check", "connect", "live", "complete" },
             cursor : 0..Len(events), shown : { UpTo(v.cursor) }, back : { "check", "live" },
             page : { From(v.cursor, n) : n \in 0..(Len(events) - v.cursor) } \union { << >> },
             conn : StreamIds \union { "none" } ]
  /\ v.at # "apply" => v.page = << >>
  /\ v.at = "live" \/ v.back = "live" => v.conn \in StreamIds

ViewInv == ViewOK(view)

StreamInv == OpenInv /\ ViewInv

LEMMA SeqOf ==
  ASSUME NEW S, NEW n \in Nat, NEW s \in [ 1..n -> S ]
  PROVE  s \in Seq(S) /\ Len(s) = n
  OBVIOUS

\* The rows after a cursor.
LEMMA PageRows ==
  ASSUME OpenInv, NEW k \in Nat
  PROVE  /\ Len(events) \in Nat
         /\ HistoryPage(k) \in Seq(1..Len(events))
         /\ k <= Len(events) => \E n \in 0..(Len(events) - k) : HistoryPage(k) = From(k, n)
<1>1. Len(events) \in Nat /\ PageSize \in Nat
  BY StreamAssumption DEF OpenInv
<1> DEFINE n == IF Len(events) < k + PageSize
                THEN (IF Len(events) < k THEN 0 ELSE Len(events) - k)
                ELSE PageSize
<1>2. n \in Nat /\ HistoryPage(k) = From(k, n) /\ (n = 0 \/ k + n <= Len(events))
  BY <1>1 DEF HistoryPage, From
<1>3. From(k, n) \in [ 1..n -> 1..Len(events) ]
  BY <1>1, <1>2 DEF From
<1>4. HistoryPage(k) \in Seq(1..Len(events))
  BY <1>2, <1>3, SeqOf
<1>5. k <= Len(events) => n \in 0..(Len(events) - k)
  BY <1>1, <1>2
<1> QED
  BY <1>1, <1>2, <1>4, <1>5

LEMMA StreamStarts == StreamInit => StreamInv
<1> SUFFICES ASSUME StreamInit PROVE StreamInv
  OBVIOUS
<1>1. events \in Seq(RowKinds) /\ Len(events) = 1
  <2>1. \E kind \in RowKinds : events = << kind >>
    BY DEF StreamInit, RowKinds
  <2> QED BY <2>1
<1>2. Unopened \in Connection(1)
  BY DEF Unopened, Connection
<1>3. OpenStreams = {}
  BY DEF StreamInit, OpenStreams, Unopened
<1>4. OpenInv
  BY <1>1, <1>2, <1>3, FS_EmptySet DEF OpenInv, StreamInit
<1>5. ViewInv
  <2>1. view.cursor = 0 /\ UpTo(0) = << >>
    BY DEF StreamInit, UpTo
  <2> QED
    BY <1>1, <2>1 DEF StreamInit, ViewInv, ViewOK
<1> QED
  BY <1>4, <1>5 DEF StreamInv

\* A connection that goes on, closed or not as before.
LEMMA GoesOnOpen ==
  ASSUME OpenInv, NEW c \in StreamIds, NEW q \in Connection(Len(events)),
         conn' = [ conn EXCEPT ![c] = q ],
         q.at = "unopened" <=> conn[c].at = "unopened", q.closed = conn[c].closed,
         UNCHANGED << events, slots >>
  PROVE  OpenInv'
<1>1. conn' \in [ StreamIds -> Connection(Len(events)) ]
  BY DEF OpenInv
<1>2. OpenStreams' = OpenStreams
  BY DEF OpenInv, OpenStreams
<1> QED
  BY <1>1, <1>2 DEF OpenInv

\* A connection that is closed, for the first time or again.
LEMMA Closes ==
  ASSUME OpenInv, NEW c \in StreamIds, NEW next \in Connection(Len(events)),
         ClosedBy(c, next), conn[c].at # "unopened",
         UNCHANGED events
  PROVE  OpenInv'
<1> DEFINE q == [ next EXCEPT !.closed = TRUE ]
<1>1. q \in Connection(Len(events)) /\ q.closed = TRUE
  BY DEF Connection
<1>2. conn' = [ conn EXCEPT ![c] = q ]
  BY DEF ClosedBy
<1>3. conn' \in [ StreamIds -> Connection(Len(events)) ]
  BY <1>1, <1>2 DEF OpenInv
<1>4. OpenStreams' = OpenStreams \ { c }
  BY <1>1, <1>2 DEF OpenInv, OpenStreams
<1>5. (c \in OpenStreams) = ~conn[c].closed
  BY DEF OpenStreams, OpenInv, Connection
<1>6. Cardinality(OpenStreams) \in Nat
  BY FS_CardinalityType DEF OpenInv
<1>7. c \in OpenStreams => Cardinality(OpenStreams) > 0
  BY <1>6, FS_EmptySet DEF OpenInv
<1>8. IsFiniteSet(OpenStreams') /\ slots' = Cardinality(OpenStreams')
  BY <1>4, <1>5, <1>6, <1>7, FS_RemoveElement DEF OpenInv, ClosedBy
<1> QED
  BY <1>3, <1>8 DEF OpenInv

\* A connection that is opened is one more.
LEMMA Connects ==
  ASSUME OpenInv, NEW c \in StreamIds, conn[c].at = "unopened", Opens(c), UNCHANGED events,
         view.cursor \in Nat
  PROVE  OpenInv'
<1> DEFINE q == [ Unopened EXCEPT !.at = "reading", !.cursor = view.cursor ]
<1>0. Len(events) \in Nat /\ Unopened \in Connection(Len(events))
  BY DEF Connection, Unopened, OpenInv
<1>1. q \in Connection(Len(events)) /\ q.closed = FALSE /\ q.at = "reading"
  <2>1. Unopened.closed = FALSE
    BY DEF Unopened
  <2> QED
    BY <1>0, <2>1 DEF Connection
<1>2. conn' = [ conn EXCEPT ![c] = q ]
  BY DEF Opens
<1>3. conn' \in [ StreamIds -> Connection(Len(events)) ]
  BY <1>1, <1>2 DEF OpenInv
<1>4. OpenStreams' = OpenStreams \union { c } /\ c \notin OpenStreams
  BY <1>1, <1>2 DEF OpenInv, OpenStreams
<1> QED
  BY <1>3, <1>4, FS_AddElement DEF OpenInv, Opens

\* A new row changes nothing that was read.
LEMMA RowsGrow ==
  ASSUME StreamInv, NEW kind \in RowKinds, AppendRow(kind), UNCHANGED << slots, conn, view >>
  PROVE  StreamInv'
<1>1. /\ Len(events) \in Nat
      /\ events' \in Seq(RowKinds) /\ Len(events') = Len(events) + 1
  BY DEF StreamInv, OpenInv, AppendRow
<1>2. Connection(Len(events)) \subseteq Connection(Len(events'))
  <2>1. /\ 1..Len(events) \subseteq 1..Len(events')
        /\ -1..Len(events) \subseteq -1..Len(events')
    BY <1>1
  <2>2. /\ Seq(1..Len(events)) \subseteq Seq(1..Len(events'))
        /\ Seq(-1..Len(events)) \subseteq Seq(-1..Len(events'))
    BY <2>1, SeqMonotonic
  <2> QED
    BY <2>2 DEF Connection
<1>3. OpenInv'
  BY <1>1, <1>2 DEF StreamInv, OpenInv, OpenStreams
<1>4. ViewInv'
  <2>1. 0..Len(events) \subseteq 0..Len(events')
    BY <1>1
  <2>2. view.cursor \in 0..Len(events)
    BY DEF StreamInv, ViewInv, ViewOK
  <2>3. 0..(Len(events) - view.cursor) \subseteq 0..(Len(events') - view.cursor)
    BY <1>1, <2>2
  <2> QED
    BY <2>1, <2>3 DEF StreamInv, ViewInv, ViewOK
<1> QED
  BY <1>3, <1>4 DEF StreamInv

\* The frames of a row, and what a write leaves on the wire.
LEMMA Writes ==
  ASSUME OpenInv, NEW q \in Connection(Len(events)), NEW frames \in Seq(-1..Len(events))
  PROVE  Written(q, frames) \in Seq(-1..Len(events))
<1>1. q.wire \in Seq(-1..Len(events))
  BY DEF Connection
<1> QED
  BY <1>1, ConcatProperties DEF Written

\* What the server does with a connection.
LEMMA ServerSteps ==
  ASSUME StreamInv, NEW c \in StreamIds, ServeStream(c) \/ PassFails(c) \/ CloseByTimer(c)
  PROVE  OpenInv'
<1> DEFINE q == conn[c]
           L == Len(events)
<1>a. /\ OpenInv /\ q \in Connection(L) /\ L \in Nat
      /\ UNCHANGED events
  BY DEF StreamInv, OpenInv, ServeStream, PassFails, CloseByTimer, ReadHistory, SendRow, Drain,
         EndPass, PollAgain
<1>b. /\ q.batch \in Seq(1..L) /\ q.wire \in Seq(-1..L) /\ q.cursor \in Nat
  BY <1>a DEF Connection
<1>1. CASE ReadHistory(c)
  <2> DEFINE r == [ q EXCEPT !.batch = HistoryPage(q.cursor), !.at = "sending" ]
  <2>1. HistoryPage(q.cursor) \in Seq(1..L)
    BY <1>a, <1>b, PageRows
  <2>2. r \in Connection(L) /\ r.closed = q.closed /\ r.at = "sending"
    BY <1>a, <2>1 DEF Connection
  <2>3. conn' = [ conn EXCEPT ![c] = r ] /\ q.at = "reading" /\ UNCHANGED << events, slots >>
    BY <1>1 DEF ReadHistory
  <2> QED
    BY <1>a, <2>2, <2>3, GoesOnOpen
<1>2. CASE SendRow(c)
  <2> DEFINE n == Head(q.batch)
             hole == IF n # q.cursor + 1 THEN << GapFrame >> ELSE << >>
             wire == Written(q, hole \o << n >>)
  <2>1. PICK at \in { "sending", "draining" } :
          conn' = [ conn EXCEPT ![c] = [ q EXCEPT !.cursor = n, !.batch = Tail(@), !.at = at,
                                                   !.wire = wire ] ]
    BY <1>2 DEF SendRow
  <2> DEFINE r == [ q EXCEPT !.cursor = n, !.batch = Tail(@), !.at = at, !.wire = wire ]
  <2>2. n \in 1..L /\ Tail(q.batch) \in Seq(1..L)
    BY <1>b, <1>2, HeadTailProperties DEF SendRow
  <2>3. hole \in Seq(-1..L) /\ << n >> \in Seq(-1..L)
    <3>1. GapFrame \in -1..L /\ n \in -1..L
      BY <1>a, <2>2 DEF GapFrame
    <3>2. << GapFrame >> \in Seq(-1..L) /\ << n >> \in Seq(-1..L) /\ << >> \in Seq(-1..L)
      BY <3>1
    <3> QED
      BY <3>2
  <2>4. hole \o << n >> \in Seq(-1..L)
    BY <2>3, ConcatProperties
  <2>5. wire \in Seq(-1..L)
    BY <1>a, <2>4, Writes
  <2> HIDE DEF wire, hole
  <2>6. r \in Connection(L) /\ r.closed = q.closed /\ r.at = at
    <3>1. ASSUME NEW b \in Seq(1..L), NEW k \in Nat, NEW w \in Seq(-1..L)
          PROVE  LET x == [ q EXCEPT !.cursor = k, !.batch = b, !.at = at, !.wire = w ]
                 IN  x \in Connection(L) /\ x.closed = q.closed /\ x.at = at
      BY <1>a DEF Connection
    <3>2. n \in Nat
      BY <1>a, <2>2
    <3> QED
      BY <2>2, <2>5, <3>1, <3>2
  <2> QED
    BY <1>a, <1>2, <2>1, <2>6, GoesOnOpen DEF SendRow
<1>3. CASE Drain(c) \/ PollAgain(c)
  <2>1. PICK at \in { "sending", "reading" } : conn' = [ conn EXCEPT ![c] = [ q EXCEPT !.at = at ] ]
    BY <1>3 DEF Drain, PollAgain
  <2>2. [ q EXCEPT !.at = at ] \in Connection(L) /\ [ q EXCEPT !.at = at ].closed = q.closed
        /\ [ q EXCEPT !.at = at ].at = at
    BY <1>a DEF Connection
  <2> QED
    BY <1>a, <1>3, <2>1, <2>2, GoesOnOpen DEF Drain, PollAgain
<1>4. CASE EndPass(c)
  <2> DEFINE idle == [ q EXCEPT !.at = "waiting", !.first = FALSE ]
             wire == Written(q, << CompleteFrame >>)
  <2>1. idle \in Connection(L) /\ idle.closed = q.closed /\ idle.at = "waiting"
    BY <1>a DEF Connection
  <2>2. CASE ended
    <3>1. << CompleteFrame >> \in Seq(-1..L)
      <4>1. CompleteFrame \in -1..L
        BY <1>a DEF CompleteFrame
      <4> QED
        BY <4>1
    <3>2. wire \in Seq(-1..L)
      BY <1>a, <3>1, Writes
    <3> HIDE DEF wire
    <3>3. [ idle EXCEPT !.wire = wire ] \in Connection(L)
      BY <2>1, <3>2 DEF Connection
    <3>4. ClosedBy(c, [ idle EXCEPT !.wire = wire ]) /\ q.at = "sending"
      BY <1>4, <2>2 DEF EndPass, wire
    <3> QED
      BY <1>a, <3>3, <3>4, Closes
  <2>3. CASE ~ended
    <3>1. slots' = slots /\ conn' = [ conn EXCEPT ![c] = idle ] /\ q.at = "sending"
      BY <1>4, <2>3 DEF EndPass
    <3> QED
      BY <1>a, <2>1, <3>1, GoesOnOpen
  <2> QED
    BY <2>2, <2>3
<1>5. CASE PassFails(c)
  <2> DEFINE r == [ q EXCEPT !.at = "waiting", !.first = FALSE, !.batch = << >> ]
  <2>1. r \in Connection(L)
    BY <1>a, EmptySeq DEF Connection
  <2>2. ClosedBy(c, r) /\ q.at # "unopened"
    BY <1>5 DEF PassFails
  <2> QED
    BY <1>a, <2>1, <2>2, Closes
<1>6. CASE CloseByTimer(c)
  BY <1>a, <1>6, Closes DEF CloseByTimer
<1> QED
  BY <1>1, <1>2, <1>3, <1>4, <1>5, <1>6 DEF ServeStream

\* Only rows and their lists concern the view.
LEMMA ViewStays ==
  ASSUME ViewInv, UNCHANGED << view, events >>
  PROVE  ViewInv'
  BY DEF ViewInv, ViewOK

\* The fields of a view.
LEMMA ViewFields ==
  ASSUME StreamInv
  PROVE  /\ Len(events) \in Nat /\ view.cursor \in 0..Len(events)
         /\ view.shown = UpTo(view.cursor)
         /\ view = [ at |-> view.at, cursor |-> view.cursor, shown |-> view.shown,
                     back |-> view.back, page |-> view.page, conn |-> view.conn ]
  BY DEF StreamInv, OpenInv, ViewInv, ViewOK

\* A listing, one that fails, and the way to a stream.
LEMMA ViewerSteps ==
  ASSUME StreamInv, ListRows \/ CheckEnded \/ ConnectFails \/ StreamEnds \/ RestFails
  PROVE  ViewInv'
<1>a. /\ ViewOK(view) /\ OpenInv /\ Len(events) \in Nat /\ view.cursor \in 0..Len(events)
      /\ UNCHANGED events
  BY ViewFields DEF StreamInv, ViewInv, ListRows, CheckEnded, ConnectFails, StreamEnds, RestFails
<1>1. CASE ListRows
  <2>1. PICK n \in 0..(Len(events) - view.cursor) : HistoryPage(view.cursor) = From(view.cursor, n)
    <3>1. view.cursor \in Nat /\ view.cursor <= Len(events)
      BY <1>a
    <3> QED
      BY <1>a, <3>1, PageRows
  <2>2. view' = [ view EXCEPT !.page = From(view.cursor, n), !.at = "apply" ]
    BY <1>1, <2>1 DEF ListRows
  <2> QED
    BY <1>a, <2>2 DEF ViewInv, ViewOK
<1>2. CASE CheckEnded \/ ConnectFails \/ StreamEnds
  <2>1. /\ view.at # "apply"
        /\ \E at \in { "complete", "connect", "reconcile" } : view' = [ view EXCEPT !.at = at ]
    BY <1>2 DEF CheckEnded, ConnectFails, StreamEnds
  <2> QED
    BY <1>a, <2>1 DEF ViewInv, ViewOK
<1>3. CASE RestFails
  <2>1. /\ view.at # "apply"
        /\ view' = [ view EXCEPT !.at = "reconcile", !.back = "check" ]
    BY <1>3 DEF RestFails
  <2> QED
    BY <1>a, <2>1 DEF ViewInv, ViewOK
<1> QED
  BY <1>1, <1>2, <1>3

\* Rows in their places.
LEMMA UpToFrom ==
  ASSUME NEW k \in Nat, NEW n \in Nat
  PROVE  /\ UpTo(k) \o From(k, n) = UpTo(k + n)
         /\ Len(From(k, n)) = n
         /\ n > 0 => From(k, n) # << >> /\ From(k, n)[n] = k + n
         /\ Append(UpTo(k), k + 1) = UpTo(k + 1)
<1>1. UpTo(k) \in Seq(Nat) /\ Len(UpTo(k)) = k
  <2>1. UpTo(k) \in [ 1..k -> Nat ]
    BY DEF UpTo
  <2> QED
    BY <2>1, SeqOf
<1>2. From(k, n) \in Seq(Nat) /\ Len(From(k, n)) = n
  <2>1. From(k, n) \in [ 1..n -> Nat ]
    BY DEF From
  <2> QED
    BY <2>1, SeqOf
<1>3. UpTo(k + n) \in Seq(Nat) /\ Len(UpTo(k + n)) = k + n
  <2>1. UpTo(k + n) \in [ 1..(k + n) -> Nat ]
    BY DEF UpTo
  <2> QED
    BY <2>1, SeqOf
<1>4. UpTo(k + 1) \in Seq(Nat) /\ Len(UpTo(k + 1)) = k + 1
  <2>1. UpTo(k + 1) \in [ 1..(k + 1) -> Nat ]
    BY DEF UpTo
  <2> QED
    BY <2>1, SeqOf
<1>5. UpTo(k) \o From(k, n) = UpTo(k + n)
  <2> DEFINE s == UpTo(k) \o From(k, n)
  <2>1. /\ s \in Seq(Nat) /\ Len(s) = k + n
        /\ \A i \in 1..(k + n) : s[i] = IF i <= k THEN UpTo(k)[i] ELSE From(k, n)[i - k]
    <3>1. \A t, u \in Seq(Nat) :
            /\ t \o u \in Seq(Nat) /\ Len(t \o u) = Len(t) + Len(u)
            /\ \A i \in 1..(Len(t) + Len(u)) :
                 (t \o u)[i] = IF i <= Len(t) THEN t[i] ELSE u[i - Len(t)]
      BY ConcatProperties
    <3>2. /\ s \in Seq(Nat) /\ Len(s) = Len(UpTo(k)) + Len(From(k, n))
          /\ \A i \in 1..(Len(UpTo(k)) + Len(From(k, n))) :
               s[i] = IF i <= Len(UpTo(k)) THEN UpTo(k)[i] ELSE From(k, n)[i - Len(UpTo(k))]
      BY <1>1, <1>2, <3>1, Zenon
    <3> HIDE DEF s
    <3> QED
      BY <1>1, <1>2, <3>2
  <2>2. ASSUME NEW i \in 1..(k + n)
        PROVE  s[i] = UpTo(k + n)[i]
    <3>1. /\ UpTo(k + n)[i] = i
          /\ i <= k => UpTo(k)[i] = i
          /\ i > k => From(k, n)[i - k] = i
      <4>1. i > k => i - k \in 1..n /\ k + (i - k) = i
        OBVIOUS
      <4> QED
        BY <4>1 DEF UpTo, From
    <3>2. s[i] = IF i <= k THEN UpTo(k)[i] ELSE From(k, n)[i - k]
      BY <2>1
    <3> QED
      BY <3>1, <3>2
  <2> QED
    BY <1>3, <2>1, <2>2, SeqEqual
<1>6. Append(UpTo(k), k + 1) = UpTo(k + 1)
  <2> DEFINE s == Append(UpTo(k), k + 1)
  <2>1. /\ s \in Seq(Nat) /\ Len(s) = k + 1 /\ s[k + 1] = k + 1
        /\ \A i \in 1..k : s[i] = UpTo(k)[i]
    BY <1>1, AppendProperties
  <2>2. \A i \in 1..(k + 1) : s[i] = UpTo(k + 1)[i]
    <3>1. \A i \in 1..(k + 1) : UpTo(k + 1)[i] = i /\ (i <= k => UpTo(k)[i] = i)
      BY DEF UpTo
    <3> QED
      BY <2>1, <3>1
  <2> QED
    BY <1>4, <2>1, <2>2, SeqEqual
<1>7. n > 0 => From(k, n) # << >> /\ From(k, n)[n] = k + n
  BY <1>2 DEF From
<1> QED
  BY <1>2, <1>5, <1>6, <1>7

\* The rows of a listing are shown after those that were.
LEMMA ListingApplied ==
  ASSUME StreamInv, ApplyRows
  PROVE  ViewInv'
<1> DEFINE k == view.cursor
           old == { i \in DOMAIN view.page : view.page[i] <= k }
           new == SubSeq(view.page, Cardinality(old) + 1, Len(view.page))
<1>a. /\ ViewOK(view) /\ Len(events) \in Nat /\ k \in 0..Len(events)
      /\ view.shown = UpTo(k)
      /\ UNCHANGED events
      /\ view' = [ view EXCEPT !.shown = @ \o new, !.cursor = LastOr(new, @),
                               !.page = << >>, !.at = view.back, !.back = "check" ]
  BY ViewFields DEF StreamInv, ViewInv, ApplyRows
<1>1. PICK n \in 0..(Len(events) - k) : view.page = From(k, n)
  <2>1. << >> = From(k, 0)
    BY DEF From
  <2>2. 0 \in 0..(Len(events) - k)
    BY <1>a
  <2> QED
    BY <1>a, <2>1, <2>2 DEF ViewOK
<1>2. old = {}
  BY <1>a, <1>1 DEF From
<1> HIDE DEF old
<1>3. new = From(k, n)
  <2>1. From(k, n) \in Seq(Nat) /\ Len(From(k, n)) = n
    <3>1. From(k, n) \in [ 1..n -> Nat ]
      BY <1>a DEF From
    <3> QED
      BY <3>1, SeqOf
  <2>2. Cardinality(old) + 1 = 1
    BY <1>2, FS_EmptySet
  <2> QED
    BY <1>1, <2>1, <2>2, SubSeqFull
<1>4. view.shown \o new = UpTo(k + n) /\ LastOr(new, k) = k + n
  <2>1. UpTo(k) \o From(k, n) = UpTo(k + n) /\ Len(From(k, n)) = n
        /\ (n > 0 => From(k, n) # << >> /\ From(k, n)[n] = k + n)
    <3>1. k \in Nat /\ n \in Nat
      BY <1>a
    <3> QED
      BY <3>1, UpToFrom
  <2>2. CASE n = 0
    <3>1. new = << >> /\ k + n = k
      BY <1>a, <1>3, <2>2 DEF From
    <3> QED
      BY <1>a, <1>3, <2>1, <3>1 DEF LastOr
  <2>3. CASE n > 0
    BY <1>a, <1>3, <2>1, <2>3 DEF LastOr
  <2>4. n = 0 \/ n > 0
    <3>1. n \in Nat
      BY <1>a
    <3> QED
      BY <3>1
  <2> QED
    BY <2>2, <2>3, <2>4
<1>5. k + n \in 0..Len(events)
  BY <1>a
<1> HIDE DEF new
<1> QED
  BY <1>a, <1>4, <1>5 DEF ViewInv, ViewOK

\* A frame read from a stream: a row that is the next one is shown.
LEMMA FrameRead ==
  ASSUME StreamInv, ReadFrame
  PROVE  StreamInv'
<1> DEFINE c == view.conn
           q == conn[c]
           f == Head(q.wire)
           k == view.cursor
           L == Len(events)
<1>a. /\ ViewOK(view) /\ L \in Nat /\ k \in 0..L /\ view.shown = UpTo(k)
      /\ OpenInv /\ c \in StreamIds /\ q \in Connection(L)
      /\ view.at = "live" /\ q.wire # << >> /\ view.page = << >>
      /\ UNCHANGED << events, slots >>
  BY ViewFields DEF StreamInv, ViewInv, ViewOK, OpenInv, ReadFrame
<1>b. q.wire \in Seq(-1..L)
  BY <1>a DEF Connection
<1>c. f \in -1..L /\ Tail(q.wire) \in Seq(-1..L)
  BY <1>a, <1>b, HeadTailProperties
<1>1. OpenInv'
  <2> DEFINE r == [ q EXCEPT !.wire = Tail(q.wire) ]
  <2>1. r \in Connection(L) /\ r.at = q.at /\ r.closed = q.closed
    BY <1>a, <1>c DEF Connection
  <2>2. conn' = [ conn EXCEPT ![c] = r ]
    BY DEF ReadFrame
  <2> HIDE DEF r
  <2> QED
    BY <1>a, <2>1, <2>2, GoesOnOpen
<1>2. \/ view' = view
      \/ view' = [ view EXCEPT !.at = "reconcile", !.back = "live" ]
      \/ /\ f = k + 1
         /\ \/ view' = [ view EXCEPT !.cursor = f, !.shown = Append(@, f) ]
            \/ view' = [ view EXCEPT !.cursor = f, !.shown = Append(@, f),
                                     !.at = "reconcile", !.back = "live" ]
  <2>1. PICK again \in BOOLEAN : view' = AfterFrame(f, again)
    BY DEF ReadFrame
  <2>2. CASE f \in { CompleteFrame, GapFrame }
    BY <2>1, <2>2 DEF AfterFrame, Relisting
  <2>3. CASE f \notin { CompleteFrame, GapFrame } /\ f # k + 1
    BY <2>1, <2>3 DEF AfterFrame, Relisting
  <2>4. CASE f \notin { CompleteFrame, GapFrame } /\ f = k + 1
    <3>1. ~(f <= k)
      BY <1>a, <2>4
    <3> QED
      BY <2>1, <2>4, <3>1 DEF AfterFrame, Relisting
  <2> QED
    BY <2>2, <2>3, <2>4
<1>3. ViewInv'
  <2>1. CASE view' = view \/ view' = [ view EXCEPT !.at = "reconcile", !.back = "live" ]
    BY <1>a, <2>1 DEF ViewInv, ViewOK
  <2>2. ASSUME f = k + 1
        PROVE  Append(view.shown, f) = UpTo(f) /\ f \in 0..L
    <3>1. k \in Nat
      BY <1>a
    <3>2. Append(UpTo(k), k + 1) = UpTo(k + 1)
      <4> 0 \in Nat
        OBVIOUS
      <4> QED
        BY <3>1, UpToFrom
    <3> HIDE DEF f, c, q
    <3>3. f \in 0..L
      BY <1>a, <1>c, <2>2, <3>1
    <3> QED
      BY <1>a, <2>2, <3>2, <3>3
  <2> HIDE DEF f, c, q
  <2>3. CASE f = k + 1 /\ view' = [ view EXCEPT !.cursor = f, !.shown = Append(@, f) ]
    BY <1>a, <2>2, <2>3 DEF ViewInv, ViewOK
  <2>4. CASE f = k + 1 /\ view' = [ view EXCEPT !.cursor = f, !.shown = Append(@, f),
                                                !.at = "reconcile", !.back = "live" ]
    BY <1>a, <2>2, <2>4 DEF ViewInv, ViewOK, c
  <2> QED
    BY <1>2, <2>1, <2>3, <2>4
<1> QED
  BY <1>1, <1>3 DEF StreamInv

\* A stream that is opened, or lost with what was on its wire.
LEMMA StreamOpened ==
  ASSUME StreamInv, NEW c \in StreamIds, Connect(c)
  PROVE  StreamInv'
<1>a. /\ ViewOK(view) /\ OpenInv /\ view.cursor \in Nat /\ view.page = << >>
      /\ UNCHANGED events
  BY ViewFields DEF StreamInv, ViewInv, ViewOK, Connect
<1>1. OpenInv'
  BY <1>a, Connects DEF Connect
<1>2. ViewInv'
  BY <1>a DEF Connect, ViewInv, ViewOK
<1> QED
  BY <1>1, <1>2 DEF StreamInv

LEMMA StreamLost ==
  ASSUME StreamInv, ConnectionLost
  PROVE  StreamInv'
<1> DEFINE c == view.conn
           q == conn[c]
           r == [ q EXCEPT !.gone = TRUE, !.wire = << >> ]
           L == Len(events)
<1>a. /\ ViewOK(view) /\ OpenInv /\ L \in Nat /\ c \in StreamIds /\ q \in Connection(L)
      /\ view.page = << >>
      /\ UNCHANGED << events, slots >>
  BY ViewFields DEF StreamInv, ViewInv, ViewOK, OpenInv, ConnectionLost
<1>1. r \in Connection(L) /\ r.at = q.at /\ r.closed = q.closed
  BY <1>a, EmptySeq DEF Connection
<1>2. conn' = [ conn EXCEPT ![c] = r ]
  BY DEF ConnectionLost
<1>3. OpenInv'
  <2> HIDE DEF r
  <2> QED
    BY <1>a, <1>1, <1>2, GoesOnOpen
<1>4. ViewInv'
  BY <1>a DEF ConnectionLost, ViewInv, ViewOK
<1> QED
  BY <1>3, <1>4 DEF StreamInv

LEMMA StreamSteps == StreamInv /\ [StreamNext]_streamVars => StreamInv'
<1> SUFFICES ASSUME StreamInv, [StreamNext]_streamVars PROVE StreamInv'
  OBVIOUS
<1>1. CASE RecordState \/ \E b \in ChunkSizes : AppendLog(b)
  <2>1. \E kind \in RowKinds : AppendRow(kind)
    BY <1>1 DEF RecordState, AppendLog, RowKinds
  <2>2. UNCHANGED << slots, conn, view >>
    BY <1>1 DEF RecordState, AppendLog
  <2> QED
    BY <2>1, <2>2, RowsGrow
<1>2. CASE \E c \in StreamIds : ServeStream(c) \/ PassFails(c) \/ CloseByTimer(c)
  <2>1. UNCHANGED << view, events >>
    BY <1>2 DEF ServeStream, ReadHistory, SendRow, Drain, EndPass, PollAgain, PassFails, CloseByTimer
  <2> QED
    BY <1>2, <2>1, ServerSteps, ViewStays DEF StreamInv
<1>3. CASE ListRows \/ ApplyRows \/ CheckEnded \/ StreamEnds \/ ConnectFails \/ RestFails
  <2>1. UNCHANGED << events, slots, conn >>
    BY <1>3 DEF ListRows, ApplyRows, CheckEnded, StreamEnds, ConnectFails, RestFails
  <2>2. OpenInv'
    BY <2>1 DEF StreamInv, OpenInv, OpenStreams
  <2> QED
    BY <1>3, <2>2, ViewerSteps, ListingApplied DEF StreamInv
<1>4. CASE UNCHANGED streamVars
  BY <1>4, ViewStays DEF StreamInv, OpenInv, OpenStreams, streamVars
<1> QED
  BY <1>1, <1>2, <1>3, <1>4, FrameRead, StreamOpened, StreamLost DEF StreamNext, Follow

\* The rows, the connections and the view, whether or not the timers of the
\* processes run on.
StreamRuns == StreamInit /\ [][StreamNext]_streamVars

LEMMA StreamRunsSound == StreamRuns => [](ShownInOrder /\ SlotsCounted)
<1>1. StreamInv => ShownInOrder
  BY ViewFields DEF ShownInOrder, UpTo
<1>2. StreamInv => SlotsCounted
  BY DEF StreamInv, OpenInv, SlotsCounted, OpenStreams
<1> QED
  BY <1>1, <1>2, StreamStarts, StreamSteps, PTL DEF StreamRuns

LEMMA StreamSpecRuns == StreamSpec => StreamRuns
BY DEF StreamSpec, StreamRuns

\* However many streams are opened, refused, closed or lost while rows are
\* added and listed: what the dashboard shows is the rows up to its cursor,
\* each once and in order.
THEOREM RowsShownInOrder == StreamSpec => []ShownInOrder
BY StreamSpecRuns, StreamRunsSound, PTL

\* A user's count of open streams is the number of connections not yet closed,
\* however often close() is called for each.
THEOREM StreamsCounted == StreamSpec => []SlotsCounted
BY StreamSpecRuns, StreamRunsSound, PTL

\* The rows fit the bound, and what is counted of the log is a number.
RowsBounded == Len(events) <= MaxEvents /\ stored \in Nat /\ ended \in BOOLEAN

LEMMA RowsBoundedStep == StreamInv /\ RowsBounded /\ [StreamNext]_streamVars => RowsBounded'
<1> SUFFICES ASSUME StreamInv, RowsBounded, [StreamNext]_streamVars PROVE RowsBounded'
  OBVIOUS
<1>1. ASSUME NEW kind, AppendRow(kind) PROVE Len(events') <= MaxEvents
  <2>1. events \in Seq(RowKinds) /\ Len(events') = Len(events) + 1
    BY <1>1 DEF StreamInv, OpenInv, AppendRow
  <2> QED BY <1>1, <2>1, StreamAssumption DEF AppendRow
<1>2. CASE RecordState
  BY <1>1, <1>2 DEF RecordState, RowsBounded
<1>3. ASSUME NEW b \in ChunkSizes, AppendLog(b) PROVE RowsBounded'
  <2>1. \E kind : AppendRow(kind)
    BY <1>3 DEF AppendLog
  <2>2. b \in Nat /\ MarkerBytes \in Nat
    BY StreamAssumption DEF MarkerBytes
  <2>3. stored' \in Nat /\ ended' = ended
    BY <1>3, <2>2 DEF AppendLog, RowsBounded
  <2> QED BY <1>1, <2>1, <2>3 DEF RowsBounded
<1>4. CASE UNCHANGED << events, stored, ended >>
  BY <1>4 DEF RowsBounded
<1> QED
  BY <1>2, <1>3, <1>4
  DEF StreamNext, streamVars, Follow, ServeStream, ReadHistory, SendRow, Drain, EndPass, PollAgain,
      PassFails, CloseByTimer, ListRows, ApplyRows, CheckEnded, ReadFrame, StreamEnds, Connect,
      ConnectFails, RestFails, ConnectionLost

\* What is on a connection and what the view holds are rows within the bound.
LEMMA ViewTyped ==
  ASSUME StreamInv, RowsBounded
  PROVE  StreamTypeOK
<1>1. /\ events \in Seq(RowKinds) /\ Len(events) \in Nat /\ Len(events) <= MaxEvents /\ MaxEvents \in Nat
      /\ slots \in Nat
  BY StreamAssumption, FS_CardinalityType DEF StreamInv, OpenInv, RowsBounded
<1>2. /\ Seq(1..Len(events)) \subseteq Seq(RowNumbers)
      /\ Seq(-1..Len(events)) \subseteq Seq(RowNumbers \union { GapFrame, CompleteFrame })
  <2>1. /\ 1..Len(events) \subseteq RowNumbers
        /\ -1..Len(events) \subseteq RowNumbers \union { GapFrame, CompleteFrame }
    BY <1>1 DEF RowNumbers, GapFrame, CompleteFrame
  <2> QED BY <2>1, SeqMonotonic
<1>3. conn \in [ StreamIds -> [ at : { "unopened", "reading", "sending", "draining", "waiting" },
                               closed : BOOLEAN, first : BOOLEAN, gone : BOOLEAN,
                               cursor : Nat, batch : Seq(RowNumbers),
                               wire : Seq(RowNumbers \union { GapFrame, CompleteFrame }) ] ]
  BY <1>2 DEF StreamInv, OpenInv, Connection
<1>4. ViewOK(view)
  BY DEF StreamInv, ViewInv
<1>5. view.cursor \in Nat /\ view.cursor <= MaxEvents /\ view.cursor <= Len(events)
  BY <1>1, <1>4 DEF ViewOK
<1>6. view.shown \in Seq(RowNumbers)
  <2>1. UpTo(view.cursor) \in [ 1..view.cursor -> RowNumbers ]
    BY <1>1, <1>5 DEF UpTo, RowNumbers
  <2> QED BY <1>4, <1>5, <2>1, SeqOf DEF ViewOK
<1>7. view.page \in Seq(RowNumbers)
  <2>1. CASE view.page = << >>
    BY <2>1
  <2>2. ASSUME NEW n \in 0..(Len(events) - view.cursor), view.page = From(view.cursor, n)
        PROVE  view.page \in Seq(RowNumbers)
    <3>1. n \in Nat /\ From(view.cursor, n) \in [ 1..n -> RowNumbers ]
      BY <1>1, <1>5 DEF From, RowNumbers
    <3> QED BY <2>2, <3>1, SeqOf
  <2> QED BY <1>4, <2>1, <2>2 DEF ViewOK
<1>8. view \in [ at : { "reconcile", "apply", "check", "connect", "live", "complete" },
                cursor : Nat, shown : Seq(RowNumbers), back : { "check", "live" },
                page : Seq(RowNumbers), conn : StreamIds \union { "none" } ]
  BY <1>4, <1>5, <1>6, <1>7 DEF ViewOK
<1> QED
  BY <1>1, <1>3, <1>8 DEF RowsBounded, StreamTypeOK

LEMMA StreamRunsTyped == StreamRuns => []StreamTypeOK
<1>1. StreamInit => RowsBounded
  <2> SUFFICES ASSUME StreamInit PROVE RowsBounded
    OBVIOUS
  <2>1. (\E kind : events = << kind >>) /\ stored = 0 /\ ended = FALSE
    BY DEF StreamInit
  <2>2. Len(events) = 1
    BY <2>1
  <2>3. Len(events) <= MaxEvents /\ stored \in Nat
    BY <2>1, <2>2, StreamAssumption
  <2> QED BY <2>1, <2>3, Zenon DEF RowsBounded
<1>2. StreamInv /\ RowsBounded => StreamTypeOK
  BY ViewTyped
<1> QED
  BY <1>1, <1>2, RowsBoundedStep, StreamStarts, StreamSteps, PTL DEF StreamRuns

\* The rows, the connections and the view keep their types, for any number of
\* streams, page size and limits.
THEOREM StreamsTyped == StreamSpec => []StreamTypeOK
BY StreamSpecRuns, StreamRunsTyped, PTL

(***************************************************************************)
(* The audit. The events that are committed, and those of the transaction  *)
(* that holds the head added to them, are one chain up to the head.        *)
(***************************************************************************)
AppendKeys  == { EventKey(k) : k \in AuditKeys }
AllKeys     == AppendKeys \union { ZERO, ExportKey, DownloadKey }
                 \union { RetentionKey(v) : v \in 1..MaxRetention }
AllHashes   == Seq(AllKeys \X KeyVersions)
AuditEvent  == [ sequence : Nat \ { 0 }, key : AllKeys, previous : AllHashes,
                 version : KeyVersions, hash : AllHashes ]
AuditHeads  == [ exists : BOOLEAN, sequence : Nat, hash : AllHashes ]
Transaction ==
  [ phase : { "idle", "insert_head", "lock_head", "write_event", "open" },
    kind : { "append", "export", "download", "retention" }, key : AllKeys, holds : BOOLEAN,
    head : AuditHeads, events : SUBSET AuditEvent, outbox : SUBSET Nat, appends : Nat ]

Chain(E, head) ==
  /\ \A e \in E : e.sequence \in 1..head.sequence
  /\ \A i \in 1..head.sequence : \E e \in E : e.sequence = i
  /\ \A e, d \in E : e.sequence = d.sequence => e = d
  /\ \A e, d \in E : e.key = d.key => e = d
  /\ \A e \in E : e.hash = AuditHash(e.previous, e.key, e.version)
  /\ \A e \in E : e.sequence = 1 => e.previous = ZERO
  /\ \A e, d \in E : d.sequence = e.sequence + 1 => d.previous = e.hash
  /\ head.sequence = 0 => head.hash = ZERO
  /\ \A e \in E : e.sequence = head.sequence => e.hash = head.hash
  /\ ~head.exists => head.sequence = 0

\* What a transaction does is still to be done.
Pending(tx) ==
  /\ tx.kind = "append"    => tx.key \in AppendKeys
  /\ tx.kind = "export"    => tx.key = ExportKey /\ auditExport = "none"
  /\ tx.kind = "download"  => tx.key = DownloadKey /\ auditExport = "completed"
  /\ tx.kind = "retention" => tx.key = RetentionKey(retention + 1) /\ retention < MaxRetention

\* What a transaction wrote extends the chain, and is of its kind.
Extends(tx) ==
  /\ Chain(auditEvents \union tx.events, tx.head)
  /\ \A e \in tx.events : e.sequence > auditHead.sequence
  /\ tx.outbox = { e.sequence : e \in tx.events }
  /\ \A e \in tx.events : IF tx.kind = "append" THEN e.key \in AppendKeys ELSE e.key = tx.key

TxOK(tx) ==
  /\ tx.phase # "idle" => Pending(tx)
  /\ tx.phase \in { "write_event", "open" } => tx.holds
  /\ tx.phase = "open" => \E e \in auditEvents \union tx.events : e.key = tx.key
  /\ tx.phase = "idle" => ~tx.holds
  /\ ~tx.holds => tx.events = {} /\ tx.outbox = {}
  /\ tx.holds => Extends(tx)

\* The locks: two transactions hold neither the head nor the row of one kind.
Apart(t, x) ==
  /\ ~(t.holds /\ x.holds)
  /\ t.kind = x.kind => t.kind = "append" \/ t.phase = "idle" \/ x.phase = "idle"

AuditTyped ==
  /\ auditEvents \subseteq AuditEvent /\ auditHead \in AuditHeads /\ auditOutbox \subseteq Nat
  /\ auditExport \in { "none", "completed", "downloaded" }
  /\ retention \in 0..MaxRetention
  /\ auditTx \in [ AuditWriters -> Transaction ]

AuditInv ==
  /\ AuditTyped
  /\ Chain(auditEvents, auditHead)
  /\ EffectsAudited
  /\ \A w \in AuditWriters : TxOK(auditTx[w])
  /\ \A w, x \in AuditWriters : w # x => Apart(auditTx[w], auditTx[x])

\* The keys of one kind are not those of another.
LEMMA AuditKeysApart ==
  /\ ExportKey # DownloadKey
  /\ \A a \in AppendKeys : a # ExportKey /\ a # DownloadKey
  /\ \A a \in AppendKeys : \A v \in Nat : a # RetentionKey(v)
  /\ \A v \in Nat : RetentionKey(v) # ExportKey /\ RetentionKey(v) # DownloadKey
  /\ \A v, u \in Nat : RetentionKey(v) = RetentionKey(u) => v = u
<1>1. ExportKey # DownloadKey
  BY DEF ExportKey, DownloadKey
<1>2. \A a \in AppendKeys : a # ExportKey /\ a # DownloadKey
  BY DEF AppendKeys, EventKey, ExportKey, DownloadKey
<1>3. \A a \in AppendKeys : \A v \in Nat : a # RetentionKey(v)
  BY DEF AppendKeys, EventKey, RetentionKey
<1>4. \A v \in Nat : RetentionKey(v) # ExportKey /\ RetentionKey(v) # DownloadKey
  BY DEF RetentionKey, ExportKey, DownloadKey
<1>5. \A v, u \in Nat : RetentionKey(v) = RetentionKey(u) => v = u
  BY DEF RetentionKey
<1> QED
  BY <1>1, <1>2, <1>3, <1>4, <1>5

LEMMA HashTyped ==
  /\ ZERO \in AllHashes
  /\ \A h \in AllHashes, k \in AllKeys, v \in KeyVersions : AuditHash(h, k, v) \in AllHashes
<1>1. ZERO \in AllHashes
  BY EmptySeq DEF ZERO, AllHashes
<1>2. ASSUME NEW h \in AllHashes, NEW k \in AllKeys, NEW v \in KeyVersions
      PROVE  AuditHash(h, k, v) \in AllHashes
  <2>1. h \in Seq(AllKeys \X KeyVersions) /\ << k, v >> \in AllKeys \X KeyVersions
    BY DEF AllHashes
  <2>2. Append(h, << k, v >>) \in Seq(AllKeys \X KeyVersions)
    BY <2>1, AppendProperties
  <2> QED
    BY <2>2 DEF AuditHash, AllHashes
<1> QED
  BY <1>1, <1>2

\* A chain up to the head, from which the service reads a part.
LEMMA ChainVerifies ==
  ASSUME AuditTyped, Chain(auditEvents, auditHead)
  PROVE  AuditVerifies
<1> DEFINE n == auditHead.sequence
<1> SUFFICES ASSUME NEW from \in 1..n, NEW to \in { 0 } \union from..n
             PROVE  Verify(from, to)
  BY DEF AuditVerifies
<1> DEFINE rows == VerifiedRows(from, to)
<1>a. /\ n \in Nat /\ from \in Nat /\ to \in Nat /\ from >= 1 /\ from <= n
      /\ \A e \in auditEvents : e.sequence \in 1..n
      /\ \A i \in 1..n : \E e \in auditEvents : e.sequence = i
      /\ \A e, d \in auditEvents : e.sequence = d.sequence => e = d
      /\ to = 0 \/ to >= from
  BY DEF AuditTyped, AuditHeads, Chain
<1>b. \A e : e \in rows <=> /\ e \in auditEvents /\ e.sequence >= from
                            /\ (to = 0 \/ e.sequence <= to)
  BY DEF VerifiedRows
<1> HIDE DEF rows
<1>1. ASSUME NEW e \in rows
      PROVE  Continues(e, rows, from)
  <2>a. e \in auditEvents /\ e.sequence \in 1..n /\ e.sequence >= from
    BY <1>a, <1>b
  <2>1. CASE e.sequence > from
    <3>1. PICK p \in auditEvents : p.sequence = e.sequence - 1
      <4>1. e.sequence - 1 \in 1..n
        BY <1>a, <2>a, <2>1
      <4> QED
        BY <1>a, <4>1
    <3>2. p \in rows /\ p.sequence < e.sequence
      BY <1>a, <1>b, <2>a, <2>1, <3>1
    <3>3. e.previous = p.hash
      <4>1. e.sequence = p.sequence + 1
        BY <2>a, <3>1
      <4> QED
        BY <2>a, <4>1 DEF Chain
    <3> QED
      BY <3>1, <3>2, <3>3 DEF Continues
  <2>2. CASE e.sequence = from
    <3>1. ~ \E p \in rows : p.sequence < e.sequence
      BY <1>a, <1>b, <2>2
    <3>2. CASE from = 1
      <4>1. e.previous = ZERO
        BY <2>a, <2>2, <3>2 DEF Chain
      <4> QED
        BY <3>1, <3>2, <4>1 DEF Continues
    <3>3. CASE from # 1
      <4>1. from - 1 \in 1..n
        BY <1>a, <3>3
      <4>2. PICK p \in auditEvents : p.sequence = from - 1
        BY <1>a, <4>1
      <4>3. e.previous = p.hash
        <5>1. e.sequence = p.sequence + 1
          BY <1>a, <2>2, <4>2
        <5> QED
          BY <2>a, <5>1 DEF Chain
      <4> QED
        BY <3>1, <3>3, <4>2, <4>3 DEF Continues
    <3> QED
      BY <3>2, <3>3
  <2> QED
    BY <1>a, <2>a, <2>1, <2>2
<1>2. \A e \in rows : e.hash = AuditHash(e.previous, e.key, e.version)
  BY <1>b DEF Chain
<1>3. to = 0 => MatchesHead(rows)
  <2> SUFFICES ASSUME to = 0 PROVE MatchesHead(rows)
    OBVIOUS
  <2>1. PICK e \in auditEvents : e.sequence = n
    <3>1. n \in 1..n
      BY <1>a
    <3> QED
      BY <1>a, <3>1
  <2>2. e \in rows /\ e.hash = auditHead.hash
    BY <1>a, <1>b, <2>1 DEF Chain
  <2>3. \A x \in rows : x.sequence <= e.sequence
    BY <1>a, <1>b, <2>1
  <2> QED
    BY <2>1, <2>2, <2>3 DEF MatchesHead
<1> QED
  BY <1>1, <1>2, <1>3 DEF Verify, rows

LEMMA AuditStarts == AuditInit => AuditInv
<1> SUFFICES ASSUME AuditInit PROVE AuditInv
  OBVIOUS
<1>a. /\ auditEvents = {} /\ auditHead = NoHead /\ auditOutbox = {}
      /\ auditExport = "none" /\ retention = 0
      /\ auditTx = [ w \in AuditWriters |-> IdleTx ]
  BY DEF AuditInit
<1>1. NoHead \in AuditHeads /\ NoHead.sequence = 0 /\ NoHead.hash = ZERO /\ ~NoHead.exists
  BY HashTyped DEF NoHead, AuditHeads
<1>2. IdleTx \in Transaction
  <2>1. ZERO \in AllKeys
    BY DEF AllKeys
  <2> QED
    BY <1>1, <2>1 DEF IdleTx, Transaction
<1>3. AuditTyped
  BY <1>a, <1>1, <1>2, AuditAssumption DEF AuditTyped
<1>4. Chain(auditEvents, auditHead)
  BY <1>a, <1>1 DEF Chain
<1>5. EffectsAudited
  BY <1>a, AuditAssumption DEF EffectsAudited
<1>6. TxOK(IdleTx) /\ Apart(IdleTx, IdleTx)
  BY DEF TxOK, Apart, IdleTx
<1> QED
  BY <1>a, <1>3, <1>4, <1>5, <1>6 DEF AuditInv

\* A step of one transaction that leaves what is committed alone.
LEMMA TxMoves ==
  ASSUME AuditInv, NEW w \in AuditWriters, NEW r \in Transaction,
         auditTx' = [ auditTx EXCEPT ![w] = r ],
         UNCHANGED << auditEvents, auditHead, auditOutbox, auditExport, retention >>,
         TxOK(r),
         r.holds => auditTx[w].holds \/ HeadFree(w),
         \/ r.kind = "append" \/ r.phase = "idle"
         \/ Unlocked(w, r.kind)
         \/ r.kind = auditTx[w].kind /\ auditTx[w].phase # "idle"
  PROVE  AuditInv'
<1>a. auditTx \in [ AuditWriters -> Transaction ]
  BY DEF AuditInv, AuditTyped
<1>1. AuditTyped'
  BY <1>a DEF AuditInv, AuditTyped
<1>2. Chain(auditEvents, auditHead)'
  BY DEF AuditInv, Chain
<1>3. EffectsAudited'
  BY DEF AuditInv, EffectsAudited
<1>4. \A x \in AuditWriters : auditTx'[x] = IF x = w THEN r ELSE auditTx[x]
  BY <1>a
<1>5. \A t : TxOK(t) => TxOK(t)'
  BY DEF TxOK, Pending, Extends, Chain
<1>6. ASSUME NEW x \in AuditWriters
      PROVE  TxOK(auditTx[x])'
  BY <1>4, <1>5 DEF AuditInv
<1>7. ASSUME NEW x \in AuditWriters, x # w
      PROVE  Apart(r, auditTx[x]) /\ Apart(auditTx[x], r)
  <2>1. Apart(auditTx[w], auditTx[x]) /\ Apart(auditTx[x], auditTx[w])
    BY <1>7 DEF AuditInv
  <2>2. ~(r.holds /\ auditTx[x].holds)
    BY <1>7, <2>1 DEF Apart, HeadFree, OthersOf
  <2>3. r.kind = auditTx[x].kind
        => r.kind = "append" \/ r.phase = "idle" \/ auditTx[x].phase = "idle"
    BY <1>7, <2>1 DEF Apart, Unlocked, OthersOf
  <2> QED
    BY <2>2, <2>3 DEF Apart
<1>8. ASSUME NEW x \in AuditWriters, NEW y \in AuditWriters, x # y
      PROVE  Apart(auditTx[x], auditTx[y])'
  BY <1>4, <1>7, <1>8 DEF AuditInv, Apart
<1> QED
  BY <1>1, <1>2, <1>3, <1>6, <1>8 DEF AuditInv

\* A caller that begins, or that appends once more.
LEMMA TxStarts ==
  ASSUME AuditInv, NEW w \in AuditWriters,
         NEW kind \in { "append", "export", "download", "retention" }, NEW key \in AllKeys,
         StartAppend(w, kind, key),
         UNCHANGED << auditEvents, auditHead, auditOutbox, auditExport, retention >>,
         \/ auditTx[w].phase = "idle" /\ (kind = "append" \/ Unlocked(w, kind))
         \/ auditTx[w].phase = "open" /\ auditTx[w].kind = "append" /\ kind = "append",
         /\ kind = "append"    => key \in AppendKeys
         /\ kind = "export"    => key = ExportKey /\ auditExport = "none"
         /\ kind = "download"  => key = DownloadKey /\ auditExport = "completed"
         /\ kind = "retention" => key = RetentionKey(retention + 1) /\ retention < MaxRetention
  PROVE  AuditInv'
<1> DEFINE tx == auditTx[w]
           r  == [ tx EXCEPT !.phase = "insert_head", !.kind = kind, !.key = key,
                             !.appends = @ + 1 ]
<1>a. auditTx \in [ AuditWriters -> Transaction ] /\ tx \in Transaction /\ TxOK(tx)
  BY DEF AuditInv, AuditTyped
<1>1. r \in Transaction
  <2>1. tx.appends + 1 \in Nat /\ "insert_head" \in { "idle", "insert_head", "lock_head",
                                                     "write_event", "open" }
    BY <1>a DEF Transaction
  <2>2. r = [ tx EXCEPT !.phase = "insert_head", !.kind = kind, !.key = key,
                        !.appends = tx.appends + 1 ]
    BY <1>a DEF Transaction
  <2> HIDE DEF r
  <2> QED
    BY <1>a, <2>1, <2>2 DEF Transaction
<1>2. /\ r.phase = "insert_head" /\ r.kind = kind /\ r.key = key /\ r.holds = tx.holds
      /\ r.head = tx.head /\ r.events = tx.events /\ r.outbox = tx.outbox
  BY <1>a DEF Transaction
<1>3. auditTx' = [ auditTx EXCEPT ![w] = r ]
  BY <1>a DEF StartAppend
<1> HIDE DEF r
<1>4. TxOK(r)
  <2>1. Pending(r)
    BY <1>2 DEF Pending
  <2>2. r.holds => Extends(r)
    BY <1>a, <1>2 DEF TxOK, Extends
  <2> QED
    BY <1>a, <1>2, <2>1, <2>2 DEF TxOK
<1> QED
  BY <1>1, <1>2, <1>3, <1>4, TxMoves

LEMMA CallerStarts ==
  ASSUME AuditInv, NEW w \in AuditWriters,
         \/ \E k \in AuditKeys : RecordEvent(w, k)
         \/ RequestExport(w) \/ Download(w) \/ SetRetention(w)
  PROVE  AuditInv'
<1>a. retention \in 0..MaxRetention /\ MaxRetention \in Nat
  BY AuditAssumption DEF AuditInv, AuditTyped
<1>1. ASSUME NEW k \in AuditKeys, RecordEvent(w, k)
      PROVE  AuditInv'
  <2>1. EventKey(k) \in AppendKeys /\ EventKey(k) \in AllKeys
    BY DEF AppendKeys, AllKeys
  <2> QED
    BY <1>1, <2>1, TxStarts DEF RecordEvent
<1>2. CASE RequestExport(w)
  <2>1. ExportKey \in AllKeys
    BY DEF AllKeys
  <2> QED
    BY <1>2, <2>1, TxStarts DEF RequestExport
<1>3. CASE Download(w)
  <2>1. DownloadKey \in AllKeys
    BY DEF AllKeys
  <2> QED
    BY <1>3, <2>1, TxStarts DEF Download
<1>4. CASE SetRetention(w)
  <2>1. RetentionKey(retention + 1) \in AllKeys
    <3>1. retention + 1 \in 1..MaxRetention
      BY <1>a, <1>4 DEF SetRetention
    <3> QED
      BY <3>1 DEF AllKeys
  <2> QED
    BY <1>4, <2>1, TxStarts DEF SetRetention
<1> QED
  BY <1>1, <1>2, <1>3, <1>4

\* The row of the head is inserted, or found; it is locked; a transaction ends
\* with nothing written.
LEMMA HeadTaken ==
  ASSUME AuditInv, NEW w \in AuditWriters, InsertHead(w) \/ LockHead(w) \/ RollbackAudit(w)
  PROVE  AuditInv'
<1> DEFINE tx == auditTx[w]
<1>a. /\ auditTx \in [ AuditWriters -> Transaction ] /\ tx \in Transaction /\ TxOK(tx)
      /\ auditHead \in AuditHeads /\ auditEvents \subseteq AuditEvent
      /\ Chain(auditEvents, auditHead)
  BY DEF AuditInv, AuditTyped
<1>b. UNCHANGED << auditEvents, auditHead, auditOutbox, auditExport, retention >>
  BY DEF InsertHead, LockHead, RollbackAudit
<1>1. CASE InsertHead(w) /\ (auditHead.exists \/ tx.holds)
  <2> DEFINE r == [ tx EXCEPT !.phase = "lock_head" ]
  <2>1. r \in Transaction
    BY <1>a DEF Transaction
  <2>2. /\ r.phase = "lock_head" /\ r.kind = tx.kind /\ r.key = tx.key /\ r.holds = tx.holds
        /\ r.head = tx.head /\ r.events = tx.events /\ r.outbox = tx.outbox
    BY <1>a DEF Transaction
  <2>3. auditTx' = [ auditTx EXCEPT ![w] = r ] /\ tx.phase = "insert_head"
    BY <1>a, <1>1 DEF InsertHead
  <2> HIDE DEF r
  <2>4. TxOK(r)
    <3>1. Pending(r)
      BY <1>a, <2>2, <2>3 DEF TxOK, Pending
    <3>2. r.holds => Extends(r)
      BY <1>a, <2>2 DEF TxOK, Extends
    <3> QED
      BY <1>a, <2>2, <3>1, <3>2 DEF TxOK
  <2> QED
    BY <1>b, <2>1, <2>2, <2>3, <2>4, TxMoves
<1>2. CASE InsertHead(w) /\ ~(auditHead.exists \/ tx.holds)
  <2> DEFINE h == [ NoHead EXCEPT !.exists = TRUE ]
             r == [ tx EXCEPT !.phase = "lock_head", !.holds = TRUE, !.head = h ]
  <2>a. /\ h \in AuditHeads /\ h.exists /\ h.sequence = 0 /\ h.hash = ZERO
    BY HashTyped DEF NoHead, AuditHeads
  <2> HIDE DEF h
  <2>1. r \in Transaction
    BY <1>a, <2>a DEF Transaction
  <2>2. /\ r.phase = "lock_head" /\ r.kind = tx.kind /\ r.key = tx.key /\ r.holds
        /\ r.head = h /\ r.events = tx.events /\ r.outbox = tx.outbox
    BY <1>a DEF Transaction
  <2>3. auditTx' = [ auditTx EXCEPT ![w] = r ] /\ tx.phase = "insert_head" /\ HeadFree(w)
    BY <1>a, <1>2 DEF InsertHead, h
  <2> HIDE DEF r
  <2>4. auditEvents = {} /\ tx.events = {} /\ tx.outbox = {}
    <3>1. auditHead.sequence = 0
      BY <1>a, <1>2 DEF Chain
    <3> QED
      BY <1>a, <1>2, <3>1 DEF Chain, TxOK
  <2>5. Extends(r)
    <3>1. Chain({}, h)
      BY <2>a DEF Chain
    <3>2. r.events = {} /\ r.outbox = {} /\ auditEvents \union r.events = {}
      BY <2>2, <2>4
    <3> QED
      BY <2>2, <3>1, <3>2 DEF Extends
  <2>6. Pending(r)
    BY <1>a, <2>2, <2>3 DEF TxOK, Pending
  <2>7. TxOK(r)
    BY <2>2, <2>5, <2>6 DEF TxOK
  <2> QED
    BY <1>b, <2>1, <2>2, <2>3, <2>7, TxMoves
<1>3. CASE LockHead(w)
  <2> DEFINE h == IF tx.holds THEN tx.head ELSE auditHead
             r == [ tx EXCEPT !.phase = "write_event", !.holds = TRUE, !.head = h ]
  <2>a. h \in AuditHeads
    BY <1>a DEF Transaction
  <2>3. auditTx' = [ auditTx EXCEPT ![w] = r ] /\ tx.phase = "lock_head" /\ HeadFree(w)
    BY <1>a, <1>3 DEF LockHead, Transaction
  <2>b. /\ tx.holds => h = tx.head
        /\ ~tx.holds => h = auditHead /\ tx.events = {} /\ tx.outbox = {}
    BY <1>a DEF TxOK
  <2> HIDE DEF h
  <2>1. r \in Transaction
    BY <1>a, <2>a DEF Transaction
  <2>2. /\ r.phase = "write_event" /\ r.kind = tx.kind /\ r.key = tx.key /\ r.holds
        /\ r.head = h /\ r.events = tx.events /\ r.outbox = tx.outbox
    BY <1>a DEF Transaction
  <2> HIDE DEF r
  <2>4. Extends(r)
    <3>1. CASE tx.holds
      BY <1>a, <2>2, <2>b, <3>1 DEF TxOK, Extends
    <3>2. CASE ~tx.holds
      <4>1. r.events = {} /\ r.outbox = {} /\ auditEvents \union r.events = auditEvents
        BY <2>2, <2>b, <3>2
      <4> QED
        BY <1>a, <2>2, <2>b, <3>2, <4>1 DEF Extends
    <3> QED
      BY <3>1, <3>2
  <2>5. Pending(r)
    BY <1>a, <2>2, <2>3 DEF TxOK, Pending
  <2>6. TxOK(r)
    BY <2>2, <2>4, <2>5 DEF TxOK
  <2> QED
    BY <1>b, <2>1, <2>2, <2>3, <2>6, TxMoves
<1>4. CASE RollbackAudit(w)
  <2>1. IdleTx \in Transaction
    <3>1. ZERO \in AllKeys
      BY DEF AllKeys
    <3> QED
      BY <3>1, HashTyped DEF IdleTx, Transaction, NoHead, AuditHeads
  <2>2. TxOK(IdleTx) /\ IdleTx.kind = "append" /\ ~IdleTx.holds
    BY DEF TxOK, IdleTx
  <2>3. auditTx' = [ auditTx EXCEPT ![w] = IdleTx ]
    BY <1>4 DEF RollbackAudit
  <2> QED
    BY <1>b, <2>1, <2>2, <2>3, TxMoves
<1> QED
  BY <1>1, <1>2, <1>3, <1>4 DEF InsertHead

\* An event whose key is new goes to the end of the chain.
LEMMA ChainGrows ==
  ASSUME NEW E, NEW head \in AuditHeads, NEW e \in AuditEvent, Chain(E, head),
         e.sequence = head.sequence + 1, e.previous = head.hash,
         e.hash = AuditHash(e.previous, e.key, e.version),
         \A x \in E : x.key # e.key
  PROVE  Chain(E \union { e }, [ exists |-> TRUE, sequence |-> e.sequence, hash |-> e.hash ])
<1> DEFINE n == head.sequence
           h == [ exists |-> TRUE, sequence |-> e.sequence, hash |-> e.hash ]
           D == E \union { e }
<1>a. /\ n \in Nat /\ h.exists /\ h.sequence = n + 1 /\ h.hash = e.hash /\ e.sequence = n + 1
      /\ \A x \in E : x.sequence \in 1..n
  BY DEF AuditHeads, Chain
<1>b. \A x : x \in D <=> x \in E \/ x = e
  OBVIOUS
<1> HIDE DEF n, h, D
<1>1. \A x \in D : x.sequence \in 1..h.sequence
  BY <1>a, <1>b
<1>2. \A i \in 1..h.sequence : \E x \in D : x.sequence = i
  <2> SUFFICES ASSUME NEW i \in 1..(n + 1) PROVE \E x \in D : x.sequence = i
    BY <1>a
  <2>1. CASE i = n + 1
    BY <1>a, <1>b, <2>1
  <2>2. CASE i # n + 1
    <3>1. i \in 1..n
      BY <1>a, <2>2
    <3>2. \E x \in E : x.sequence = i
      BY <3>1 DEF Chain, n
    <3> QED
      BY <1>b, <3>2
  <2> QED
    BY <2>1, <2>2
<1>3. \A x, d \in D : x.sequence = d.sequence => x = d
  <2>1. \A x, d \in E : x.sequence = d.sequence => x = d
    BY DEF Chain
  <2>2. \A x \in E : x.sequence # e.sequence
    BY <1>a
  <2> QED
    BY <1>b, <2>1, <2>2
<1>4. \A x, d \in D : x.key = d.key => x = d
  <2>1. \A x, d \in E : x.key = d.key => x = d
    BY DEF Chain
  <2> QED
    BY <1>b, <2>1
<1>5. \A x \in D : x.hash = AuditHash(x.previous, x.key, x.version)
  <2>1. \A x \in E : x.hash = AuditHash(x.previous, x.key, x.version)
    BY DEF Chain
  <2> QED
    BY <1>b, <2>1
<1>6. \A x \in D : x.sequence = 1 => x.previous = ZERO
  <2>1. \A x \in E : x.sequence = 1 => x.previous = ZERO
    BY DEF Chain
  <2>2. e.sequence = 1 => e.previous = ZERO
    <3>1. e.sequence = 1 => n = 0
      BY <1>a
    <3> QED
      BY <3>1 DEF Chain, n
  <2> QED
    BY <1>b, <2>1, <2>2
<1>7. ASSUME NEW x \in D, NEW d \in D, d.sequence = x.sequence + 1
      PROVE  d.previous = x.hash
  <2>1. CASE x \in E /\ d \in E
    BY <1>7, <2>1 DEF Chain
  <2>2. CASE x \in E /\ d = e
    <3>1. x.sequence = n
      BY <1>7, <1>a, <2>2
    <3>2. x.hash = head.hash
      BY <2>2, <3>1 DEF Chain, n
    <3> QED
      BY <2>2, <3>2
  <2>3. CASE x = e
    <3>1. d.sequence = n + 2
      BY <1>7, <1>a, <2>3
    <3> QED
      BY <1>a, <1>b, <3>1
  <2> QED
    BY <1>b, <2>1, <2>2, <2>3
<1>8. \A x \in D : x.sequence = h.sequence => x.hash = h.hash
  BY <1>a, <1>b
<1>9. h.sequence # 0
  BY <1>a
<1> QED
  BY <1>a, <1>1, <1>2, <1>3, <1>4, <1>5, <1>6, <1>7, <1>8, <1>9 DEF Chain, h, D

LEMMA EventWritten ==
  ASSUME AuditInv, NEW w \in AuditWriters, WriteEvent(w)
  PROVE  AuditInv'
<1> DEFINE tx == auditTx[w]
           E  == auditEvents \union tx.events
<1>a. /\ auditTx \in [ AuditWriters -> Transaction ] /\ tx \in Transaction /\ TxOK(tx)
      /\ auditEvents \subseteq AuditEvent /\ auditHead \in AuditHeads
      /\ Chain(auditEvents, auditHead)
  BY DEF AuditInv, AuditTyped
<1>b. tx.phase = "write_event" /\ tx.holds /\ Extends(tx) /\ Pending(tx)
      /\ tx.key \in AllKeys /\ tx.head \in AuditHeads /\ E \subseteq AuditEvent
  BY <1>a DEF WriteEvent, TxOK, Transaction
<1>1. PICK version \in KeyVersions : auditTx' = [ auditTx EXCEPT ![w] = Appended(tx, version) ]
  BY <1>a DEF WriteEvent
<1>2. UNCHANGED << auditEvents, auditHead, auditOutbox, auditExport, retention >>
  BY DEF WriteEvent
<1>3. CASE \E x \in E : x.key = tx.key
  <2> DEFINE r == [ tx EXCEPT !.phase = "open" ]
  <2>1. auditTx' = [ auditTx EXCEPT ![w] = r ]
    BY <1>1, <1>3 DEF Appended
  <2>2. /\ r \in Transaction /\ r.phase = "open" /\ r.kind = tx.kind /\ r.key = tx.key
        /\ r.holds = tx.holds /\ r.head = tx.head /\ r.events = tx.events /\ r.outbox = tx.outbox
    BY <1>a DEF Transaction
  <2> HIDE DEF r
  <2>3. Extends(r) /\ Pending(r)
    BY <1>b, <2>2 DEF Extends, Pending
  <2>4. TxOK(r)
    BY <1>b, <1>3, <2>2, <2>3 DEF TxOK
  <2> QED
    BY <1>b, <1>2, <2>1, <2>2, <2>4, TxMoves
<1>4. CASE ~ \E x \in E : x.key = tx.key
  <2> DEFINE e == NewEvent(tx, version)
             h == [ exists |-> TRUE, sequence |-> e.sequence, hash |-> e.hash ]
             r == [ tx EXCEPT !.phase = "open", !.events = @ \union { e },
                              !.head = h, !.outbox = @ \union { e.sequence } ]
  <2>1. auditTx' = [ auditTx EXCEPT ![w] = r ]
    BY <1>1, <1>4 DEF Appended
  <2>a. /\ e.sequence = tx.head.sequence + 1 /\ e.key = tx.key /\ e.previous = tx.head.hash
        /\ e.hash = AuditHash(e.previous, e.key, e.version)
    BY DEF NewEvent
  <2>b. e \in AuditEvent
    <3>1. tx.head.sequence + 1 \in Nat \ { 0 } /\ tx.head.hash \in AllHashes
      BY <1>b DEF AuditHeads
    <3>2. AuditHash(tx.head.hash, tx.key, version) \in AllHashes
      BY <1>b, <3>1, HashTyped
    <3> QED
      BY <1>b, <3>1, <3>2 DEF NewEvent, AuditEvent
  <2> HIDE DEF e
  <2>c. h \in AuditHeads /\ e.sequence \in Nat
    BY <2>b DEF AuditEvent, AuditHeads
  <2>2. Chain(E \union { e }, h)
    <3>1. Chain(E, tx.head)
      BY <1>b DEF Extends
    <3>2. \A x \in E : x.key # e.key
      BY <1>4, <2>a
    <3> HIDE DEF E
    <3> QED
      BY <1>b, <2>a, <2>b, <3>1, <3>2, ChainGrows
  <2> HIDE DEF h
  <2>3. /\ r \in Transaction /\ r.phase = "open" /\ r.kind = tx.kind /\ r.key = tx.key
        /\ r.holds = tx.holds /\ r.head = h /\ r.events = tx.events \union { e }
        /\ r.outbox = tx.outbox \union { e.sequence }
    BY <1>a, <2>b, <2>c DEF Transaction
  <2> HIDE DEF r
  <2>4. Extends(r)
    <3>1. auditEvents \union r.events = E \union { e }
      BY <2>3
    <3>2. \A x \in r.events : x.sequence > auditHead.sequence
      <4>1. e.sequence > auditHead.sequence
        <5>1. auditHead.sequence <= tx.head.sequence
          <6>1. CASE auditHead.sequence = 0
            BY <1>b, <6>1 DEF AuditHeads
          <6>2. CASE auditHead.sequence # 0
            <7>1. auditHead.sequence \in 1..auditHead.sequence
              BY <1>a, <6>2 DEF AuditHeads
            <7>2. PICK x \in auditEvents : x.sequence = auditHead.sequence
              BY <1>a, <7>1 DEF Chain
            <7>3. x.sequence \in 1..tx.head.sequence
              BY <1>b DEF Extends, Chain
            <7> QED
              BY <1>a, <1>b, <7>2, <7>3 DEF AuditHeads
          <6> QED
            BY <6>1, <6>2
        <5> QED
          BY <1>a, <1>b, <2>a, <5>1 DEF AuditHeads
      <4> QED
        BY <1>b, <2>3, <4>1 DEF Extends
    <3>3. r.outbox = { x.sequence : x \in r.events }
      <4>1. tx.outbox = { x.sequence : x \in tx.events }
        BY <1>b DEF Extends
      <4> QED
        BY <2>3, <4>1
    <3>4. \A x \in r.events : IF r.kind = "append" THEN x.key \in AppendKeys ELSE x.key = r.key
      <4>1. tx.kind = "append" => e.key \in AppendKeys
        BY <1>b, <2>a DEF Pending
      <4> QED
        BY <1>b, <2>a, <2>3, <4>1 DEF Extends
    <3> QED
      BY <2>2, <2>3, <3>1, <3>2, <3>3, <3>4 DEF Extends
  <2>5. Pending(r)
    BY <1>b, <2>3 DEF Pending
  <2>6. TxOK(r)
    BY <1>b, <2>a, <2>3, <2>4, <2>5 DEF TxOK
  <2> QED
    BY <1>b, <1>2, <2>1, <2>3, <2>6, TxMoves
<1> QED
  BY <1>3, <1>4

\* What a transaction did and its events become durable together.
LEMMA CommitKeeps ==
  ASSUME AuditInv, NEW w \in AuditWriters, CommitAudit(w)
  PROVE  AuditInv'
<1> DEFINE tx == auditTx[w]
           E  == auditEvents \union tx.events
           keys == { e.key : e \in auditEvents }
           news == { e.key : e \in tx.events }
<1>a. /\ auditTx \in [ AuditWriters -> Transaction ] /\ tx \in Transaction /\ TxOK(tx)
      /\ auditEvents \subseteq AuditEvent /\ auditHead \in AuditHeads
      /\ auditExport \in { "none", "completed", "downloaded" }
      /\ retention \in 0..MaxRetention /\ MaxRetention \in Nat
      /\ EffectsAudited /\ auditOutbox \subseteq Nat
  BY AuditAssumption DEF AuditInv, AuditTyped
<1>b. /\ tx.phase = "open" /\ tx.holds /\ Extends(tx) /\ Pending(tx)
      /\ tx.head \in AuditHeads /\ E \subseteq AuditEvent /\ tx.outbox \subseteq Nat
      /\ tx.kind \in { "append", "export", "download", "retention" }
      /\ \E e \in E : e.key = tx.key
  BY <1>a DEF CommitAudit, TxOK, Transaction
<1>c. /\ auditEvents' = E /\ auditHead' = tx.head /\ auditOutbox' = auditOutbox \union tx.outbox
      /\ retention' = IF tx.kind = "retention" THEN retention + 1 ELSE retention
      /\ auditTx' = [ auditTx EXCEPT ![w] = IdleTx ]
  BY DEF CommitAudit
<1>d. /\ tx.kind = "export" => auditExport' = "completed"
      /\ tx.kind = "download" => auditExport' = "downloaded"
      /\ tx.kind \notin { "export", "download" } => auditExport' = auditExport
  <2>1. auditExport' = CASE tx.kind = "export"   -> "completed"
                         [] tx.kind = "download" -> "downloaded"
                         [] OTHER                -> auditExport
    BY DEF CommitAudit
  <2>2. CASE tx.kind = "export"
    BY <2>1, <2>2
  <2>3. CASE tx.kind = "download"
    BY <2>1, <2>3
  <2>4. CASE tx.kind \notin { "export", "download" }
    BY <2>1, <2>4
  <2> QED
    BY <2>2, <2>3, <2>4
<1>e. IdleTx \in Transaction /\ TxOK(IdleTx) /\ ~IdleTx.holds /\ IdleTx.phase = "idle"
  <2>1. ZERO \in AllKeys
    BY DEF AllKeys
  <2> QED
    BY <2>1, HashTyped DEF IdleTx, Transaction, NoHead, AuditHeads, TxOK
<1>1. AuditTyped'
  <2>1. retention' \in 0..MaxRetention
    BY <1>a, <1>b, <1>c DEF Pending
  <2>2. auditExport' \in { "none", "completed", "downloaded" }
    BY <1>a, <1>b, <1>d
  <2> HIDE DEF E
  <2>3. auditTx' \in [ AuditWriters -> Transaction ]
    BY <1>a, <1>c, <1>e
  <2> QED
    BY <1>a, <1>b, <1>c, <2>1, <2>2, <2>3 DEF AuditTyped
<1>2. Chain(auditEvents, auditHead)'
  <2>1. Chain(E, tx.head)
    BY <1>b DEF Extends
  <2> QED
    BY <1>c, <2>1 DEF Chain
<1>3. EffectsAudited'
  <2>a. { e.key : e \in auditEvents' } = keys \union news
    BY <1>c
  <2>b. /\ (auditExport # "none") = (ExportKey \in keys)
        /\ (auditExport = "downloaded") = (DownloadKey \in keys)
        /\ \A v \in 1..MaxRetention : (v <= retention) = (RetentionKey(v) \in keys)
    BY <1>a DEF EffectsAudited
  <2>c. IF tx.kind = "append" THEN news \subseteq AppendKeys ELSE news \subseteq { tx.key }
    BY <1>b DEF Extends
  <2>d. tx.key \in keys \union news
    BY <1>b
  <2> HIDE DEF keys, news
  <2>1. (auditExport' # "none") = (ExportKey \in keys \union news)
    <3>1. CASE tx.kind = "export"
      <4>1. ExportKey \in keys \union news
        BY <1>b, <2>d, <3>1 DEF Pending
      <4> QED
        BY <1>d, <3>1, <4>1
    <3>2. CASE tx.kind # "export"
      <4>1. ExportKey \notin news
        <5>1. tx.kind = "append" => ExportKey \notin AppendKeys
          BY AuditKeysApart
        <5>2. tx.kind # "append" => tx.key # ExportKey
          <6>1. CASE tx.kind = "download"
            BY <1>b, <6>1, AuditKeysApart DEF Pending
          <6>2. CASE tx.kind = "retention"
            <7>1. retention + 1 \in Nat
              BY <1>a
            <7> QED
              BY <1>b, <6>2, <7>1, AuditKeysApart DEF Pending
          <6> QED
            BY <1>b, <3>2, <6>1, <6>2
        <5> QED
          BY <2>c, <5>1, <5>2
      <4>2. (auditExport' # "none") = (auditExport # "none")
        BY <1>b, <1>d, <3>2 DEF Pending
      <4> QED
        BY <2>b, <4>1, <4>2
    <3> QED
      BY <3>1, <3>2
  <2>2. (auditExport' = "downloaded") = (DownloadKey \in keys \union news)
    <3>1. CASE tx.kind = "download"
      <4>1. DownloadKey \in keys \union news
        BY <1>b, <2>d, <3>1 DEF Pending
      <4> QED
        BY <1>d, <3>1, <4>1
    <3>2. CASE tx.kind # "download"
      <4>1. DownloadKey \notin news
        <5>1. tx.kind = "append" => DownloadKey \notin AppendKeys
          BY AuditKeysApart
        <5>2. tx.kind # "append" => tx.key # DownloadKey
          <6>1. CASE tx.kind = "export"
            BY <1>b, <6>1, AuditKeysApart DEF Pending
          <6>2. CASE tx.kind = "retention"
            <7>1. retention + 1 \in Nat
              BY <1>a
            <7> QED
              BY <1>b, <6>2, <7>1, AuditKeysApart DEF Pending
          <6> QED
            BY <1>b, <3>2, <6>1, <6>2
        <5> QED
          BY <2>c, <5>1, <5>2
      <4>2. (auditExport' = "downloaded") = (auditExport = "downloaded")
        BY <1>b, <1>d, <3>2 DEF Pending
      <4> QED
        BY <2>b, <4>1, <4>2
    <3> QED
      BY <3>1, <3>2
  <2>3. ASSUME NEW v \in 1..MaxRetention
        PROVE  (v <= retention') = (RetentionKey(v) \in keys \union news)
    <3>a. (v <= retention) = (RetentionKey(v) \in keys) /\ v \in Nat /\ retention + 1 \in Nat
          /\ retention \in Nat
      BY <1>a, <2>b
    <3>1. CASE tx.kind = "retention"
      <4>1. tx.key = RetentionKey(retention + 1) /\ retention' = retention + 1
        BY <1>b, <1>c, <3>1 DEF Pending
      <4>2. CASE v = retention + 1
        <5>1. RetentionKey(v) \in keys \union news
          BY <2>d, <4>1, <4>2
        <5>2. v <= retention'
          BY <3>a, <4>1, <4>2
        <5> QED
          BY <5>1, <5>2
      <4>3. CASE v # retention + 1
        <5>1. RetentionKey(v) # tx.key
          BY <3>a, <4>1, <4>3, AuditKeysApart
        <5>2. RetentionKey(v) \notin news
          BY <2>c, <3>1, <5>1
        <5>3. (v <= retention') = (v <= retention)
          BY <3>a, <4>1, <4>3
        <5> QED
          BY <3>a, <5>2, <5>3
      <4> QED
        BY <4>2, <4>3
    <3>2. CASE tx.kind # "retention"
      <4>1. RetentionKey(v) \notin news
        <5>1. tx.kind = "append" => RetentionKey(v) \notin AppendKeys
          BY <3>a, AuditKeysApart
        <5>2. tx.kind # "append" => tx.key # RetentionKey(v)
          BY <1>b, <3>a, <3>2, AuditKeysApart DEF Pending
        <5> QED
          BY <2>c, <5>1, <5>2
      <4>2. retention' = retention
        BY <1>c, <3>2
      <4> QED
        BY <3>a, <4>1, <4>2
    <3> QED
      BY <3>1, <3>2
  <2>4. auditOutbox' = { e.sequence : e \in auditEvents' }
    <3>1. auditOutbox = { e.sequence : e \in auditEvents }
      BY <1>a DEF EffectsAudited
    <3>2. tx.outbox = { e.sequence : e \in tx.events }
      BY <1>b DEF Extends
    <3> QED
      BY <1>c, <3>1, <3>2
  <2> QED
    BY <2>a, <2>1, <2>2, <2>3, <2>4 DEF EffectsAudited
<1>4. \A x \in AuditWriters : auditTx'[x] = IF x = w THEN IdleTx ELSE auditTx[x]
  BY <1>a, <1>c
<1>5. TxOK(IdleTx)'
  BY <1>e DEF TxOK, IdleTx
<1>6. ASSUME NEW x \in AuditWriters, x # w
      PROVE  TxOK(auditTx[x])' /\ Apart(IdleTx, auditTx[x]) /\ Apart(auditTx[x], IdleTx)
  <2>1. PICK t \in Transaction : t = auditTx[x]
    BY <1>a
  <2>a. /\ TxOK(t) /\ ~t.holds /\ auditTx'[x] = t /\ auditTx[x] = t
        /\ tx.kind = t.kind => tx.kind = "append" \/ t.phase = "idle"
    <3>1. Apart(tx, t)
      BY <1>6, <2>1 DEF AuditInv
    <3> QED
      BY <1>a, <1>b, <1>4, <1>6, <2>1, <3>1 DEF AuditInv, Apart
  <2>b. t.kind \in { "append", "export", "download", "retention" }
    BY <2>a DEF Transaction
  <2>2. CASE t.phase = "idle"
    <3>1. TxOK(t)'
      BY <2>a, <2>2 DEF TxOK
    <3> QED
      BY <1>e, <2>a, <2>2, <3>1 DEF Apart, TxOK, Pending, Extends, Chain
  <2>3. CASE t.phase # "idle"
    <3>1. Pending(t)
      BY <2>a, <2>3 DEF TxOK
    <3>2. Pending(t)'
      <4>1. CASE t.kind = "append"
        BY <3>1, <4>1 DEF Pending
      <4>2. CASE t.kind = "export"
        BY <1>b, <1>d, <2>a, <2>3, <3>1, <4>2 DEF Pending
      <4>3. CASE t.kind = "download"
        BY <1>b, <1>d, <2>a, <2>3, <3>1, <4>3 DEF Pending
      <4>4. CASE t.kind = "retention"
        BY <1>c, <2>a, <2>3, <3>1, <4>4 DEF Pending
      <4> QED
        BY <2>b, <4>1, <4>2, <4>3, <4>4
    <3>3. t.phase \notin { "write_event", "open" }
      BY <2>a DEF TxOK
    <3> QED
      BY <1>e, <2>a, <2>3, <3>2, <3>3 DEF Apart, TxOK, Pending, Extends, Chain
  <2> QED
    BY <2>2, <2>3
<1>7. \A x \in AuditWriters : TxOK(auditTx[x])'
  BY <1>4, <1>5, <1>6 DEF TxOK, Pending, Extends, Chain
<1>8. ASSUME NEW x \in AuditWriters, NEW y \in AuditWriters, x # y
      PROVE  Apart(auditTx[x], auditTx[y])'
  BY <1>4, <1>6, <1>8 DEF AuditInv, Apart
<1> QED
  BY <1>1, <1>2, <1>3, <1>7, <1>8 DEF AuditInv

LEMMA AuditSteps == AuditInv /\ [AuditNext]_auditVars => AuditInv'
<1> SUFFICES ASSUME AuditInv, [AuditNext]_auditVars PROVE AuditInv'
  OBVIOUS
<1>1. CASE ExpireGrant \/ UNCHANGED auditVars
  <2>1. UNCHANGED << auditEvents, auditHead, auditOutbox, auditExport, retention, auditTx >>
    BY <1>1 DEF ExpireGrant, auditVars
  <2> QED
    BY <2>1 DEF AuditInv, AuditTyped, Chain, EffectsAudited, TxOK, Pending, Extends, Apart
<1> QED
  BY <1>1, CallerStarts, HeadTaken, EventWritten, CommitKeeps DEF AuditNext

LEMMA AuditInvKept == AuditSpec => []AuditInv
  BY AuditStarts, AuditSteps, PTL DEF AuditSpec

\* However transactions interleave, repeat a key, die or change the key
\* version: verify finds no fault in any part of the rows, nor in the head.
THEOREM AuditAlwaysVerifies == AuditSpec => []AuditVerifies
<1>1. AuditInv => AuditVerifies
  BY ChainVerifies DEF AuditInv
<1> QED
  BY <1>1, AuditInvKept, PTL

\* An export, its download, a version of the retention policy and a row of the
\* outbox are there exactly when the event that records them is.
THEOREM EffectsAlwaysAudited == AuditSpec => []EffectsAudited
<1>1. AuditInv => EffectsAudited
  BY DEF AuditInv
<1> QED
  BY <1>1, AuditInvKept, PTL

\* A transaction that has not begun has appended nothing, and none appends more
\* than its caller asks for.
AppendsCounted ==
  /\ exportExpired \in BOOLEAN
  /\ \A w \in AuditWriters :
       /\ auditTx[w].appends \in 0 .. MaxAppends + 1
       /\ auditTx[w].phase = "idle" => auditTx[w].appends = 0

LEMMA TxCounts ==
  ASSUME AuditInv, AppendsCounted, NEW w \in AuditWriters, NEW r,
         r.appends \in 0 .. MaxAppends + 1, r.phase = "idle" => r.appends = 0,
         auditTx' = [ auditTx EXCEPT ![w] = r ], exportExpired' = exportExpired
  PROVE  AppendsCounted'
<1>1. \A x \in AuditWriters : auditTx'[x] = IF x = w THEN r ELSE auditTx[x]
  BY DEF AuditInv, AuditTyped
<1> QED
  BY <1>1 DEF AppendsCounted

LEMMA AppendsStep == AuditInv /\ AppendsCounted /\ [AuditNext]_auditVars => AppendsCounted'
<1> SUFFICES ASSUME AuditInv, AppendsCounted, [AuditNext]_auditVars PROVE AppendsCounted'
  OBVIOUS
<1>1. CASE UNCHANGED auditTx /\ exportExpired' \in BOOLEAN
  BY <1>1 DEF AppendsCounted
<1>2. ASSUME NEW w \in AuditWriters, NEW kind, NEW key, StartAppend(w, kind, key),
             auditTx[w].phase = "idle" \/ auditTx[w].appends < MaxAppends,
             exportExpired' = exportExpired
      PROVE  AppendsCounted'
  <2>1. PICK tx \in Transaction : tx = auditTx[w]
    BY DEF AuditInv, AuditTyped
  <2>2. PICK n : n = tx.appends + 1
    OBVIOUS
  <2>3. n \in 0 .. MaxAppends + 1
    BY <1>2, <2>1, <2>2, AuditAssumption DEF AppendsCounted
  <2>4. PICK r : r = [ tx EXCEPT !.phase = "insert_head", !.kind = kind, !.key = key, !.appends = n ]
    OBVIOUS
  <2>5. r.appends = n /\ r.phase = "insert_head"
    BY <2>1, <2>4 DEF Transaction
  <2>6. auditTx' = [ auditTx EXCEPT ![w] = r ]
    BY <1>2, <2>1, <2>2, <2>4 DEF StartAppend, AuditInv, AuditTyped
  <2> QED
    BY <1>2, <2>3, <2>5, <2>6, TxCounts
<1>3. ASSUME NEW w \in AuditWriters,
             \/ \E k \in AuditKeys : RecordEvent(w, k)
             \/ RequestExport(w) \/ Download(w) \/ SetRetention(w)
      PROVE  AppendsCounted'
  BY <1>2, <1>3 DEF RecordEvent, RequestExport, Download, SetRetention
<1>4. ASSUME NEW w \in AuditWriters, InsertHead(w) \/ LockHead(w) PROVE AppendsCounted'
  <2>1. auditTx \in [ AuditWriters -> Transaction ] /\ auditTx[w].phase # "idle"
    BY <1>4 DEF AuditInv, AuditTyped, InsertHead, LockHead
  <2>2. PICK tx \in Transaction : tx = auditTx[w]
    BY <2>1
  <2>3. PICK r : /\ auditTx' = [ auditTx EXCEPT ![w] = r ]
                 /\ r.appends = tx.appends /\ r.phase \in { "lock_head", "write_event" }
    <3>1. CASE InsertHead(w)
      <4> DEFINE a == [ tx EXCEPT !.phase = "lock_head" ]
                 b == [ tx EXCEPT !.phase = "lock_head", !.holds = TRUE,
                                  !.head = [ NoHead EXCEPT !.exists = TRUE ] ]
      <4>1. /\ a.appends = tx.appends /\ a.phase = "lock_head"
            /\ b.appends = tx.appends /\ b.phase = "lock_head"
        BY DEF Transaction
      <4>2. \/ auditTx' = [ auditTx EXCEPT ![w] = a ]
            \/ auditTx' = [ auditTx EXCEPT ![w] = b ]
        BY <2>1, <2>2, <3>1 DEF InsertHead
      <4> HIDE DEF a, b
      <4> QED BY <4>1, <4>2
    <3>2. CASE LockHead(w)
      <4>1. PICK head : auditTx' = [ auditTx EXCEPT ![w].phase = "write_event", ![w].holds = TRUE,
                                                    ![w].head = head ]
        BY <2>1, <3>2 DEF LockHead
      <4> DEFINE a == [ tx EXCEPT !.phase = "write_event", !.holds = TRUE, !.head = head ]
      <4>2. a.appends = tx.appends /\ a.phase = "write_event"
        BY DEF Transaction
      <4>3. auditTx' = [ auditTx EXCEPT ![w] = a ]
        BY <2>1, <2>2, <4>1
      <4> HIDE DEF a
      <4> QED BY <4>2, <4>3
    <3> QED BY <1>4, <3>1, <3>2
  <2>4. tx.appends \in 0 .. MaxAppends + 1 /\ exportExpired' = exportExpired
    BY <1>4, <2>2 DEF AppendsCounted, InsertHead, LockHead
  <2> QED
    BY <2>3, <2>4, TxCounts
<1>5. ASSUME NEW w \in AuditWriters, WriteEvent(w) PROVE AppendsCounted'
  <2>1. PICK tx \in Transaction : tx = auditTx[w]
    BY DEF AuditInv, AuditTyped
  <2>2. PICK version \in KeyVersions : auditTx' = [ auditTx EXCEPT ![w] = Appended(tx, version) ]
    BY <1>5, <2>1 DEF WriteEvent
  <2>3. Appended(tx, version).appends = tx.appends /\ Appended(tx, version).phase = "open"
    BY DEF Appended, Transaction
  <2>4. tx.appends \in 0 .. MaxAppends + 1 /\ exportExpired' = exportExpired
    BY <1>5, <2>1 DEF AppendsCounted, WriteEvent
  <2> QED
    BY <2>2, <2>3, <2>4, TxCounts
<1>6. ASSUME NEW w \in AuditWriters, CommitAudit(w) \/ RollbackAudit(w) PROVE AppendsCounted'
  <2>1. auditTx' = [ auditTx EXCEPT ![w] = IdleTx ] /\ exportExpired' = exportExpired
    BY <1>6 DEF CommitAudit, RollbackAudit
  <2>2. IdleTx.appends = 0 /\ 0 \in 0 .. MaxAppends + 1
    BY AuditAssumption DEF IdleTx
  <2> QED
    BY <2>1, <2>2, TxCounts
<1> QED
  BY <1>1, <1>3, <1>4, <1>5, <1>6 DEF AuditNext, auditVars, ExpireGrant, AppendsCounted

\* The rows of the audit and what the transactions hold keep their types, for any
\* transactions, keys and bounds.
THEOREM AuditsTyped == AuditSpec => []AuditTypeOK
<1>1. AuditInit => AppendsCounted
  <2>1. IdleTx.appends = 0 /\ 0 \in 0 .. MaxAppends + 1
    BY AuditAssumption DEF IdleTx
  <2> QED BY <2>1 DEF AuditInit, AppendsCounted
<1>2. AuditInv /\ AppendsCounted => AuditTypeOK
  <2> SUFFICES ASSUME AuditInv, AppendsCounted PROVE AuditTypeOK
    OBVIOUS
  <2>1. \A e \in auditEvents : e.sequence \in Nat \ { 0 } /\ e.version \in KeyVersions
    BY DEF AuditInv, AuditTyped, AuditEvent
  <2>2. auditHead.exists \in BOOLEAN /\ auditHead.sequence \in Nat
    BY DEF AuditInv, AuditTyped, AuditHeads
  <2>3. \A w \in AuditWriters : auditTx[w] \in Transaction
    BY DEF AuditInv, AuditTyped
  <2>4. \A w \in AuditWriters :
          /\ auditTx[w].phase \in { "idle", "insert_head", "lock_head", "write_event", "open" }
          /\ auditTx[w].kind \in { "append", "export", "download", "retention" }
          /\ auditTx[w].holds \in BOOLEAN
    BY <2>3 DEF Transaction
  <2> QED
    BY <2>1, <2>2, <2>4 DEF AuditInv, AuditTyped, AppendsCounted, AuditTypeOK
<1> QED
  BY <1>1, <1>2, AppendsStep, AuditInvKept, PTL DEF AuditSpec

\* The events of a chain are numbered without a gap.
EventAt(E, i) == CHOOSE e \in E : e.sequence = i

LEMMA ChainCounted ==
  ASSUME NEW E, E \subseteq AuditEvent, NEW head \in AuditHeads, Chain(E, head)
  PROVE  /\ Cardinality(E) = head.sequence
         /\ \A i \in 1..head.sequence : EventAt(E, i) \in E /\ EventAt(E, i).sequence = i
<1> DEFINE n == head.sequence
           b == [ i \in 1..n |-> EventAt(E, i) ]
<1>1. n \in Nat
  BY DEF AuditHeads
<1>2. ASSUME NEW i \in 1..n
      PROVE  EventAt(E, i) \in E /\ EventAt(E, i).sequence = i
  <2>1. \E e \in E : e.sequence = i
    BY DEF Chain
  <2> QED
    BY <2>1 DEF EventAt
<1>3. b \in [ 1..n -> E ]
  BY <1>2
<1>4. \A i, j \in 1..n : b[i] = b[j] => i = j
  BY <1>2
<1>5. \A e \in E : \E i \in 1..n : b[i] = e
  <2> SUFFICES ASSUME NEW e \in E PROVE \E i \in 1..n : b[i] = e
    OBVIOUS
  <2>1. e.sequence \in 1..n
    BY DEF Chain
  <2>2. b[e.sequence] = e
    BY <1>2, <2>1 DEF Chain
  <2> QED
    BY <2>1, <2>2
<1> HIDE DEF b
<1>6. ExistsBijection(1..n, E)
  <2>1. b \in Bijection(1..n, E)
    BY <1>3, <1>4, <1>5 DEF Bijection, Injection, Surjection, IsInjective
  <2> QED
    BY <2>1 DEF ExistsBijection
<1>7. IsFiniteSet(1..n) /\ Cardinality(1..n) = n
  BY <1>1, FS_Interval
<1>8. Cardinality(E) = n
  BY <1>6, <1>7, FS_Bijection
<1> QED
  BY <1>2, <1>8

LEMMA LogStarts == AuditInit => Log!LogInit
<1> SUFFICES ASSUME AuditInit PROVE ChainLog = << >>
  BY DEF Log!LogInit
<1>1. Cardinality(auditEvents) = 0
  BY FS_EmptySet DEF AuditInit
<1> QED
  BY <1>1 DEF ChainLog

LEMMA LogStep ==
  ASSUME AuditInv, AuditInv', [AuditNext]_auditVars
  PROVE  [Log!LogNext]_ChainLog
<1>1. CASE auditEvents' = auditEvents
  BY <1>1 DEF ChainLog
<1>2. CASE auditEvents' # auditEvents
  <2>1. PICK w \in AuditWriters : CommitAudit(w)
    BY <1>2 DEF AuditNext, auditVars, RecordEvent, RequestExport, Download, SetRetention,
                InsertHead, LockHead, WriteEvent, RollbackAudit, ExpireGrant
  <2> DEFINE new == auditTx[w].events
             n == auditHead.sequence
             m == auditHead'.sequence
  <2>a. /\ auditEvents \subseteq AuditEvent /\ auditHead \in AuditHeads
        /\ Chain(auditEvents, auditHead)
        /\ auditEvents' \subseteq AuditEvent /\ auditHead' \in AuditHeads
        /\ Chain(auditEvents', auditHead') /\ n \in Nat /\ m \in Nat
    BY DEF AuditInv, AuditTyped, AuditHeads
  <2>b. auditEvents' = auditEvents \union new /\ \A e \in new : e.sequence > n
    <3>1. Extends(auditTx[w])
      BY <2>1 DEF AuditInv, CommitAudit, TxOK
    <3> QED
      BY <2>1, <3>1 DEF CommitAudit, Extends
  <2>c. /\ Cardinality(auditEvents) = n
        /\ \A i \in 1..n : EventAt(auditEvents, i) \in auditEvents
                           /\ EventAt(auditEvents, i).sequence = i
    BY <2>a, ChainCounted
  <2>d. /\ Cardinality(auditEvents') = m
        /\ \A i \in 1..m : EventAt(auditEvents', i) \in auditEvents'
                           /\ EventAt(auditEvents', i).sequence = i
    BY <2>a, ChainCounted
  <2>2. n < m
    <3>1. PICK e \in new : e.sequence > n
      BY <1>2, <2>b
    <3>2. e.sequence \in 1..m
      BY <2>a, <2>b, <3>1 DEF Chain
    <3> QED
      BY <2>a, <3>1, <3>2
  <2>3. \A i \in 1..n : EventAt(auditEvents', i) = EventAt(auditEvents, i)
    <3> SUFFICES ASSUME NEW i \in 1..n
                 PROVE  EventAt(auditEvents', i) = EventAt(auditEvents, i)
      OBVIOUS
    <3>1. i \in 1..m
      BY <2>a, <2>2
    <3>2. \A e, d \in auditEvents' : e.sequence = d.sequence => e = d
      BY <2>a DEF Chain
    <3>3. EventAt(auditEvents, i) \in auditEvents' /\ EventAt(auditEvents, i).sequence = i
      BY <2>b, <2>c
    <3>4. EventAt(auditEvents', i) \in auditEvents' /\ EventAt(auditEvents', i).sequence = i
      BY <2>d, <3>1
    <3> QED
      BY <3>2, <3>3, <3>4
  <2>4. ChainLog = [ i \in 1..n |-> EventAt(auditEvents, i).key ]
    BY <2>c DEF ChainLog, EventAt
  <2>5. ChainLog' = [ i \in 1..m |-> EventAt(auditEvents', i).key ]
    BY <2>d DEF ChainLog, EventAt
  <2>6. ChainLog \in Seq(AllKeys) /\ Len(ChainLog) = n
    <3>1. ChainLog \in [ 1..n -> AllKeys ]
      BY <2>a, <2>c, <2>4 DEF AuditEvent
    <3> HIDE DEF n
    <3> QED
      BY <2>a, <3>1, SeqOf
  <2>7. ChainLog' \in Seq(AllKeys) /\ Len(ChainLog') = m
    <3>1. ChainLog' \in [ 1..m -> AllKeys ]
      BY <2>a, <2>d, <2>5 DEF AuditEvent
    <3> HIDE DEF m
    <3> QED
      BY <2>a, <3>1, SeqOf
  <2>8. SubSeq(ChainLog', 1, n) = ChainLog
    <3>1. \A i \in 1..n : ChainLog'[i] = ChainLog[i] /\ ChainLog[i] \in AllKeys
      <4>1. \A i \in 1..n : i \in 1..m
        BY <2>a, <2>2
      <4>2. \A i \in 1..n : ChainLog'[i] = ChainLog[i]
        BY <2>3, <2>4, <2>5, <4>1
      <4> QED
        BY <2>6, <4>2
    <3> DEFINE s == SubSeq(ChainLog', 1, n)
    <3>2. s \in Seq(AllKeys) /\ Len(s) = n /\ \A i \in 1..n : s[i] = ChainLog'[i]
      <4> HIDE DEF n
      <4>1. 1 \in Int /\ n \in Int /\ \A i \in 1..n : ChainLog'[i] \in AllKeys
        BY <2>a, <3>1
      <4>2. /\ s \in Seq(AllKeys) /\ Len(s) = IF 1 <= n THEN n - 1 + 1 ELSE 0
            /\ \A i \in 1..(n - 1 + 1) : s[i] = ChainLog'[1 + i - 1]
        BY <4>1, SubSeqProperties
      <4> HIDE DEF s
      <4>3. Len(s) = n
        BY <2>a, <4>2
      <4>4. n - 1 + 1 = n /\ \A i \in 1..n : 1 + i - 1 = i
        BY <2>a
      <4>5. \A i \in 1..n : s[i] = ChainLog'[i]
        BY <4>2, <4>4
      <4> QED
        BY <4>2, <4>3, <4>5
    <3> HIDE DEF s, n
    <3>3. s = ChainLog
      BY <2>6, <3>1, <3>2, SeqEqual
    <3> QED
      BY <3>3 DEF s
  <2>9. \A i, j \in 1..m : ChainLog'[i] = ChainLog'[j] => i = j
    <3> SUFFICES ASSUME NEW i \in 1..m, NEW j \in 1..m,
                        EventAt(auditEvents', i).key = EventAt(auditEvents', j).key
                 PROVE  i = j
      BY <2>5
    <3>1. EventAt(auditEvents', i) = EventAt(auditEvents', j)
      BY <2>a, <2>d DEF Chain
    <3> QED
      BY <2>d, <3>1
  <2>10. DOMAIN ChainLog' = 1..m
    BY <2>5
  <2> QED
    BY <2>2, <2>6, <2>7, <2>8, <2>9, <2>10 DEF Log!LogNext
<1> QED
  BY <1>1, <1>2

\* The hash chain implements the log of the in-memory service: what others see
\* is only added to, at its end, and no key is in it twice.
THEOREM AuditLogImplemented == AuditSpec => ImplementsAuditLog
<1>1. AuditInv /\ AuditInv' /\ [AuditNext]_auditVars => [Log!LogNext]_ChainLog
  BY LogStep
<1> QED
  BY <1>1, LogStarts, AuditInvKept, PTL DEF AuditSpec, ImplementsAuditLog, Log!LogSpec

=============================================================================
